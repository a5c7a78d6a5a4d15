---------------------------- MODULE LibraryScan -----------------------------
(***************************************************************************)
(* The music library.  A worker walks the configured folders and builds an *)
(* index of the files it meets, taking over the records of the last index  *)
(* whose file has not changed; what the walk did not meet is thereby       *)
(* deleted.  The index is written to a temporary file and renamed.  The    *)
(* user interface starts and cancels scans, adds and removes folders,      *)
(* edits tags, and keeps an index in memory that it reloads on entry.      *)
(*                                                                         *)
(* A file is the number of times it was written, 0 when it is not there.   *)
(* What a scan compares is its time in whole seconds and its size: a write *)
(* may leave both as they were.  They are named by the first version that  *)
(* has them; a record has the ones the file had when it was examined, and  *)
(* the version its tags are from.                                          *)
(***************************************************************************)
EXTENDS Integers, FiniteSets

CONSTANTS
  Roots, Default,     \* folders that can be configured, and the one implied by none
  Files, Home,        \* files, and the folder of each
  NoIndex,            \* no index file, or no index in memory
  DiskErrs,           \* may a folder fail while it is walked, or a file in it
  RemovalUnsaved,     \* may the index of a removal fail to be saved
  RemovesUnloaded,    \* may a folder be removed before the index was loaded
  MaxWrites,          \* bound: writes of files
  MaxScans,           \* bound: scans started
  MaxCrashes          \* bound: restarts

\* What an index may hold: a table of records by file, and the folders it is of.
Tables  == UNION {[known -> [mtime : Nat, tags : Nat]] : known \in SUBSET Files}
Indexes == [roots : SUBSET Roots, tracks : Tables]

ASSUME LibraryAssumption ==
  /\ Default \in Roots /\ Home \in [Files -> Roots] /\ {DiskErrs, RemovalUnsaved, RemovesUnloaded} \subseteq BOOLEAN
  /\ {MaxWrites, MaxScans, MaxCrashes} \subseteq Nat
  /\ Files # {} /\ NoIndex \notin Indexes

VARIABLES
  disk, key, gone,         \* versions, their times and sizes, files deleted for good
  roots, savedRoots,       \* config_.library_roots, and what the config file holds
  file, mem,               \* the index file, library_index_
  running, cancelReq,      \* lib_scan_running_, lib_cancel_requested_
  scanCancelled, inside,   \* lib_scan_cancelled_, in_library_
  cancel, active, done,    \* progress_.cancel, active_, done_
  wpc,                     \* where the worker is
  scanRoots, todo, root,   \* its folders: all, not yet walked, the one being walked
  walked,                  \* walked_roots > 0
  due, met,                \* entries that were there when the walk of root began, and entries met
  cur, stat,               \* the file being examined, its time and size
  previous, found,         \* the index it started from, the records so far
  completed,               \* ScanOutcome::completed
  writes, scans, crashes   \* bounds

world  == <<disk, key, gone, writes>>
config == <<roots, savedRoots>>
pane   == <<running, cancelReq, scanCancelled, inside, scans>>
flags  == <<cancel, active, done>>
visit  == <<root, due, met, cur, stat, previous>>
walk   == <<visit, scanRoots, todo, walked, found, completed>>
vars == <<world, config, file, mem, pane, flags, wpc, walk, crashes>>

Nothing == [f \in {} |-> 0]
Record(m, t) == [mtime |-> m, tags |-> t]
Tracks(index) == IF index = NoIndex THEN Nothing ELSE index.tracks
With(tracks, f, r) == [g \in DOMAIN tracks \cup {f} |-> IF g = f THEN r ELSE tracks[g]]
Without(tracks, r) == [f \in {g \in DOMAIN tracks : Home[g] # r} |-> tracks[f]]
InRoot(f) == Home[f] = root

AnyFile == CHOOSE f \in Files : TRUE
VisitOver ==
  root' = Default /\ due' = {} /\ met' = {} /\ cur' = AnyFile /\ stat' = 0 /\ previous' = Nothing
WalkOver ==
  VisitOver /\ scanRoots' = {} /\ todo' = {} /\ walked' = FALSE /\ found' = Nothing /\ completed' = FALSE

\* libraryRoots(): no configured folder means the music folder.
LibraryRoots == IF roots = {} THEN {Default} ELSE roots

Init ==
  /\ disk \in [Files -> {0, 1}] /\ key = disk /\ gone = {} /\ writes = 0
  /\ roots \in SUBSET Roots /\ savedRoots = roots
  /\ file = NoIndex /\ mem = NoIndex
  /\ running = FALSE /\ cancelReq = FALSE /\ scanCancelled = FALSE /\ inside = FALSE /\ scans = 0
  /\ cancel = FALSE /\ active = FALSE /\ done = FALSE
  /\ wpc = "idle" /\ scanRoots = {} /\ todo = {} /\ walked = FALSE /\ found = Nothing /\ completed = FALSE
  /\ root = Default /\ due = {} /\ met = {} /\ cur = AnyFile /\ stat = 0 /\ previous = Nothing
  /\ crashes = 0

-----------------------------------------------------------------------------
(* The world: other programs write and delete files. *)

\* statFile() sees a write unless it is within the second of the last one and keeps the size.
Written(f) ==
  /\ writes < MaxWrites /\ writes' = writes + 1
  /\ disk' = [disk EXCEPT ![f] = @ + 1]
  /\ \/ key' = [key EXCEPT ![f] = disk[f] + 1]
     \/ disk[f] > 0 /\ key' = key

Write == \E f \in Files \ gone :
  /\ Written(f)
  /\ UNCHANGED <<gone, config, file, mem, pane, flags, wpc, walk, crashes>>

Delete == \E f \in Files \ gone :
  /\ disk[f] > 0 /\ disk' = [disk EXCEPT ![f] = 0] /\ key' = [key EXCEPT ![f] = 0]
  /\ gone' = gone \cup {f}
  /\ UNCHANGED <<writes, config, file, mem, pane, flags, wpc, walk, crashes>>

-----------------------------------------------------------------------------
(* The worker: scanCollection, saveIndexFileAtomic and the end of start's thread. *)

Rest == <<world, config, mem, pane, crashes>>

ScanLoad ==
  /\ wpc = "load" /\ wpc' = "root"
  /\ previous' = Tracks(file)
  /\ UNCHANGED <<Rest, file, flags, scanRoots, todo, root, walked, due, met, cur, stat, found, completed>>

\* (wrong) a folder that cannot be opened is an empty one.
Carried_Forgotten(r) == found
Carried(r) == [f \in DOMAIN found \cup {g \in DOMAIN previous : Home[g] = r} |->
                 IF f \in DOMAIN found THEN found[f] ELSE previous[f]]

\* A folder is walked, or is not readable now and its records are carried forward.
ScanRoot == \E r \in todo :
  /\ wpc = "root" /\ todo' = todo \ {r} /\ root' = r
  /\ \/ /\ walked' = TRUE /\ wpc' = "walk" /\ found' = found
        /\ met' = {} /\ due' = {f \in Files : Home[f] = r /\ disk[f] > 0}
     \/ /\ found' = Carried(r) /\ UNCHANGED <<walked, wpc, met, due>>
  /\ UNCHANGED <<Rest, file, flags, scanRoots, cur, stat, previous, completed>>

Entries == {f \in Files : InRoot(f) /\ disk[f] > 0 /\ f \notin met}

ScanCancelled ==
  /\ wpc = "walk" /\ Entries # {} /\ cancel
  /\ wpc' = "publish" /\ completed' = FALSE
  /\ UNCHANGED <<Rest, file, flags, scanRoots, todo, root, walked, due, met, cur, stat, previous, found>>

\* An entry; the walk may also end at it, as if it were the last, when the iterator fails.
ScanEntry == \E f \in Entries :
  /\ wpc = "walk" /\ ~cancel
  /\ met' = met \cup {f} /\ cur' = f
  /\ wpc' \in {"stat"} \cup (IF DiskErrs THEN {"root"} ELSE {})
  /\ UNCHANGED <<Rest, file, flags, scanRoots, todo, root, walked, due, stat, previous, found, completed>>

ScanRootEnd ==
  /\ wpc = "walk" /\ Entries \cap due = {}
  /\ wpc' = "root"
  /\ UNCHANGED <<Rest, file, flags, walk>>

\* An unchanged file keeps its record; one that is gone, or cannot be examined, has none.
ScanStat ==
  /\ wpc = "stat" /\ stat' = key[cur]
  /\ \/ /\ disk[cur] = 0 \/ DiskErrs
        /\ wpc' = "walk" /\ found' = found
     \/ /\ disk[cur] > 0 /\ cur \in DOMAIN previous /\ previous[cur].mtime = key[cur]
        /\ wpc' = "walk" /\ found' = With(found, cur, previous[cur])
     \/ /\ disk[cur] > 0 /\ ~(cur \in DOMAIN previous /\ previous[cur].mtime = key[cur])
        /\ wpc' = "tags" /\ found' = found
  /\ UNCHANGED <<Rest, file, flags, scanRoots, todo, root, walked, due, met, cur, previous, completed>>

\* (wrong) the file is examined again after its tags were read.
ScanTags_StatsLast ==
  /\ wpc = "tags" /\ wpc' = "walk"
  /\ \E later \in stat .. disk[cur] : found' = With(found, cur, Record(key[cur], later))
  /\ UNCHANGED <<Rest, file, flags, scanRoots, todo, root, walked, due, met, cur, stat, previous, completed>>

ScanTags ==
  /\ wpc = "tags" /\ wpc' = "walk"
  /\ found' = With(found, cur, Record(stat, disk[cur]))
  /\ UNCHANGED <<Rest, file, flags, scanRoots, todo, root, walked, due, met, cur, stat, previous, completed>>

\* Not one folder could be read: not completed.
ScanEnds ==
  /\ wpc = "root" /\ todo = {}
  /\ completed' = walked /\ wpc' = IF walked THEN "save" ELSE "publish"
  /\ UNCHANGED <<Rest, file, flags, scanRoots, todo, root, walked, due, met, cur, stat, previous, found>>

\* The temporary file is written, or is not.
SaveTemporary ==
  /\ wpc = "save" /\ wpc' \in {"rename", "publish"}
  /\ UNCHANGED <<Rest, file, flags, walk>>

SaveRename ==
  /\ wpc = "rename" /\ wpc' = "publish"
  /\ file' \in {file, [roots |-> scanRoots, tracks |-> found]}
  /\ UNCHANGED <<Rest, flags, walk>>

\* The outcome is there before active_ falls, and done_ rises after.
Publish ==
  /\ wpc = "publish" /\ wpc' = "inactive" /\ VisitOver
  /\ UNCHANGED <<Rest, file, flags, scanRoots, todo, walked, found, completed>>

Inactive ==
  /\ wpc = "inactive" /\ wpc' = "done" /\ active' = FALSE
  /\ UNCHANGED <<Rest, file, cancel, done, walk>>

Done ==
  /\ wpc = "done" /\ wpc' = "idle" /\ done' = TRUE
  /\ UNCHANGED <<Rest, file, cancel, active, walk>>

Worker == \/ ScanLoad \/ ScanRoot \/ ScanCancelled \/ ScanEntry \/ ScanRootEnd \/ ScanStat \/ ScanTags
          \/ ScanEnds \/ SaveTemporary \/ SaveRename \/ Publish \/ Inactive \/ Done

-----------------------------------------------------------------------------
(* The user interface. *)

\* startLibraryScan() for the folders given; if none of them is readable now nothing is started.
StartScan(given) ==
  /\ scans < MaxScans /\ scans' = scans + 1
  /\ cancelReq' = FALSE
  /\ \/ /\ running' = FALSE /\ UNCHANGED <<flags, wpc, walk>>
     \/ /\ running' = TRUE
        /\ cancel' = FALSE /\ done' = FALSE /\ active' = TRUE
        /\ wpc' = "load" /\ scanRoots' = given /\ todo' = given
        /\ walked' = FALSE /\ found' = Nothing /\ completed' = FALSE /\ UNCHANGED visit

NoScan == UNCHANGED <<running, cancelReq, scans, flags, wpc, walk>>

\* enterLibrarySection(): the index is read from its file; other folders than it is of, or
\* no index, start a scan, except once after a cancelled one.
Enter ==
  /\ ~inside /\ inside' = TRUE
  /\ \/ /\ running /\ NoScan /\ UNCHANGED <<mem, scanCancelled>>
     \/ /\ ~running /\ mem' = file
        /\ \/ /\ file # NoIndex /\ file.roots \notin {{}, LibraryRoots}
              /\ StartScan(LibraryRoots) /\ UNCHANGED scanCancelled
           \/ /\ file # NoIndex /\ file.roots \in {{}, LibraryRoots}
              /\ NoScan /\ UNCHANGED scanCancelled
           \/ /\ file = NoIndex /\ scanCancelled
              /\ NoScan /\ scanCancelled' = FALSE
           \/ /\ file = NoIndex /\ ~scanCancelled
              /\ StartScan(LibraryRoots) /\ UNCHANGED scanCancelled
  /\ UNCHANGED <<world, config, file, crashes>>

Leave ==
  /\ inside /\ inside' = FALSE
  /\ UNCHANGED <<world, config, file, mem, running, cancelReq, scanCancelled, scans, flags, wpc, walk, crashes>>

Rescan ==
  /\ inside /\ ~running /\ StartScan(LibraryRoots)
  /\ UNCHANGED <<world, config, file, mem, scanCancelled, inside, crashes>>

CancelScan ==
  /\ running /\ ~cancelReq /\ cancelReq' = TRUE /\ cancel' = TRUE
  /\ UNCHANGED <<world, config, file, mem, running, scanCancelled, inside, scans, active, done, wpc, walk, crashes>>

\* addLibraryRoot(): the first folder added keeps the implied one.
AddRoot == \E r \in Roots :
  /\ ~inside /\ ~running /\ r \notin roots
  /\ roots' = LibraryRoots \cup {r} /\ savedRoots' = roots'
  /\ StartScan(roots')
  /\ UNCHANGED <<world, file, mem, scanCancelled, inside, crashes>>

\* removeLibraryRoot(): the records go, the index is saved, the configuration is saved.
RemoveFrom(index, r) == [roots |-> roots \ {r}, tracks |-> Without(Tracks(index), r)]

AfterSave(index) == IF RemovalUnsaved THEN {file, index} ELSE {index}

RemoveRoot == \E r \in roots :
  /\ ~inside /\ ~running /\ (RemovesUnloaded \/ mem # NoIndex)
  /\ roots' = roots \ {r} /\ mem' = RemoveFrom(mem, r) /\ file' \in AfterSave(mem')
  /\ UNCHANGED <<world, savedRoots, pane, flags, wpc, walk, crashes>>

RemoveSaved ==
  /\ savedRoots # roots /\ savedRoots' = roots
  /\ UNCHANGED <<world, roots, file, mem, pane, flags, wpc, walk, crashes>>

\* The tags of a file are written; its record in memory gets them, its time stays.
EditTags == \E f \in Files :
  /\ disk[f] > 0 /\ Written(f)
  /\ mem' = IF f \in DOMAIN Tracks(mem) THEN [mem EXCEPT !.tracks[f].tags = disk[f] + 1] ELSE mem
  /\ UNCHANGED <<gone, config, file, pane, flags, wpc, walk, crashes>>

\* pollLibraryScan(): a completed scan is installed, any other only ends.
PollScan ==
  /\ running /\ ~active /\ done
  /\ running' = FALSE /\ cancelReq' = FALSE
  /\ scanCancelled' = (~completed /\ cancelReq)
  /\ mem' = IF completed THEN [roots |-> scanRoots, tracks |-> found] ELSE mem
  /\ WalkOver
  /\ UNCHANGED <<world, config, file, inside, scans, flags, wpc, crashes>>

\* The program ends at any point and is started again.
Restart ==
  /\ crashes < MaxCrashes /\ crashes' = crashes + 1
  /\ roots' = savedRoots /\ mem' = NoIndex
  /\ running' = FALSE /\ cancelReq' = FALSE /\ scanCancelled' = FALSE /\ inside' = FALSE
  /\ cancel' = FALSE /\ active' = FALSE /\ done' = FALSE /\ wpc' = "idle" /\ WalkOver
  /\ UNCHANGED <<world, savedRoots, file, scans>>

User == Enter \/ Leave \/ Rescan \/ CancelScan \/ AddRoot \/ RemoveRoot \/ EditTags \/ PollScan
Interface == IF savedRoots = roots THEN User ELSE RemoveSaved

Next == Write \/ Delete \/ Worker \/ Interface \/ Restart

Spec == Init /\ [][Next]_vars

-----------------------------------------------------------------------------
(* Properties. *)

Saved(f) == f \in DOMAIN Tracks(file)

\* A file that stays on its disk, in a folder that stays configured, never loses its
\* record in the saved index: not to a cancelled scan, not to an unreadable folder, not to
\* a full disk or a crash.
RecordsKept ==
  [][\A f \in Files :
       Saved(f) /\ disk'[f] > 0 /\ Home[f] \in (LibraryRoots \cap LibraryRoots') \ (roots \ roots')
         => Saved(f)']_vars

\* A record that the next scan will take over as unchanged has tags that the file has had
\* since it got its present time and size: whatever is written while a scan examines and
\* reads, no write is missed for good but one that leaves both of them as they were.
RecordsFresh == \A index \in {file, mem} : \A f \in DOMAIN Tracks(index) :
  Tracks(index)[f].mtime = key[f] => Tracks(index)[f].tags \in key[f] .. disk[f]

\* "The write changed them on disk, so this record now looks stale to the scanner, and the
\* next rescan re-reads this one file": a file whose tags were edited, there and in the index
\* in memory, has not the time and size of its saved record any more.  (Broken by the code.)
EditLooksStale ==
  [][\A f \in Files :
       Saved(f) /\ disk'[f] # disk[f] /\ mem' # mem => Tracks(file)[f].mtime # key'[f]]_vars

\* Tags edited in the player stay what the library shows.  (Broken by the code.)
EditsStay ==
  [][\A f \in DOMAIN Tracks(mem) : f \in DOMAIN Tracks(mem') /\ mem' # NoIndex
       => Tracks(mem')[f].tags >= Tracks(mem)[f].tags]_vars
=============================================================================
