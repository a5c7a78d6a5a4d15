------------------------------ MODULE Playlist ------------------------------
(***************************************************************************)
(* PlaylistManager: the rows, the current row, repeat, the shuffle order   *)
(* kept beside the rows, and the background loader that reads the tags of  *)
(* a directory's files while the user goes on editing.  Rows are numbered  *)
(* from 1; a row is its path.                                              *)
(***************************************************************************)
EXTENDS Integers, Sequences, FiniteSets, Functions

CONSTANTS
  Files,            \* paths and stream URLs of the program's user
  Disc,             \* the rows of the compact disc, in track order
  Directories,      \* what listing a directory yields, sorted
  Nothing,          \* no path
  MaxWork           \* bound: paths waiting for the loader

ASSUME PlaylistAssumption ==
  /\ Disc \in Seq(Range(Disc)) /\ Range(Disc) \cap Files = {}
  /\ \A i, j \in DOMAIN Disc : Disc[i] = Disc[j] => i = j
  /\ Directories \subseteq Seq(Files) /\ <<>> \notin Directories
  /\ Nothing \notin Files /\ Nothing \notin Range(Disc) /\ MaxWork \in Nat

VARIABLES
  entries, current,          \* entries_, current_
  shuffle, repeat,           \* shuffle_, repeat_
  order, pos,                \* shuffle_order_, shuffle_pos_
  work, done,                \* work_queue_, done_queue_
  loaderRunning, loader,     \* loader_running_; the thread: "none", "take", "tag", "quit"
  tagging,                   \* the path it is reading
  ui,                        \* "idle", or "start" in the middle of addDirectoryAsync
  sparkled, sparkleFresh     \* rows sparkle_winners_ was computed from; it counts as current

rows    == <<entries, current>>
shuffled == <<order, pos>>
modes   == <<shuffle, repeat>>
loading == <<work, done, loaderRunning, loader, tagging>>
cache   == <<sparkled, sparkleFresh>>
vars    == <<rows, shuffled, modes, loading, ui, cache>>

Paths == Files \cup Range(Disc)

\* The positions in K one after the other, and (the only member of the set) what s has there.
InOrder(K) == {f \in Bijection(1 .. Cardinality(K), K) : \A i, j \in DOMAIN f : i < j => f[i] < f[j]}
Among(s, K) == {[i \in DOMAIN f |-> s[f[i]]] : f \in InOrder(K)}

\* The rows that a restart and the closing of the disc keep.
FileRows == {i \in DOMAIN entries : entries[i] \in Files}

Init ==
  /\ entries = <<>> /\ current = 1
  /\ shuffle \in BOOLEAN /\ repeat \in {"off", "one", "all"}
  /\ order = <<>> /\ pos = 1
  /\ work = <<>> /\ done = <<>> /\ loaderRunning = FALSE /\ loader = "none" /\ tagging = Nothing
  /\ ui = "idle" /\ sparkled = {} /\ sparkleFresh = FALSE

-----------------------------------------------------------------------------
(* The rows. *)

\* rebuildShuffleOrder() on the new rows: a random order with the current row first,
\* or the rows' own order.
RebuildShuffleOrder ==
  LET n == Len(entries') IN
    IF shuffle' /\ n > 0
    THEN order' \in {f \in Bijection(1 .. n, 1 .. n) : f[1] = current'} /\ pos' = 1
    ELSE order' = [i \in 1 .. n |-> i] /\ pos' = current'

\* content_rev_ moves when the set of rows may have changed; winners of an older revision
\* are never looked at.
BumpRevision == sparkleFresh' = FALSE /\ sparkled' = {}

\* addTrack, addIndexedTrack, addStream: a path that has a row is not added again.
AddTrack == \E p \in Files \ Range(entries) :
  /\ ui = "idle"
  /\ entries' = Append(entries, p)
  /\ BumpRevision
  /\ UNCHANGED <<current, modes, loading, ui>>
  /\ RebuildShuffleOrder

\* removeAt: a row above the current one shifts it; the last row's removal clamps it.
RemoveAt == \E i \in DOMAIN entries :
  /\ ui = "idle"
  /\ entries' \in Among(entries, DOMAIN entries \ {i})
  /\ current' = IF current > i \/ (current > Len(entries') /\ entries' # <<>>)
                THEN current - 1 ELSE current
  /\ BumpRevision
  /\ UNCHANGED <<modes, loading, ui>>
  /\ RebuildShuffleOrder

\* purgeCDRows: removeIf on the rows of the disc.
PurgeCDRows ==
  /\ ui = "idle"
  /\ entries' \in Among(entries, FileRows)
  /\ LET kept == current - Cardinality((1 .. current - 1) \ FileRows)
     IN current' = IF kept > Len(entries') /\ entries' # <<>> THEN Len(entries') ELSE kept
  /\ IF entries' # entries THEN BumpRevision ELSE UNCHANGED cache
  /\ UNCHANGED <<modes, loading, ui>>
  /\ RebuildShuffleOrder

\* Opening a disc replaces the rows by its tracks.
OpenCD ==
  /\ ui = "idle"
  /\ entries' = Disc /\ current' = 1
  /\ BumpRevision
  /\ UNCHANGED <<modes, loading, ui>>
  /\ RebuildShuffleOrder

\* clear(): the shuffle position is left as it is.
Clear ==
  /\ ui = "idle"
  /\ entries' = <<>> /\ current' = 1 /\ order' = <<>>
  /\ BumpRevision
  /\ UNCHANGED <<pos, modes, loading, ui>>

\* The row the current one becomes when rows i and i + 1 change places.
Swapped(i) == CASE current = i -> i + 1 [] current = i + 1 -> i [] OTHER -> current

\* (wrong) the current number stays while its row moves.
SwapRows_CurrentStays(i) ==
  /\ entries' = [entries EXCEPT ![i] = entries[i + 1], ![i + 1] = entries[i]]
  /\ current' = current

SwapRows(i) ==
  /\ entries' = [entries EXCEPT ![i] = entries[i + 1], ![i + 1] = entries[i]]
  /\ current' = Swapped(i)

\* moveUp and moveDown.
Move == \E i \in DOMAIN entries :
  /\ ui = "idle" /\ i + 1 \in DOMAIN entries
  /\ SwapRows(i)
  /\ UNCHANGED <<modes, loading, ui, cache>>
  /\ RebuildShuffleOrder

\* sortBy: the rows in some order; the current row is found again by its path.
SortBy == \E f \in Bijection(DOMAIN entries, DOMAIN entries) :
  /\ ui = "idle" /\ entries # <<>>
  /\ entries' = [i \in DOMAIN entries |-> entries[f[i]]]
  /\ current' = CHOOSE i \in DOMAIN entries : entries'[i] = entries[current]
  /\ UNCHANGED <<modes, loading, ui, cache>>
  /\ RebuildShuffleOrder

ToggleShuffle ==
  /\ ui = "idle"
  /\ shuffle' = ~shuffle
  /\ UNCHANGED <<rows, repeat, loading, ui, cache>>
  /\ RebuildShuffleOrder

CycleRepeat ==
  /\ ui = "idle"
  /\ repeat' = CASE repeat = "off" -> "one" [] repeat = "one" -> "all" [] repeat = "all" -> "off"
  /\ UNCHANGED <<rows, shuffle, shuffled, loading, ui, cache>>

-----------------------------------------------------------------------------
(* Navigation. *)

\* The shuffle order is exhausted and starts over.
Wraps == shuffle /\ pos + 1 > Len(order) /\ repeat = "all"

\* peekNext(): the path after the current one, without moving.
PeekNext ==
  CASE entries = <<>>                       -> Nothing
    [] repeat = "one"                       -> entries[current]
    [] shuffle /\ pos + 1 <= Len(order)     -> entries[order[pos + 1]]
    [] Wraps                                -> entries[order[1]]
    [] ~shuffle /\ current < Len(entries)   -> entries[current + 1]
    [] ~shuffle /\ current = Len(entries) /\ repeat = "all" -> entries[1]
    [] OTHER                                -> Nothing

\* (wrong) the last row is followed by the first whatever the repeat mode.
NextTrack_AlwaysWraps ==
  /\ ui = "idle" /\ entries # <<>>
  /\ \/ /\ shuffle /\ pos + 1 <= Len(order)
        /\ pos' = pos + 1 /\ current' = order[pos'] /\ UNCHANGED order
     \/ /\ Wraps
        /\ UNCHANGED <<current, entries, shuffle>> /\ RebuildShuffleOrder
     \/ /\ ~shuffle
        /\ current' = (current % Len(entries)) + 1
        /\ UNCHANGED shuffled
  /\ UNCHANGED <<entries, modes, loading, ui, cache>>

\* next(): an exhausted order is rebuilt, with the current row first again.
NextTrack ==
  /\ ui = "idle" /\ entries # <<>>
  /\ \/ /\ shuffle /\ pos + 1 <= Len(order)
        /\ pos' = pos + 1 /\ current' = order[pos'] /\ UNCHANGED order
     \/ /\ Wraps
        /\ UNCHANGED <<current, entries, shuffle>> /\ RebuildShuffleOrder
     \/ /\ ~shuffle /\ (current < Len(entries) \/ repeat = "all")
        /\ current' = (current % Len(entries)) + 1
        /\ UNCHANGED shuffled
  /\ UNCHANGED <<entries, modes, loading, ui, cache>>

Previous ==
  /\ ui = "idle" /\ entries # <<>>
  /\ IF shuffle
     THEN /\ pos' = IF pos > 1 THEN pos - 1 ELSE pos
          /\ current' = order[pos']
     ELSE current' = (IF current > 1 THEN current - 1 ELSE current) /\ UNCHANGED pos
  /\ UNCHANGED <<entries, order, modes, loading, ui, cache>>

\* (wrong) the place in the shuffle order stays behind.
SelectAt_KeepsPos == \E i \in DOMAIN entries :
  /\ ui = "idle" /\ current' = i
  /\ UNCHANGED <<entries, shuffled, modes, loading, ui, cache>>

\* selectAt: play goes on from where the chosen row stands in the order.
SelectAt == \E i \in DOMAIN entries :
  /\ ui = "idle" /\ current' = i
  /\ IF shuffle THEN pos' \in DOMAIN order /\ order[pos'] = i ELSE UNCHANGED pos
  /\ UNCHANGED <<entries, order, modes, loading, ui, cache>>

-----------------------------------------------------------------------------
(* The background loader. *)

\* addDirectoryAsync(): the paths without a row are queued under the lock ...
AddDirectory == \E d \in Directories :
  /\ ui = "idle" /\ ui' = "start"
  /\ \E found \in Among(d, {i \in DOMAIN d : d[i] \notin Range(entries)}) :
       Len(work) + Len(done) + Len(found) <= MaxWork /\ work' = work \o found
  /\ UNCHANGED <<rows, shuffled, modes, done, loaderRunning, loader, tagging, cache>>

\* (wrong) a loader that has stopped but was not joined counts as running.
StartLoader_NoJoin ==
  /\ ui = "start" /\ ui' = "idle"
  /\ IF loaderRunning \/ loader # "none"
     THEN UNCHANGED <<loaderRunning, loader>>
     ELSE loaderRunning' = TRUE /\ loader' = "take"
  /\ UNCHANGED <<rows, shuffled, modes, work, done, tagging, cache>>

\* ... then a loader that has stopped is joined and started again.
StartLoader ==
  /\ ui = "start" /\ ui' = "idle"
  /\ IF loaderRunning
     THEN UNCHANGED <<loaderRunning, loader>>
     ELSE loader = "none" /\ loaderRunning' = TRUE /\ loader' = "take"
  /\ UNCHANGED <<rows, shuffled, modes, work, done, tagging, cache>>

\* loaderWorker: an empty queue clears the flag under the lock and ends the loop.
LoaderTake ==
  /\ loader = "take"
  /\ IF work = <<>>
     THEN loaderRunning' = FALSE /\ loader' = "quit" /\ UNCHANGED <<work, tagging>>
     ELSE /\ tagging' = Head(work) /\ work' = Tail(work) /\ loader' = "tag"
          /\ UNCHANGED loaderRunning
  /\ UNCHANGED <<rows, shuffled, modes, done, ui, cache>>

LoaderTag ==
  /\ loader = "tag" /\ loader' = "take"
  /\ done' = Append(done, tagging) /\ tagging' = Nothing
  /\ UNCHANGED <<rows, shuffled, modes, work, loaderRunning, ui, cache>>

LoaderExit ==
  /\ loader = "quit" /\ loader' = "none"
  /\ UNCHANGED <<rows, shuffled, modes, work, done, loaderRunning, tagging, ui, cache>>

Loader == LoaderTake \/ LoaderTag \/ LoaderExit

\* The loaded paths that have no row, each at its first place.
Fresh == {i \in DOMAIN done : done[i] \notin Range(entries) /\ \A j \in 1 .. i - 1 : done[j] # done[i]}

\* (wrong) the loaded rows leave the revision alone.
DrainPending_NoRevision ==
  /\ ui = "idle" /\ done # <<>>
  /\ done' = <<>>
  /\ entries' \in {entries \o added : added \in Among(done, Fresh)}
  /\ UNCHANGED <<current, modes, work, loaderRunning, loader, tagging, ui, cache>>
  /\ RebuildShuffleOrder

\* (wrong) loaded paths are not compared with the rows.
DrainPending_NoDedup ==
  /\ ui = "idle" /\ done # <<>>
  /\ done' = <<>>
  /\ entries' = entries \o done
  /\ BumpRevision
  /\ UNCHANGED <<current, modes, work, loaderRunning, loader, tagging, ui>>
  /\ RebuildShuffleOrder

\* drainPending(), on every tick: what was added in the meantime is not added again.
DrainPending ==
  /\ ui = "idle" /\ done # <<>>
  /\ done' = <<>>
  /\ entries' \in {entries \o added : added \in Among(done, Fresh)}
  /\ IF entries' # entries THEN BumpRevision ELSE UNCHANGED cache
  /\ UNCHANGED <<current, modes, work, loaderRunning, loader, tagging, ui>>
  /\ RebuildShuffleOrder

\* sparkleWinners(): recomputed when the rows' revision moved, but not kept during a load.
SparkleWinners ==
  /\ ui = "idle" /\ ~sparkleFresh
  /\ sparkled' = IF loaderRunning THEN {} ELSE Range(entries)
  /\ sparkleFresh' = ~loaderRunning
  /\ UNCHANGED <<rows, shuffled, modes, loading, ui>>

\* Quitting saves the files' rows and the current number; starting adds the rows, then
\* selects that number.  What the loader had not delivered is lost.
Restart ==
  /\ ui = "idle"
  /\ entries' \in Among(entries, FileRows)
  /\ current' = IF current <= Len(entries') THEN current ELSE 1
  /\ IF shuffle /\ entries' # <<>>
     THEN /\ order' \in {f \in Bijection(DOMAIN entries', DOMAIN entries') : f[1] = 1}
          /\ pos' \in DOMAIN order' /\ order'[pos'] = current'
     ELSE order' = [i \in DOMAIN entries' |-> i] /\ pos' = 1
  /\ work' = <<>> /\ done' = <<>> /\ loaderRunning' = FALSE /\ loader' = "none"
  /\ tagging' = Nothing
  /\ sparkled' = {} /\ sparkleFresh' = FALSE
  /\ UNCHANGED <<modes, ui>>

-----------------------------------------------------------------------------
Edit == AddTrack \/ RemoveAt \/ PurgeCDRows \/ Move \/ SortBy \/ ToggleShuffle \/ DrainPending

User ==
  \/ NextTrack \/ Previous \/ SelectAt
  \/ AddTrack \/ RemoveAt \/ PurgeCDRows \/ OpenCD \/ Clear \/ Move \/ SortBy
  \/ ToggleShuffle \/ CycleRepeat \/ AddDirectory
  \/ SparkleWinners \/ Restart

Next == User \/ StartLoader \/ DrainPending \/ Loader

Spec == Init /\ [][Next]_vars

\* The loader thread runs, and the call the user-interface thread is in goes on.
FairSpec == Spec /\ WF_vars(Loader) /\ WF_vars(StartLoader)

-----------------------------------------------------------------------------
(* Properties. *)

TypeOK ==
  /\ entries \in Seq(Paths) /\ current \in 1 .. Len(entries) + 1
  /\ entries # <<>> => current <= Len(entries)
  /\ {shuffle, loaderRunning, sparkleFresh} \subseteq BOOLEAN /\ repeat \in {"off", "one", "all"}
  /\ work \in Seq(Files) /\ done \in Seq(Files) /\ tagging \in Files \cup {Nothing}
  /\ loader \in {"none", "take", "tag", "quit"} /\ ui \in {"idle", "start"}
  /\ order \in Seq(Nat) /\ pos \in Nat \ {0} /\ sparkled \subseteq Paths

\* next(), previous() and peekNext() index the rows through the order unchecked: it
\* always names each row once, and under shuffle it stands at the current row.
OrderFollowsRows ==
  /\ order \in Bijection(DOMAIN entries, DOMAIN entries)
  /\ shuffle /\ entries # <<>> => pos \in DOMAIN order /\ order[pos] = current

\* No file has two rows, however adds, loads of overlapping directories and restarts
\* interleave.
NoDuplicateRows == \A i, j \in DOMAIN entries : entries[i] = entries[j] => i = j

\* The current row has another track after the step, although its track is still there.
CurrentMoves ==
  /\ entries # <<>> /\ entries[current] \in Range(entries')
  /\ entries'[current'] # entries[current]

\* An edit of the list never changes which track is the current one, unless it removes
\* it; and a restart of a list of files resumes at it.
EditsKeepCurrent ==
  [][ CurrentMoves => ~Edit /\ ~(Restart /\ Range(entries) \subseteq Files) ]_vars

\* The step lands on a row that is not the one peekNext() names.
LandsElsewhere == entries # <<>> /\ entries' = entries /\ entries[current'] # PeekNext

\* The track armed for the gapless switch (peekNext) is the one the index moves to when
\* the switch is accounted for (next); without one the index does not move.  Repeat-one never asks for the
\* next track; the end of the shuffle order is the exception SwapAdvances is about.
PeekIsNext == [][ LandsElsewhere /\ repeat # "one" /\ ~Wraps => ~NextTrack ]_vars

\* "The swap consumed the playlist successor: advance the index past it, as always."
SwapAdvances == [][ LandsElsewhere /\ repeat # "one" => ~NextTrack ]_vars

\* The most-played marks are never kept for a list whose rows have changed.
SparkleFollowsRows == sparkleFresh => sparkled = Range(entries)

WithLoader == Range(work) \cup {tagging}

\* A path queued for the loader comes out of it (or the program quits): no wakeup of the
\* loader is lost between its last look at the queue and its end.
LoadsArrive == \A p \in Files : (p \in WithLoader) ~> (p \in Range(done) \/ p \notin WithLoader)
=============================================================================
