# RE-MOCT in TLA+

RE-MOCT is a terminal music player in C++: local files with crossfade and
gapless playback, CDs, internet radio with recording, CD ripping, format
conversion, podcasts and a music library. This directory holds TLA+ models of
its concurrent core, TLC configurations that check them on small instances, and
TLAPS proofs of most of their safety properties. Paths below are relative to the repository
(`src/` is its implementation directory).

## 1. The system

### Threads

| thread | created by | does |
| --- | --- | --- |
| user interface (UI) | `main` | one loop: `pollEvents`, `reconcileNextArm`, `drainPending`, draw, one key |
| audio callback | miniaudio device | pulls samples from the current source, decides crossfade, gapless splice, track end |
| stream producer | stream plugin, one per open station | connects, decodes, fills the sample ring, reconnects |
| recorder worker | `StreamRecorder::start` | drains the capture ring into the open cut, rolls cuts at title changes |
| playlist loader | `addDirectoryAsync` | reads tags of the files of a directory |
| connect worker | `AudioManager::openStream` | opens a station without blocking the UI |
| CD reader, rip, convert, gain scan, library scan, lookups | their components | background jobs that end with a flag the UI polls |

### How components interact

* **Flags.** The callback never calls anything: it raises atomics
  (`track_swap_flag_`, `preload_next_flag_`, `track_ended_flag_`) that
  `pollEvents` takes on the next tick, where the callbacks of `main.cpp` account
  for what happened in the playlist and the play queue.
* **Quiesce.** `ma_device_stop` returns when no callback is running. It is the
  only way the UI thread excludes the callback; `state_mutex_` is never taken by
  the audio thread.
* **Rings.** Single producer, single consumer, with one index each: producer to
  callback (stream, CD), callback to recorder worker.
* **Queues under a mutex.** Work and results of the playlist loader; titles for
  the recorder.

### Components

For each: its state, its operations, what is hard about it, what makes it right.

* **Audio handoff** (`AudioManager.cpp`): current, armed and retired sources,
  `crossfading_`, event flags; `play`, `preloadNext`, `clearNext`, `stop`,
  `pause`, `setDevice`, `pollEvents`, `positionSec`, and the callback. Hard: the
  swap happens on the audio thread while the UI thread frees, opens and reads
  sources. Right when nobody reads a source that was freed, nothing is freed on
  the audio thread, and the title shown is the track heard.
* **Gapless advance** (`NextArm.h`, `UIManager.cpp`, `main.cpp`): what is armed,
  what failed to open, the playlist row, the play queue. Hard: a swap and a
  track end are accounted for one tick after they happened, and keys come in
  between. Right when a swap is counted once, a stopped player stays silent, and
  what plays next gets armed.
* **Stream source** (`plugins/stream/StreamSource.cpp`): ring, indices,
  `prebuffered_`, the connection, the decoder; open, close, freeze, two workers,
  reconnect, re-pin. Hard: lock-free flush, waiting in both directions, failing
  networks. Right when the listener hears each sample once and in order, nothing
  from before a break runs into live audio, and `close` always returns.
* **Stream recorder** (`StreamRecorder.cpp`): capture ring, open cut, held split,
  titles; start, stop, push, onTitle, the worker. Hard: splits in the middle of a
  chunk, failures during a split. Right when every frame is in one cut and a cut
  keeps its title.
* **Playlist** (`PlaylistManager.cpp`): rows, current row, shuffle order, loader.
  Hard: three arrays of indices must stay in step over every edit, while a
  thread produces rows. Right when the order is a permutation that stands at the
  current row, no file is twice in the list, and no edit changes the current
  track.
* **Stream connection** (`AudioManager.cpp`): connect worker, generation, pending
  station, result latch. Hard: a stop, a file, a disc or another station during a
  connect. Right when what plays is the request in force, one source owns the
  device, and a station asked for is heard or its failure shown.
* **CD playback** (`CDSource.cpp`): reader thread, ring, track change, eject.
  Hard: end of reading is not end of audio; flushes under a running callback;
  the drive is lent to the ripper. Right when sectors are heard in order, a track
  gives way to its successor and a disc taken out is unloaded.
* **Copy recording** (`StreamSource.cpp` tee, `StreamRecorder.cpp` copy loop):
  an overwriting ring, a reader that finds frames in bytes. Hard: being lapped
  while copying. Right when only whole frames are written, in order, once, and a
  stop saves what had arrived.
* **Library** (`LibraryScanner.cpp`, `LibraryIndex.h`, `UIManager.cpp`): scan
  thread, cancel, commit, folders, tag edits. Hard: a partial walk must not
  replace a complete index; files change under the walk. Right when no record is
  lost that should stay and none with old tags passes for current.
* **CD ripper** (`CDRipper.cpp`): passes over a track, probes, replacement,
  results, tags, lists, cancel. Hard: several passes write files of their own and
  any may fail. Right when the records are of the audio in the files, success
  means a complete rip, and nothing half-done stays.
* **Convert and gain jobs**: one worker each, cancelled and joined.
* **iHeart client**: now-playing state machine, HTTP.
* **Plugin host**: forwarding over a C ABI.
* **User interface**: panes, overlays, keys; only the keys that drive playback,
  queue and playlist matter to the modules here.
* **Scrobbling, presence, lookups, art, podcasts, directory**: network clients
  whose results come back through a flag and a mutex.
* **Decoders, encoders, containers**: sequential byte processing.
* **Configuration, entry, platform layer, vendored libraries.**

`PROJECT.json` lists them with their files and status, and lists the hazards of
the code at their lines.

## 2. The modules

| module | models | proved in |
| --- | --- | --- |
| `AudioHandoff` | local-file playback of `AudioManager`, under any client | `GaplessAdvanceProofs` |
| `GaplessAdvance` | extends `AudioHandoff` with its real client: run loop, callbacks, reconcile, keys | `GaplessAdvanceProofs` |
| `StreamRing` | stream producer, ring, callback, UI operations | `StreamProofs` |
| `AudioFeed` | what a radio source promises its listener; `StreamRing` implements it | `StreamProofs` |
| `StreamRecorder` | PCM capture: ring, worker, splits, failures | `StreamProofs` |
| `Playlist` | rows, current row, shuffle order, loader, saving and restoring | `PlaylistProofs` |
| `SourceSwitch` | who owns the device: file, disc or station, with the background connect | `SourceSwitchProofs` |
| `CDPlayback` | reader, ring, callback, advance, eject, hand-over to the ripper | `CDPlaybackProofs` |
| `CopyTee` | the encoded tee of the producer with the copy loop of the recorder | `CopyTeeProofs` |
| `LibraryScan` | scan worker, index file, folders, cancel, tag edits, restart | `LibraryScanProofs` |
| `DiscRip` | the rip worker: every pass over a track, results, tags, lists, cancel | `DiscRipProofs` |

`MCAudioHandoff`, `MCGaplessAdvance`, `MCPlaylist` and `MCLibraryScan` give constants their values
for TLC. Definitions whose comment starts with *(wrong)* belong to no
specification: each is a plausible bug in the definition that follows it, and
shows that a property notices that bug.

### AudioHandoff

Variables carry the code's names without the trailing underscore
(`file` is `file_src_`, `next` is `next_src_`, `armed` is
`next_decoder_initialised_`). A source is a record of its file and a number, so
that two objects on the same file differ. `ui` and `cb` are the program counters
of the two threads with what they hold in local variables: in `ui`, the pointer
`positionSec` is about to follow.

An operation of the UI thread is one step where the device is stopped and one
step per access to shared state where it is not; the callback always is one step
per access. `teardownNext` is therefore five steps (drain the pending swap,
unpublish, test for a fade, quiesce, free), and the swap on the audio thread
(`initCrossfade`) is five: enter, retire, take, unpublish, flag. `positionSec` is three:
it tests `file_src_`, loads it again, and calls through what it loaded.

Abstracted: steps are sequentially consistent (the code uses release/acquire
pairs on the flags, and default ordering elsewhere); `next_path_` is a string
both threads touch, whose tearing is not modelled; a seek moves the position of
a source and leaves the handoff alone, and is left out; equaliser, replay gain, varispeed
and visualiser keep no shared source. CD and stream branches of the operations
belong to other modules.

### GaplessAdvance

Takes the callback and the operations of `AudioHandoff` and replaces "any client"
by the run loop: `pollEvents` with `on_track_end`, `on_preload` and
`on_track_end_advanced`, then `reconcileNextArm`, then one key. `AccountSwap` is
the accounting `main.cpp` repeats in its callbacks. The playlist is a fixed list
without shuffle; repeat is off or one.

`OutlastsTick` says whether every track sounds for longer than a pass of the run
loop, which waits at most 80 ms for a key (`timeout(80)`). With it `FALSE` the model also
contains two swaps between two polls; the runs below assume `TRUE`, and
`NoFreeInCallback` needs it. `ReadsThrow` lets a decoder's read throw, which the
callback turns into a track end; the decoders report errors as short reads, so
the runs say `FALSE`.

### StreamRing and AudioFeed

A slot of the ring is what one `ringWrite` puts there. Samples are numbered in
the order they are published. The producer's places (`ppc`) follow
`producerWorker` and the HLS worker: the pass over the decoder, backpressure,
backing off, reconnect, flush, re-pin. The callback loads both indices, loads the
read index again, copies, and stores it: three steps, because `ringFlush` stores
the read index from the other side. "Frozen" is `paused_` without a recording in
progress. The network is nondeterministic: every connect may fail, every read may
end or give fewer frames. What a decoder gives after it was freed (which a failed
reconnect leads to, section 4) is undefined in C and is either outcome here, frames or
none; `FreedReads` admits the frames, which no specification of the
listener can hold with. `FlushMeetsCallback` lets a flush fall inside a callback, as
the code does in a reconnect and in a re-pin.

`AudioFeed` is the abstract specification: samples accepted, heard in order, each
at most once, and after a break everything that waits is either heard before the
first new sample is accepted or dropped. `StreamRing` maps `fed`, `next` and
`broken` to its counters (`Feed` in the module). A flush that falls under a copy
breaks that mapping: the callback stores an index of the old ring. `InStep` says what
it takes for the ring to be in step with the feed, and `FeedKept` that nothing else
takes it out of step, and that it is in step again whenever the ring is empty with
nothing being copied.

### StreamRecorder

Frames are counted, not stored: a cut is a run of consecutive numbers. The worker
goes once round `pcmLoop` per pass: adopt a title for an empty cut, arm a held
split, drain a snapshot of the ring chunk by chunk with the split point inside a
chunk where it falls there, roll without an offset, look at `stop_req_` when the
ring is empty. Any write, open or finalize may fail. `onTitle` is two steps: the
title under the mutex, the flag after it. Naming, tagging, art and the copy mode
(encoded frames) are left out. `start` requires that no push is in progress.

### Playlist

A row is its path; numbers count from 1 (the code counts from 0). The shuffle
order is a sequence of row numbers beside the rows, as in the code, and a random
order is any permutation. `SortBy` is any permutation of the rows: which column
is compared does not matter to what follows. What a removal, a restart or the
loader's delivery keeps is `Among`: the elements at given positions, in order. `addDirectoryAsync` is two steps
(queue the paths, then look whether the loader runs), and the loader takes its
last look and clears its flag under one lock. `Restart` is quitting and starting
again: file rows and the current number are saved, CD rows are not. Not modelled:
play counts, saved playlists, tag contents, file formats.

### SourceSwitch

`cdMode`, `streamMode` and `file` are the three possible owners of the device,
`session` the station the plugin has open. The worker opens, reports and ends in
three steps; every operation of the UI thread is one, as it shares with the worker
only the atomics the model keeps. `pollStreamConnect` takes the result: a superseded
one is closed, a pending station is started. `want` is history: the last thing
asked for and not refused. A station still being connected is not withdrawn by
`stop`, because `stop` does not move the generation (section 4);
`LastRequestHeard` says what follows: the sound is the request in force or a
connect that is still awaited. `BrowseMeetsConnect` lets a disc be opened from
the drive list in the middle of a connect.

### CDPlayback

A slot of the ring is one read of the drive and holds its position in the track,
or `Stale` after a flush. The reader waits for room, reads, retries, and flags the end
when it has read the last sector. When it gives up, after `MaxErrors` or without a disc,
it takes four steps: load the read index, store it into the write index, clear the
current track, report. The callback is three loads (`ringRead` loads the read index
twice), a copy and a store; the UI operations are steps where they wait for the
reader's thread, flush the ring, one index at a time, or touch what the callback
touches. A flush may come at any moment of a callback.

`odd` and `straddled` are history: how many reads since the last flush were not the one
that should be heard next, and whether a read of the ring overlapped that flush.
`SoundInOrder` bounds the first by the second.

`onWindows` says which build it is and never changes; `Builds` are those looked at. The
code that knows a row of a disc at the end of a track (`main.cpp:343` and `420`) is compiled for Windows only; the other builds play discs
too, take the row for a file, and thereby close the disc. What the file player then
does with that row (it fails to open it) is left out, as are the queue and shuffle, which
are in the modules above.

### CopyTee

Parts are numbered as the station sends them; a frame is two parts, so half a
frame, a torn frame and a frame across a gap can be told from a whole one. The
producer copies first and publishes after, as `teeWrite` does; a pull takes
`tee_discont_`, loads the write index, skips what was lapped, copies, and tests the
index again. The unpublished burst is in the ring before the index moves, so it may reach
into the bytes a pull is copying: of each of these the pull gets what the burst
writes or what it writes over (`was`). Such a pull is `torn`, and `spoilt` counts the
parts in the parse buffer up to the last of one; both are history. `filed` is the history
of the frames written that have no byte of a torn pull; the others are written as well
and open, count and split like them. A
reconnect skips numbers and raises the discontinuity. A frame spliced over that
gap is allowed (`jumps`), since the flag has no position in the bytes; two
reconnects with nothing received between them are one gap to the bytes, and count
as such there.

### LibraryScan

A file is the number of times it was written. What the code compares is the file's time
in whole seconds and its size (`port::statFile`), which a write may leave as they were:
`key` is the first version that has the present ones, and `Written` keeps or renews
it. A record has the key its file had when it was examined and the version its tags are
of. The walk is one step per entry, with the look
at the time and the reading of the tags apart; files are written and deleted by
other programs in between. A folder is readable or not each time it is
looked at. The index is written to a temporary file and renamed, either of
which may fail. `Restart` may come anywhere. Three constants admit what section 4
describes: `DiskErrs` (the iterator or the look at a file fails),
`RemovesUnloaded` (a folder is removed before the index was loaded),
`RemovalUnsaved` (the save of that removal fails). Folders do not overlap,
which `addLibraryRoot` sees to; power loss is not modelled (nothing is synced).

### DiscRip

A pass over a track yields a take: good, with silence filled in, or all silent, at
a pressing offset; a file is a take, a part of one, empty or not there. `ripTrack` is
open, blocks, flush and return for each of its five callers, which differ in the
suffix of the files and in what follows. The database knows one pressing of the
disc, knows none, or does not answer; a take matches if it is good and at that
offset. Removing and renaming are separate steps per file, so every state is
also what a crash would leave. `Fault` stands for failed reads, opens, writes and
closes. `PickerGuards` says that the user interface refuses what `start` refuses;
`RenameFails` lets a rename fail. Checksums, offset arithmetic, the CTDB query and
the logs are left out; a track of silence (`Silent`) has the zero checksum. The tags of a
file, the cue sheet and the playlist may fail to be written, which the code passes over;
`skipped` is the history of that. Removing a file always succeeds: where the file system
refuses, most calls ignore it, but the one of a pass given up (`fs::remove` at
`CDRipper.cpp:1462`) has no error code and would throw through the worker.

## 3. What the runs show

| run | question | distinct states |
| --- | --- | --- |
| `handoff_any_client` | Whatever the client calls and when: does anyone read a freed current source? | 1 852 196 |
| `advance_transport` | Three rows, start, Enter, next, pause, stop: are swaps counted, titles right, arms restored? | 16 194 |
| `advance_every_key` | One row, every key and the queue: does a stopped or paused player stay silent? | 2 476 990 |
| `ring_feeds_audio` | Does the ring implement the feed, and does nobody wait for good? | 805 924 |
| `recorder_cuts` | Is every frame in one cut, and does recording always end when it must? | 206 006 |
| `playlist_edits` | Do order, current row, marks and loader survive every edit? | 179 688 |
| `source_switch` | Whatever is chosen during a connect, is it what plays in the end? | 74 235 |
| `cd_playback` | Both builds: is a disc heard in order, does a track give way to the next, is an eject noticed, and no late end acted on? | 590 115 |
| `copy_cuts` | Does a copy recording write only whole frames but for torn pulls, and keep its tail? | 4 659 755 |
| `library_scans` | Does any scan, cancel, edit or restart lose or falsify a record? | 1 562 209 |
| `rip_passes` | Whatever fails and whenever it is cancelled, do files and records agree? | 3 296 240 |

`queue_frees_splice_source` finds a comment contradicted: `NextSrcLive` is violated once the
queue keys are pressed. The splice tests the armed flag once; its read may be in flight when the flag
goes down, and `teardownNext` waits for the callback only during a fade. `PROJECT.json` quotes the
lines under "findings". Section 4 lists the other claims of comments and documents that
the models contradict, each with the property and the constants that show it.

### The properties

*AudioHandoff.* `FileSrcLive`: the callback never reads a current source that has
been freed. `PositionReaderLive`: a source `positionSec` has got hold of is not freed under it, however a
swap interleaves; `PositionInv` is the reason (section 5). That it gets hold of one
at all is `PositionNeverNull`, which does not hold.

*GaplessAdvance.* `NextSrcLive`: the armed source lives as long as the callback
reads it. `TitleMatchesAudio`: at rest the title is the track heard.
`NoFreeInCallback`: a swap never finds `retired_src_` occupied.
`EndNeedsPlayback`: a track end raised before a stop does not start the next
track. `NoRestartOfSplicedTrack`: the track-end callback never starts from zero
a track that a splice made audible. `ArmConverges`: if what plays next stays the
same, it gets armed or has been refused. `SilentUnlessPlaying`: the device runs
only while the player says it plays. In `advance_transport` the first two hold:
keys that leave the queue alone do not reach the races that
`queue_frees_splice_source` and section 4 show.

*StreamRing.* `FeedRefined`, `BackpressureClears` (a full ring is drained),
`CloseReturns`, `LostStationGivenUp` (a station that answers every reconnect and
sends nothing is given up). All four are checked with flushes kept out of callbacks; with
flushes anywhere only `CloseReturns` still holds, `FeedKept` says what is left of the first (section
5), and section 4 what becomes of the others.

*StreamRecorder.* `UnreadFits`, `FramesConserved`, `NoRelabel`, `RecordingEnds` (a
stop or a failure ends it), `SplitActs`.

*Playlist.* `OrderFollowsRows`, `NoDuplicateRows`, `EditsKeepCurrent`, `PeekIsNext`,
`SparkleFollowsRows` (most-played marks are not kept for another list),
`LoadsArrive` (no wakeup of the loader is lost).

*SourceSwitch.* `LastRequestHeard`, `OneSource`, `OpenUndisturbed` (nobody closes the
plugin under the worker), `StationAnswered`.

*CDPlayback.* `SoundInOrder`: what is heard is in order if no read of the ring overlapped
the last flush, and but for two rounds of the ring if one did. `EndNeedsDisc` (no late
end restarts playback), `TrackAdvances` (the successor is started, which under repeat one
is the track itself), `EjectNoticed`; the last two speak of discs on which something follows,
as the code polls for an eject only there.

*CopyTee.* `FramesWhole`: a torn pull spoils the frames that have bytes of it, and every other
frame is whole, in order and written once. `TailKept`.

*LibraryScan.* `RecordsKept`: no step takes the record of a file from the saved index
while the file and its folder stay. `RecordsFresh`: a record the next scan would
take over has tags the file has had since it got its present time and size; so no write
is missed but one that leaves both as they were.

*DiscRip.* `RecordsOfTheFile`, `DoneIsComplete` (success, in a mode with checksums,
means every file is there and whole, and the album figure is over the album; tags and lists
lack nothing but those whose own write failed), `NothingHalfDone`, `FirstPassSafe` (what the first pass read exists in every
state of the second).

Each module also has a `TypeOK`, or types its variables by their use; those of the
first six modules hold in the runs above and are not listed again, except where they
are proved (section 5).

### Bounds, and why they are enough

* `AudioHandoff`: two files tell "same file" from "another file"; at most five
  sources exist at a time (current, armed, retired, held by `positionSec`, being
  opened), so five numbers per file never run out and freed numbers come back.
  Permuting the files is a symmetry; no liveness is checked there.
* `GaplessAdvance`: three rows have a first, an inner and a last row; with two
  a swap counted twice would stop at the end of the list and go unnoticed. A queue of
  one has an empty and a non-empty state, which is all the accounting tells
  apart. The run with every key uses one row to stay small: its property is
  about device and state, not about rows. Four numbers suffice without a
  position reader.
* `StreamRing`: four slots are the fewest with the code's proportions (wait above
  a half, play above a quarter, room for a burst above the half). A callback asks
  for two, so that reads are short and full. Five samples wrap the ring. One
  reconnect before giving up stands for ten: the loop is the same. `MaxLag` 1
  lets one write fall inside a callback; more than half a ring (seconds of audio)
  inside one callback is excluded (section 4).
* `StreamRecorder`: blocks of up to two, chunks of three and a ring of four are
  chosen so that blocks straddle chunks, the offset of two falls inside a chunk
  and at its end, and the ring fills. Six frames leave room for several cuts.
* `Playlist`: two files and one disc track give lists of up to three rows, two
  directories of which one contains the other overlap, and two waiting paths let
  a directory be queued while the loader holds another.
* `SourceSwitch`: two stations and two files tell "the same" from "another"; six
  requests allow a connect, a station pending behind it and four things after.
* `CDPlayback`: a hidden track and one numbered track have a first, a successor and a
  last; two chunks of a track and, after it, of the next wrap a ring of three slots; one key and
  one move of the tray at any moment, in either build. Two errors stand for ten. Repeat is
  off; the other modes differ in what follows the last track or any track, and the two safety
  properties are proved for every mode.
* `CopyTee`: a ring of four parts under bursts of two is lapped in the middle of
  a frame and at its end; a pull takes half of it; eight parts wrap twice; two
  reconnects come apart or with nothing between them.
* `LibraryScan`: two folders with one file each (a scan of one and of both, an
  unreadable one beside a readable one), one write, two scans, one restart.
* `DiscRip`: two tracks (the one that is probed and one that inherits its offset)
  and the hidden one, two formats of which one takes tags, one candidate offset beside 0, two
  blocks so that a take is good, filled or silent, two faults, two rips over the
  same files.

Deadlock is checked in every passing run but `copy_cuts`, `library_scans` and
`rip_passes`, which stop when their bounds are used up and the user does nothing.

### Fairness

* `GaplessAdvance`: a callback that began goes on (weak), the UI thread goes on
  with the operation it is in and the run loop comes round (strong).
  `ma_device_stop` waits until no callback runs and then holds off the next; in
  the model a callback may always start again, so "the wait ends" needs strong
  fairness. The loop reads one key per pass, so keys do not keep it from
  polling.
* `StreamRing`: weak fairness of the producer thread, of the callback while the
  device runs, and of the join in `close`. Nothing is assumed of the network.
* `StreamRecorder`: weak fairness of the worker, of a push that began, and of the
  UI thread inside `onTitle` and `stop`. No audio and no titles are assumed.
* `Playlist`: weak fairness of the loader thread and of the rest of
  `addDirectoryAsync`. No key and no tick is assumed.
* `SourceSwitch`: weak fairness of the connect worker (every open has a time
  limit) and of the loop's poll. No request is assumed.
* `CDPlayback`: weak fairness of the reader, the callback while the device runs, and
  the UI loop, which polls whatever the user does.
* `CopyTee`, `LibraryScan` and `DiscRip` are checked for safety only. (`DiscRip`
  also states `RipEnds`, which holds under weak fairness of the worker.)

## 4. Where the code and its comments part

### Claims of comments that the models contradict

The first row is a run of the project. The others can be seen by running the module with the constants
given, those not named as in the passing run of that module (`advance_transport` for
`MCGaplessAdvance`), with the property as the only one and under `Spec` or `AdvSpec`; under
`FairSpec` where it is marked so.

| property, module | constants | the claim | what happens |
| --- | --- | --- | --- |
| `NextSrcLive`, `MCGaplessAdvance` | run `queue_frees_splice_source` | freeing is "safe when the flag is false" (`AudioManager.cpp:186`) | section 3 |
| `PositionNeverNull`, `MCAudioHandoff` | as the run | `positionSec` "can only ever dereference a live decoder" (`AudioManager.cpp:484`, `618`) | line 621 tests `file_src_` and loads it again to call through it; a swap leaves it null for a moment between its lines 490 and 491, and the call goes through a null pointer. A build that merges the two loads of `file_src_`, which are not atomic, does not show it |
| `NothingOldHeard`, `CDPlayback` | `LastTrack = 0`, `Builds = {TRUE}`, and `Keys = {"play"}` or `{"seek"}` with `MaxErrors = 10`, `MaxTrayMoves = 0`, or `Keys = {}` | "Now safe to reset everything" (`CDSource.cpp:186`), "output silence during seek" (`289`), "callback outputs silence immediately" (`249`) | a callback in the middle of a read stores its index of the old ring over the flush, or finds one index moved and not the other: up to two rounds of the ring are heard out of order |
| `RepeatRestarts`, `CDPlayback` | `Builds = {FALSE}`, `Repeats = {"one"}`, `Keys = {}` | "play_path routes CD rows through parseCDPath/playCDTrack itself" (`main.cpp:402`) | that part of it is compiled for Windows only: elsewhere the end of a track closes the disc, repeat or not, although discs are played there (`docs/phase3-slice6-design.md:163`) |
| `PullsInOrder`, `CopyTee` | as the run | "instead of emitting garbage" (`StreamSource.cpp:1585`) | the producer overwrites before it publishes: a copy made meanwhile is torn and passes the test |
| `EditLooksStale`, `MCLibraryScan` | as the run | an edited record "now looks stale to the scanner" (`UIManager.cpp:4902`) | tags written into the padding of a file within the second of its last write leave the time in whole seconds and the size as they were (`PortUtil.h:101`): every later scan takes the record with the old tags for unchanged |
| `VerdictInEveryTag`, `DiscRip` | `Modes = {"CUETools"}` | the verdict is "written into every track's tags" (`README.md:93`) | `tagFile` returns nothing and its callers go on (`CDRipper.cpp:2394`, `2503`): a file whose tags could not be written has no verdict, and the rip reports success; so with a cue sheet and a playlist that cannot be opened (`2535`, `2614`) |
| `TitleMatchesAudio`, `MCGaplessAdvance` | `Keys = {"start", "queue"}` | draining first installs the track that swapped in (`AudioManager.cpp:143`) | a swap past its test raises its flag after the drain; its title then belongs to another track |
| `RowMatchesAudio`, `MCGaplessAdvance` | `Keys = {"start", "enter"}` | a completed swap advances the row past the successor (`main.cpp:292`) | `play` does not clear `preload_next_flag_`: a fade completed before Enter is counted against the new row |
| `SwapAdvances`, `MCPlaylist` | `Disc <- NoDisc`, `MaxWork = 0` | the swap consumed the successor, advance past it (`main.cpp:292`) | where shuffle starts over, `next` returns the row that just played, `peekNext` another one |
| `BackpressureClears`, `LostStationGivenUp`, `StreamRing` (`FairSpec`) | `Codecs = {"AAC"}`, `FlushMeetsCallback = TRUE`, `Total = 4` | `ringFlush` "avoids the full-ring / not-prebuffered deadlock that silenced playback" (`StreamSource.cpp:1994`) | the re-pin flushes while a callback is inside `ringRead`, which then stores its old index: the read index is ahead of the write index, the ring counts as all but full with `prebuffered_` down, the producer waits for room (`1830`) and the callback for the producer, for good |
| `NoReplay`, `StreamRing` | `Codecs = {"AAC"}`, `FlushMeetsCallback = TRUE`, `Total = 4` | `ringFlush` is safe as the consumer is gated off (`StreamSource.cpp:1991`) | the reconnect leaves the gate open and the re-pin does not wait for a callback in progress: old audio plays again |
| `DecoderLive`, `StreamRing` | `Codecs = {"MP3"}`, `Total = 2` | "keep retrying until cap" (`StreamSource.cpp:1769`) | the loop reads from the decoder it has just uninitialised |
| `OneSource`, `SourceSwitch` | `BrowseMeetsConnect = TRUE`, `MaxKeys = 2`, `Keys = {"station", "browse"}` | `beginStream` tears CD mode down before it starts (`AudioManager.cpp:1511`) | a disc opened during a connect is not torn down: both modes are on and the device is initialised twice |
| `RipOwnsDrive`, `CDPlayback` | `Keys = {"rip"}`, `MaxTrayMoves = 0`, `Builds = {TRUE}` | the ripper owns the drive (`UIManager.cpp:1480`) | `stopReader` lowers `playing_` while `current_track_` still names the track (`CDSource.h:131`); the callback takes that for the end of the track and the poll starts the next one beside the rip |
| `RecordsKept`, `MCLibraryScan` | `RemovesUnloaded = TRUE`, `MaxWrites = 0`, `MaxScans = 1` | only the removed folder's records leave (`UIManager.cpp:11302`) | until [Library] was opened the index in memory is empty; saving it loses the records of all other folders, and no scan follows |
| `RecordsKept`, `MCLibraryScan` | `DiskErrs = TRUE` | "SKIPPED, NOT EMPTY" (`LibraryScanner.cpp:216`) | an error of the iterator ends the walk of that folder like its normal end (`LibraryScanner.cpp:250`): the files not met leave the index |
| `EditsStay`, `MCLibraryScan` | as the run | edits go into the library's copy so that it does not show old values (`UIManager.cpp:4898`) | entering [Library] reads the file again, which has the old tags |
| `RipEnds`, `DiscRip` (`FairSpec`) | `PickerGuards = FALSE` | refusing in `start` makes the combination unexecutable (`CDRipper.cpp`, CD-S2) | it is refused after `active_` was set: the ripper stays busy until it is cancelled |
| `OneOffset`, `DiscRip` | as the run | the detected offset is used for all tracks (`CDRipper.cpp`, pressing offset) | if the second pass of track 1 does not match, its file stays at offset 0 and the rest of the disc is at the other |
| `RecordsOfTheFile`, `DiscRip` | `RenameFails = TRUE` | "atomically replace" (`CDRipper.cpp:2152`) | the old file is removed first and errors are ignored: the track is left in the temporary file only |

The ripper's comments are contradicted in four more places, which the properties of
`DiscRip` leave room for:

* after a read error the cue sheet and the playlist list tracks that were removed or
  never ripped ("must reference files that exist", `CDRipper.cpp:2509`), and the album
  gain of a whole-disc rip is over what was ripped until then;
* a hidden track that failed counts as written and is listed ("never names a file
  that is not there", `CDRipper.cpp:2585`);
* the local modes do not notice a failed track, as the zero-checksum test excludes them,
  although the comment on a failed close counts on it (`CDRipper.cpp:1432`): a rip of
  nothing is reported complete. `DoneIsComplete` is therefore about the other modes;
* the second reading of LocalVerify is compared by checksums that mode does not
  compute, so it always agrees (`CDRipper.cpp:2182`).

And in the Windows build the end of a CD with repeat off is not acted on: `main.cpp:433`
returns without stopping, the flag is raised again by every callback, and the stop
described at `main.cpp:440` does not happen.

### Behaviour no comment speaks of

Present in the models, or excluded there by a named constant:

* `setDevice` reopens `current_track_.path` although a completed swap may be
  pending, so a device change can go back to the track that has ended. In live
  stream mode, when it fails, the state stays Playing without a device.
* A callback between the store of `crossfading_ = false` in `play` and the device stop can set
  it again; the reconcile then does nothing for the whole next track.
* A fade that completes between the two halves of a poll is accounted for
  before its title is installed.
* `onTitle` raises its flag after releasing the mutex: the worker may have adopted
  the title already and then cuts the same song twice.
* A held split counts the frames already waiting in the ring, so it falls earlier
  than the offset by the backlog. An immediate split is looked for after the whole
  snapshot is drained, so it falls at the end of a snapshot and not where the
  title arrived.
* A push between the worker's empty check and its look at `stop_req_` is not
  written; nor are bytes that reach the tee between a dry pull and the look at the
  stop. A last pull that is lapped returns nothing, and the stop then leaves a full
  tee unread.
* A discontinuity of the tee is taken with bytes from before it still unread, so
  one frame can be spliced across it.
* More than half a ring written inside one callback leaves the ring full and not
  prebuffered (`StreamSource.cpp:1947`); `MaxLag` excludes it.
* `open` does not reset the re-pin request of the last session.
* `stop` and `openCD` do not move the connect generation: a station whose connect ends
  after a stop starts to play. A file started during a connect with a second station
  pending is torn down by that station, and the "Streaming" toast is shown for
  the first one.
* A CD track is over when it has been read, up to half a ring (about 1.5 s) before it
  has been heard (`CDSource.cpp:230`). A seek after that point leaves `playing_` down.
  The callback can raise the end a second time between the poll and `playTrack`, and a
  track is skipped. Next, previous and Enter are not refused during a rip.
* An empty but readable mount point counts as a folder without files. A failed save
  of the index is not reported (`RemovalUnsaved = TRUE` breaks `RecordsKept`: the file
  keeps an index for other folders than the configured ones). Removing the last folder brings the default one back
  without a scan.
* A rip over the files of an earlier one destroys them when it is cancelled. A track
  of silence ends the rip as a read error. A disc taken out is ripped as silence
  and noticed by the checksum only.
* With shuffle, a restart leaves the rows before the current one out of that
  round.
* The saved current number counts CD rows that are not saved, so a session with
  a disc can resume at another row, although `main.cpp:495` says it starts from
  the beginning.
* The destructor of the playlist clears `loader_running_`, which the loader never
  reads: quitting waits for the whole queue of tags.

## 5. What is proved

Most safety properties of the passing runs are theorems, each for every value of the
constants that satisfies the
named assumptions of its module. The assumptions say that sizes are naturals and
buffers not empty, that null values are no tracks, sources, stations or files,
that a list has no row twice, and which keys exist; `CDAssumption` asks for a
ring of three reads or more, as half of it has to leave a slot free.

| module | theorem | property | hypotheses |
| --- | --- | --- | --- |
| `GaplessAdvanceProofs` | `TypeCorrect`, `FileSrcNeverFreed`, `PositionReaderSafe` | `TypeOK`, `FileSrcLive`, `PositionReaderLive` (any client) | |
| | `SilenceKept` | `SilentUnlessPlaying` | |
| | `NoEndAfterStop` | `EndNeedsPlayback` | no change of device |
| | `FreedByTheUi` | `NoFreeInCallback` | `Transport` |
| | `SplicedOncePlayed` | `NoRestartOfSplicedTrack` | `Transport`, `~ReadsThrow` |
| `StreamProofs` | `OnlyFlushesUnderCopy` | `FeedKept` | |
| | `RingNeverOverfilled`, `EveryFrameFiled`, `CutKeepsTitle` | `UnreadFits`, `FramesConserved`, `NoRelabel` | |
| `PlaylistProofs` | `OneRowPerFile`, `OrderFits`, `MarksFollowRows` | `NoDuplicateRows`, `OrderFollowsRows`, `SparkleFollowsRows` | |
| | `ArmedIsNext`, `CurrentTrackKept` | `PeekIsNext`, `EditsKeepCurrent` | |
| `SourceSwitchProofs` | `WorkerHasThePlugin` | `OpenUndisturbed` | |
| | `OneSourceAtATime`, `NewestRequestHeard` | `OneSource`, `LastRequestHeard` | `~BrowseMeetsConnect` |
| `CDPlaybackProofs` | `NoLateEnd`, `OldSoundIsBounded` | `EndNeedsDisc`, `SoundInOrder` | |
| `CopyTeeProofs` | `TornPullStaysLocal`, `StopDrains` | `FramesWhole`, `TailKept` | |
| `LibraryScanProofs` | `UnchangedMeansFresh` | `RecordsFresh` | |
| | `RecordsNeverLost` | `RecordsKept` | `~DiskErrs`, `~RemovesUnloaded`, `~RemovalUnsaved` |
| `DiscRipProofs` | `RipSurvives` | `FirstPassSafe` | |
| | `RecordsAreTrue`, `NothingLeftBehind`, `SuccessIsComplete` | `RecordsOfTheFile`, `NothingHalfDone`, `DoneIsComplete` | `~RenameFails` |

`FeedKept` is in no run, as it says most with `FlushMeetsCallback` and `FreedReads` both `TRUE`, where
the liveness of `ring_feeds_audio` is lost; TLC finds it kept on that instance too (1 858 208
states), and broken there when the flush of the re-pin forgets the ring
(`RepinFlush_KeepsRing`).

The hypotheses are not conveniences: with any of them dropped TLC finds the property
violated on the instance of its run, with that one constant changed. Section 4
gives the case for `BrowseMeetsConnect`, `RenameFails` and the three of the library;
the others are the key `"device"` for `EndNeedsPlayback`, `"queue"` and `"unqueue"`, or
`OutlastsTick = FALSE`, for the two of the hand-off, and `ReadsThrow = TRUE`.
`Transport` is `OutlastsTick` with the keys start, enter, next, pause
and stop, which are those that do not disarm a track while the callback may be
splicing it. A device change goes around the clearing of the track end, so
`NoEndAfterStop` excludes it: `setDevice` stops and starts the device with a
track end still raised.

Where the code does break a promise under a race, the theorem says how far the damage
goes and not that the race is absent: `OnlyFlushesUnderCopy`, `OldSoundIsBounded`,
`TornPullStaysLocal`, `UnchangedMeansFresh` and `SuccessIsComplete` carry no assumption that
excludes theirs.

### The inductive invariants

*AudioHandoff.* `FileSrcLive` is inductive with the types of the variables: the UI
thread empties `file_src_` only where the device is quiet, and the callback only
between `retire` and `take`, where it does not read it. `PositionReaderLive` needs
`PositionInv`: the source `positionSec` holds is the current one, or the
retired one of a swap that is over or about to unpublish, while the next swap would
need a source armed by the very thread that is inside `positionSec`. It says nothing of
the moment in which there is none.

*GaplessAdvance.* `AInv` (lists of tracks, and the device runs only while the player
plays or an operation that stops it is under way) gives `SilenceKept`; `EndInv`, that
a pending end is not that of a stopped track, `NoEndAfterStop`. The two
results on the hand-off share `GInv`, which is the argument in the code's
comments made exact: what is armed is the row that follows, or the source is young
and the tick that accounts for its swap is on its way; a source so young
cannot end before that tick; so the tick that arms comes after the one that reaps
and installs the title. `ArmingOK` and `TitleOK` follow the UI thread
through `clearNext` and `preloadNext` with the callback at every one of its places.

*StreamRing.* `BaseInv` holds whatever is flushed: the values of the indices, what the
worker's place says of the connection and the decoder, what a callback has sized. `InStep` is
the rest, and what a flush under a copy breaks: the slots ahead of the read index
hold the samples to be heard, the last published last; a pass starts at half a ring or
less, so a burst never meets the read index; what a callback has copied is the head of the
queue. From a state in step each step but that flush leads to one in step, and is a step of
`AudioFeed` or none: publishing is `Put`, a callback's release `Hear`, a flush and the opening
of a station `Drop`, the start of a worker and the reconnect of a re-pin `Resume` or `Break`,
and the rest `Break` or nothing. An empty ring that nobody copies from is in step whatever
came before, as there is nothing in it to be out of order. The bound `MaxLag` of the run plays
no part.

*StreamRecorder.* `IInv`: what is left of the snapshot is in the ring, a push in
progress fits, a chunk's tail is kept only between a roll and its new cut, every frame
taken is in a cut, filed or kept.

*Playlist.* `PlaylistInv` is rows without repetition and a current one, an order
that is a permutation of them standing at it, and marks of these rows. Most of the
work is in `Selected`, the lemma about `Among`: a sequence picked at positions `K` has
as many elements as `K`, in order and from those positions, so a row removed
before the current one moves the current number by one and keeps its track.

*SourceSwitch.* `CInv`: a connect is under way from the start of its worker to the
poll that takes its result, and no station plays meanwhile. `ResultInv`
says what that result will be, and `OwnerInv` who owns the device and by whose request.

*CDPlayback.* `EInv` places the UI thread in its operation and says a stopped disc has
no current track. `RInv` is the ring. The last `p` slots behind the write index hold the last
`p` chunks read and all others are discarded (`Run`); `odd + Before(p) + Jump(p) + Risk <=
Cap`, where `Before` is how many discarded slots the callback hears before it comes to these
chunks, `Jump` the one that is then not the next, and `Risk` the one more that a ring
about to look full costs. `Cap` is two rounds of the ring if a read overlapped the flush and zero
if none did. Each read moves a slot from `Before` to `odd`; a callback that stores an index of the
old ring (`Astray`) adds a round to what is ahead, once per flush.

*CopyTee.* `TeeInv`: what is in the ring is in the order of the station
(`RingOK`, with the unpublished burst), and what has been pulled is a run that the
ring continues (`Run`), of the parse buffer without its spoilt head (`Clean`) and the
pull in hand unless it is torn (`Pulled`). The middle of the argument is `Later`: nothing the producer
does later breaks a run, unless it laps it, which either the second look at
the index finds or `torn` records.

*LibraryScan.* `FInv`: a file was examined before its tags were read, and both before now; its
time and size are never those of a later version.
`KInv` follows the walk: every file of the index the worker started from is
found, in a folder still to do, or still to be met in this one.

*DiscRip.* `RecInv`: what a pass returns is what it left in its files, what is kept is
in them until the second pass replaces both, what is recorded is in files not
written to again. `HalfOK` and `DoneOK` add where a half of a track and a
temporary file may be, and what each stage has completed.

`StreamProofs` extends both modules of the radio, whose names are kept apart
(`RecSpec`, `RecNext`). Each invariant is proved with one step per action. Three facts about the models came
out of the proofs: two reconnects with no byte between are one gap (`jumps` in
`CopyTee` first took them for two, and no frame across both was allowed); the number
a new source takes must not be that of one still owned (`Opened` in `AudioHandoff`); and
the ring of a disc needs the third slot.

### What is only model-checked

* Liveness: `ArmConverges`, `BackpressureClears`, `CloseReturns`, `LostStationGivenUp`,
  `RecordingEnds`, `SplitActs`, `LoadsArrive`, `StationAnswered`, `TrackAdvances` and
  `EjectNoticed`. Liveness under fairness, and `ENABLED`, are out of the prover's reach.
* `NextSrcLive` and `TitleMatchesAudio`, which hold for the keys of `advance_transport` only, and
  `FeedRefined`, which holds only where no flush meets a callback: a theorem would have to
  assume the race away.
* The types of the variables, except where an invariant above includes them.

## 6. What is not modelled, and what is left

Not modelled, because nothing is shared or ordered there that a model could tell
apart: decoders, encoders and containers (sequential byte processing), the plugin
host (forwarding), the platform layer and the vendored libraries, drawing and text
entry. Network clients (lookups, art, podcasts, directory, scrobbling, presence)
run one request on a thread and deliver it through a flag and a mutex, as the
connect worker does. The iHeart now-playing machine is a function of advertisement
and song texts. The convert and gain jobs have the life of the scanner and
the ripper with less at stake.

Within the modelled components the notes of `PROJECT.json` name what is left out.

What the models could take up next: the queue on a CD, shuffle in the
gapless advance, the staging lane of the stream source.

## 7. Running

    tlc -workers 2 -config handoff_any_client.cfg MCAudioHandoff
    tlc -workers 2 -config advance_transport.cfg MCGaplessAdvance
    tlc -workers 2 -config advance_every_key.cfg MCGaplessAdvance
    tlc -workers 2 -config ring_feeds_audio.cfg StreamRing
    tlc -workers 2 -config recorder_cuts.cfg StreamRecorder
    tlc -workers 2 -config playlist_edits.cfg MCPlaylist
    tlc -workers 2 -config source_switch.cfg SourceSwitch
    tlc -workers 2 -config cd_playback.cfg CDPlayback
    tlc -workers 2 -config copy_cuts.cfg CopyTee
    tlc -workers 2 -config library_scans.cfg MCLibraryScan
    tlc -workers 2 -config rip_passes.cfg DiscRip
    tlc -workers 2 -config queue_frees_splice_source.cfg MCGaplessAdvance
    tlapm GaplessAdvanceProofs.tla
    tlapm StreamProofs.tla
    tlapm PlaylistProofs.tla
    tlapm SourceSwitchProofs.tla
    tlapm CDPlaybackProofs.tla
    tlapm CopyTeeProofs.tla
    tlapm LibraryScanProofs.tla
    tlapm DiscRipProofs.tla
