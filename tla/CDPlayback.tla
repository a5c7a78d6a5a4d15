----------------------------- MODULE CDPlayback -----------------------------
(***************************************************************************)
(* Playing an audio CD.  Three threads share CDSource: the reader fetches  *)
(* sectors from the drive into a ring, the audio callback empties the      *)
(* ring, and the user-interface thread starts, seeks, stops, hands the     *)
(* drive to the ripper and, polling, advances to the next track or unloads *)
(* a disc that was taken out.  A chunk of SECTORS_PER_READ sectors is one  *)
(* slot of the ring; a slot holds the position in the track it was read    *)
(* from, or Stale once a flush has discarded it.                           *)
(***************************************************************************)
EXTENDS Integers

CONSTANTS
  LastTrack,     \* the disc's last track; track 0 is the hidden one ahead of track 1
  Len,           \* chunks of a track
  RingSlots,     \* RING_SECTORS / SECTORS_PER_READ
  MaxErrors,     \* consecutive read errors that end playback (10 in the code)
  Builds,        \* which builds: TRUE is the one for Windows
  Repeats,       \* repeat modes of the playlist
  Targets,       \* positions a seek may ask for
  Keys,          \* what the user may ask for
  MaxKeys,       \* bound: keys pressed, a cancel aside
  MaxTrayMoves   \* bound: times the disc is taken out or put in

ASSUME CDAssumption ==
  /\ LastTrack \in Nat /\ Len \in Nat \ {0} /\ RingSlots \in Nat \ 0 .. 2
  /\ Builds \subseteq BOOLEAN
  /\ MaxErrors \in Nat \ {0} /\ Repeats \subseteq {"off", "one", "all"} /\ Targets \subseteq 0 .. Len - 1
  /\ Keys \subseteq {"play", "next", "stop", "pause", "seek", "load", "rip", "cancel"}
  /\ MaxKeys \in Nat /\ MaxTrayMoves \in Nat

Tracks  == 0 .. LastTrack
NoTrack == -1
Stale   == -1
Slots   == 0 .. RingSlots - 1

VARIABLES
  cdMode, device, state,            \* cd_mode_ (and dev_ open), device_initialised_, state_
  ended,                            \* track_ended_flag_
  current, playing, paused,         \* current_track_, playing_, paused_
  readerStop, removed, lba,         \* reader_stop_, media_removed_, current_lba_ from the track's start
  ring, wr, rd,                     \* ring_, ring_write_, ring_read_
  reader, errors, loaded,           \* reader thread: where it is, consecutive_errors, the index it flushes to
  cb, seenW, seenR, take,           \* callback: where it is, the indices it loaded, slots it will read
  ui, job, goal, after,             \* UI thread: place, operation, its argument, place it returns to
  rows, row, repeat, onWindows,     \* are the disc's tracks in the playlist, current row, repeat mode; build
  rip,                              \* CDRipper: "off", "starting", "reading"
  disc, keys, trayMoves,            \* disc in the drive; bounds
  cursor, odd, straddled            \* history: next position to be heard; slots heard since the last
                                    \* flush that were not that; did a ring read overlap that flush

mode   == <<cdMode, device, state>>
source == <<current, playing, paused, readerStop, removed, lba>>
buffer == <<ring, wr, rd>>
rthr   == <<reader, errors, loaded>>
cthr   == <<cb, seenW, seenR, take>>
uthr   == <<ui, job, goal, after>>
list   == <<rows, row, repeat, onWindows>>
world  == <<disc, trayMoves>>
past   == <<cursor, odd, straddled>>
vars == <<mode, ended, source, buffer, rthr, cthr, uthr, list, rip, world, keys, past>>

\* The disc has been loaded from the drive list and a row of it has just been chosen.
Init ==
  /\ cdMode = TRUE /\ device = TRUE /\ state = "Stopped" /\ ended = FALSE
  /\ current = NoTrack /\ playing = FALSE /\ paused = FALSE
  /\ readerStop = TRUE /\ removed = FALSE /\ lba = 0
  /\ ring = [s \in Slots |-> Stale] /\ wr = 0 /\ rd = 0
  /\ reader = "off" /\ errors = 0 /\ loaded = 0
  /\ cb = "idle" /\ seenW = 0 /\ seenR = 0 /\ take = 0
  /\ ui = "join" /\ job = "play" /\ goal \in Tracks /\ after = "poll"
  /\ rows = TRUE /\ row = goal /\ repeat \in Repeats /\ onWindows \in Builds
  /\ rip = "off"
  /\ disc = TRUE /\ keys = 0 /\ trayMoves = 0
  /\ cursor = 0 /\ odd = 0 /\ straddled = FALSE

Available(w, r) == (w - r) % RingSlots
Up(i) == (i + 1) % RingSlots
MidRead == cb \in {"loadR", "again", "copy"}

-----------------------------------------------------------------------------
(* The reader thread: readerWorker. *)

ReaderStops ==
  /\ reader = "loop" /\ readerStop
  /\ reader' = "gone"
  /\ UNCHANGED <<mode, ended, source, buffer, errors, loaded, cthr, uthr, list, rip, world, keys, past>>

ReaderEnds ==
  /\ reader = "loop" /\ ~readerStop /\ ~paused /\ lba >= Len
  /\ playing' = FALSE /\ reader' = "gone"
  /\ UNCHANGED <<mode, ended, current, paused, readerStop, removed, lba, buffer, errors, loaded, cthr,
                 uthr, list, rip, world, keys, past>>

\* A ring more than half full is left alone.
ReaderReads ==
  /\ reader = "loop" /\ ~readerStop /\ ~paused /\ lba < Len
  /\ Available(wr, rd) <= RingSlots \div 2
  /\ reader' = "read"
  /\ UNCHANGED <<mode, ended, source, buffer, errors, loaded, cthr, uthr, list, rip, world, keys, past>>

Fetch ==
  /\ ring' = [ring EXCEPT ![wr] = lba] /\ wr' = Up(wr) /\ lba' = lba + 1
  /\ reader' = "loop"
  /\ UNCHANGED <<current, playing, paused, readerStop, removed, rd, loaded>>

ReadOk ==
  /\ reader = "read" /\ disc
  /\ Fetch /\ errors' = 0
  /\ UNCHANGED <<mode, ended, cthr, uthr, list, rip, world, keys, past>>

\* A transient error: silence of the same length stands in for the sectors.
ReadError ==
  /\ reader = "read" /\ disc /\ errors + 1 < MaxErrors
  /\ Fetch /\ errors' = errors + 1
  /\ UNCHANGED <<mode, ended, cthr, uthr, list, rip, world, keys, past>>

\* Disc gone or unreadable: flush the ring, by the read index as it is now ...
ReadFails ==
  /\ reader = "read" /\ (~disc \/ errors + 1 >= MaxErrors)
  /\ loaded' = rd /\ reader' = "flush"
  /\ UNCHANGED <<mode, ended, source, buffer, errors, cthr, uthr, list, rip, world, keys, past>>

ReaderFlush ==
  /\ reader = "flush"
  /\ wr' = loaded /\ loaded' = 0 /\ reader' = "silence"
  /\ odd' = 0 /\ straddled' = (MidRead \/ rd # loaded)
  /\ UNCHANGED <<mode, ended, source, ring, rd, errors, cthr, uthr, list, rip, world, keys, cursor>>

\* ... silence the callback ...
ReaderSilence ==
  /\ reader = "silence"
  /\ current' = NoTrack /\ reader' = "giveUp"
  /\ UNCHANGED <<mode, ended, playing, paused, readerStop, removed, lba, buffer, errors, loaded, cthr,
                 uthr, list, rip, world, keys, past>>

\* (wrong) stops without reporting the disc as gone.
GiveUp_Silently ==
  /\ reader = "giveUp"
  /\ playing' = FALSE /\ reader' = "gone"
  /\ UNCHANGED <<mode, ended, current, paused, readerStop, removed, lba, buffer, errors, loaded, cthr,
                 uthr, list, rip, world, keys, past>>

\* ... then report.
GiveUp ==
  /\ reader = "giveUp"
  /\ playing' = FALSE /\ removed' = TRUE /\ reader' = "gone"
  /\ UNCHANGED <<mode, ended, current, paused, readerStop, lba, buffer, errors, loaded, cthr, uthr, list,
                 rip, world, keys, past>>

Reader == \/ ReaderStops \/ ReaderEnds \/ ReaderReads \/ ReadOk \/ ReadError
          \/ ReadFails \/ ReaderFlush \/ ReaderSilence \/ GiveUp

-----------------------------------------------------------------------------
(* The audio callback in CD mode: readFrames, ringRead, then the end-of-track test. *)

CallbackEnter ==
  /\ device /\ cdMode /\ cb = "idle"
  /\ cb' = IF current = NoTrack \/ paused THEN "check" ELSE "loadW"
  /\ UNCHANGED <<mode, ended, source, buffer, rthr, seenW, seenR, take, uthr, list, rip, world,
                 keys, past>>

LoadWrite ==
  /\ cb = "loadW"
  /\ seenW' = wr /\ cb' = "loadR"
  /\ UNCHANGED <<mode, ended, source, buffer, rthr, seenR, take, uthr, list, rip, world, keys, past>>

LoadRead ==
  /\ cb = "loadR"
  /\ seenW' = 0 /\ take' = IF Available(seenW, rd) > 0 THEN 1 ELSE 0
  /\ cb' = "again" /\ straddled' = (straddled \/ ui = "flushR")
  /\ UNCHANGED <<mode, ended, source, buffer, rthr, seenR, uthr, list, rip, world, keys, cursor, odd>>

LoadAgain ==
  /\ cb = "again"
  /\ seenR' = rd /\ cb' = "copy"
  /\ UNCHANGED <<mode, ended, source, buffer, rthr, seenW, take, uthr, list, rip, world, keys, past>>

\* The read index is stored even when nothing was read.
CopyOut ==
  /\ cb = "copy"
  /\ rd' = (seenR + take) % RingSlots
  /\ IF take = 0 THEN UNCHANGED <<cursor, odd>>
     ELSE /\ odd' = IF ring[seenR] = cursor THEN odd ELSE odd + 1
          /\ cursor' = IF ring[seenR] = Stale THEN cursor ELSE ring[seenR] + 1
  /\ cb' = "check" /\ seenR' = 0 /\ take' = 0
  /\ UNCHANGED <<mode, ended, source, ring, wr, rthr, seenW, uthr, list, rip, world, keys, straddled>>

\* (wrong) takes the hidden track, number 0, for no track.
EndCheck_NotHidden ==
  /\ cb = "check"
  /\ ended' = (ended \/ (~removed /\ current > 0 /\ ~playing /\ ~paused))
  /\ cb' = "idle"
  /\ UNCHANGED <<mode, source, buffer, rthr, seenW, seenR, take, uthr, list, rip, world, keys, past>>

EndCheck ==
  /\ cb = "check"
  /\ ended' = (ended \/ (~removed /\ current # NoTrack /\ ~playing /\ ~paused))
  /\ cb' = "idle"
  /\ UNCHANGED <<mode, source, buffer, rthr, seenW, seenR, take, uthr, list, rip, world, keys, past>>

Callback == CallbackEnter \/ LoadWrite \/ LoadRead \/ LoadAgain \/ CopyOut \/ EndCheck

-----------------------------------------------------------------------------
(* Operations of the UI thread that wait for the reader: playTrack, seekTo, stop and close, *)
(* stopReader.  Each asks the reader to stop, joins it, flushes the ring and finishes.      *)

Ask(j, g, back) ==
  /\ ui' = "join" /\ job' = j /\ goal' = g /\ after' = back
  /\ readerStop' = TRUE

AskPlay(t, back) ==
  /\ Ask("play", t, back)
  /\ UNCHANGED <<current, playing, paused, removed, lba>>

\* stop(): the callback must stop signalling the end of the track before playing_ falls.
AskClose(j, back) ==
  /\ Ask(j, 0, back)
  /\ current' = NoTrack /\ playing' = FALSE
  /\ UNCHANGED <<paused, removed, lba>>

\* stopReader(): playing_ falls while current_track_ still names the track.
AskRip(back) ==
  /\ Ask("rip", 0, back)
  /\ playing' = FALSE
  /\ UNCHANGED <<current, paused, removed, lba>>

Join ==
  /\ ui = "join" /\ reader \in {"off", "gone"}
  /\ reader' = "off" /\ ui' = "flushW"
  /\ current' = IF job \in {"play", "rip"} THEN NoTrack ELSE current
  /\ UNCHANGED <<mode, ended, playing, paused, readerStop, removed, lba, buffer, errors, loaded, cthr,
                 job, goal, after, list, rip, world, keys, past>>

FlushWrite ==
  /\ ui = "flushW"
  /\ wr' = 0 /\ ui' = "flushR" /\ straddled' = MidRead /\ odd' = 0
  /\ UNCHANGED <<mode, ended, source, ring, rd, rthr, cthr, job, goal, after, list, rip, world,
                 keys, cursor>>

\* (wrong) resets the write index only.
FlushRead_Forgotten ==
  /\ ui = "flushR"
  /\ ring' = [s \in Slots |-> Stale] /\ ui' = job
  /\ UNCHANGED <<mode, ended, source, wr, rd, rthr, cthr, job, goal, after, list, rip, world, keys, past>>

FlushRead ==
  /\ ui = "flushR"
  /\ rd' = 0 /\ ring' = [s \in Slots |-> Stale] /\ ui' = job
  /\ UNCHANGED <<mode, ended, source, wr, rthr, cthr, job, goal, after, list, rip, world, keys, past>>

Back == ui' = after /\ job' = "none" /\ goal' = 0 /\ after' = "poll"

\* playTrack(): name the new track, then start its reader.
PlaySet ==
  /\ ui = "play"
  /\ current' = goal /\ lba' = 0 /\ ui' = "go"
  /\ UNCHANGED <<mode, ended, playing, paused, readerStop, removed, buffer, rthr, cthr, job, goal,
                 after, list, rip, world, keys, past>>

PlayGo ==
  /\ ui = "go"
  /\ playing' = TRUE /\ paused' = FALSE /\ readerStop' = FALSE /\ removed' = FALSE
  /\ reader' = "loop" /\ errors' = 0 /\ state' = "Playing"
  /\ cursor' = 0 /\ Back
  /\ UNCHANGED <<cdMode, device, ended, current, lba, buffer, loaded, cthr, list, rip, world, keys,
                 odd, straddled>>

\* seekTo(): playing_ is left as it was.
SeekGo ==
  /\ ui = "seek"
  /\ lba' = goal /\ readerStop' = FALSE /\ reader' = "loop" /\ errors' = 0
  /\ cursor' = goal /\ Back
  /\ UNCHANGED <<mode, ended, current, playing, paused, removed, buffer, loaded, cthr, list, rip, world,
                 keys, odd, straddled>>

RipGo ==
  /\ ui = "rip"
  /\ rip' = "reading" /\ Back
  /\ UNCHANGED <<mode, ended, source, buffer, rthr, cthr, list, world, keys, past>>

\* close() and the fall of cd_mode_.
Close ==
  /\ ui \in {"stop", "eject", "load"}
  /\ cdMode' = FALSE /\ state' = "Stopped" /\ removed' = FALSE /\ ui' = "deviceOff"
  /\ UNCHANGED <<device, ended, current, playing, paused, readerStop, lba, buffer, rthr, cthr, job,
                 goal, after, list, rip, world, keys, past>>

\* (wrong) leaves the flag as the callback left it.
DeviceOff_FlagStays ==
  /\ ui = "deviceOff" /\ cb = "idle"
  /\ device' = FALSE
  /\ rip' = IF job = "eject" THEN "off" ELSE rip
  /\ IF job = "load" THEN ui' = "open" /\ UNCHANGED <<job, goal, after>> ELSE Back
  /\ UNCHANGED <<cdMode, state, ended, source, buffer, rthr, cthr, list, world, keys, past>>

\* The device goes down, which waits for a callback in progress.  A stop and the
\* unloading of a removed disc then clear the end-of-track flag; the unloading also
\* cancels a rip.
DeviceOff ==
  /\ ui = "deviceOff" /\ cb = "idle"
  /\ device' = FALSE
  /\ ended' = (ended /\ job = "load")
  /\ rip' = IF job = "eject" THEN "off" ELSE rip
  /\ IF job = "load" THEN ui' = "open" /\ UNCHANGED <<job, goal, after>> ELSE Back
  /\ UNCHANGED <<cdMode, state, source, buffer, rthr, cthr, list, world, keys, past>>

\* openCD(), with no thread running: what plays is torn down even when the drive then
\* does not open.
OpenCD(ok) == cdMode' = ok /\ device' = ok /\ state' = "Stopped" /\ ended' = FALSE

\* activateDrive(): an empty drive is only browsed.
LoadOpen ==
  /\ ui = "open"
  /\ OpenCD(disc)
  /\ IF disc THEN rows' = TRUE /\ row' = 0 ELSE UNCHANGED <<rows, row>>
  /\ Back
  /\ UNCHANGED <<source, buffer, rthr, cthr, repeat, onWindows, rip, world, keys, past>>

-----------------------------------------------------------------------------
(* The loop of the user interface: pollEvents, the check for a removed disc, a key. *)

\* The row after this one, by key and at the end of a track.
Following(r) == IF r < LastTrack THEN {r + 1} ELSE IF repeat = "all" THEN {0} ELSE {}
Successor(r) == IF repeat = "one" THEN {r} ELSE Following(r)

\* on_track_end: the next row plays; after the last row nothing is done.  Only the Windows
\* build knows a row of a disc here: elsewhere the row is taken for a file, which ends CD
\* playback and cannot be opened, and after the last row the player is stopped.
PollEnd ==
  /\ ui = "poll" /\ ended
  /\ ended' = FALSE
  /\ \/ /\ cdMode /\ onWindows
        /\ \E t \in Successor(row) : row' = t /\ AskPlay(t, "media")
     \/ /\ cdMode /\ ~onWindows
        /\ row' \in IF Successor(row) = {} THEN {row} ELSE Successor(row)
        /\ AskClose("stop", "media")
     \/ /\ ~cdMode \/ (onWindows /\ Successor(row) = {})
        /\ ui' = "media" /\ UNCHANGED <<row, source, job, goal, after>>
  /\ UNCHANGED <<mode, buffer, rthr, cthr, rows, repeat, onWindows, rip, world, keys, past>>

PollQuiet ==
  /\ ui = "poll" /\ ~ended
  /\ ui' = "media"
  /\ UNCHANGED <<mode, ended, source, buffer, rthr, cthr, job, goal, after, list, rip, world, keys,
                 past>>

PollMedia ==
  /\ ui = "media"
  /\ \/ /\ cdMode /\ removed
        /\ rows' = FALSE /\ AskClose("eject", "key")
     \/ /\ ~(cdMode /\ removed)
        /\ ui' = "key" /\ UNCHANGED <<rows, source, job, goal, after>>
  /\ UNCHANGED <<mode, ended, buffer, rthr, cthr, row, repeat, onWindows, rip, world, keys, past>>

NoKey ==
  /\ ui = "key" /\ ui' = "poll"
  /\ UNCHANGED <<mode, ended, source, buffer, rthr, cthr, job, goal, after, list, rip, world, keys,
                 past>>

Press(k) == ui = "key" /\ k \in Keys /\ keys < MaxKeys /\ keys' = keys + 1

\* reopenCDForAction(): a stopped disc is opened again; an empty tray unloads the rows
\* and cancels a rip, a drive that is busy leaves them.
Ready ==
  \/ cdMode /\ UNCHANGED <<mode, ended>>
  \/ ~cdMode /\ disc /\ OpenCD(TRUE)

NotReady ==
  /\ ~cdMode /\ OpenCD(FALSE) /\ ui' = "poll"
  /\ \/ UNCHANGED <<rows, rip>>
     \/ ~disc /\ rows' = FALSE /\ rip' = "off"
  /\ UNCHANGED <<source, job, goal, after>>

KeyPlay == \E t \in Tracks :
  /\ Press("play") /\ rows /\ row' = t
  /\ \/ Ready /\ AskPlay(t, "poll") /\ UNCHANGED <<rows, rip>>
     \/ NotReady
  /\ UNCHANGED <<buffer, rthr, cthr, repeat, onWindows, world, past>>

\* manualNext(): past the last row it stops.
KeyNext ==
  /\ Press("next") /\ rows /\ row' \in Following(row)
  /\ \/ Ready /\ AskPlay(row', "poll") /\ UNCHANGED <<rows, rip>>
     \/ NotReady
  /\ UNCHANGED <<buffer, rthr, cthr, repeat, onWindows, world, past>>

\* stop(), by key or past the last row.
KeyStop ==
  /\ Press("stop") \/ (Press("next") /\ rows /\ Following(row) = {})
  /\ \/ cdMode /\ AskClose("stop", "poll") /\ UNCHANGED ended
     \/ /\ ~cdMode /\ ui' = "poll" /\ ended' = FALSE
        /\ UNCHANGED <<source, job, goal, after>>
  /\ UNCHANGED <<mode, buffer, rthr, cthr, list, rip, world, past>>

KeyPause ==
  /\ Press("pause") /\ cdMode
  /\ paused' = ~paused /\ state' = IF paused THEN "Playing" ELSE "Paused"
  /\ ui' = "poll"
  /\ UNCHANGED <<cdMode, device, ended, current, playing, readerStop, removed, lba, buffer, rthr,
                 cthr, job, goal, after, list, rip, world, past>>

KeySeek == \E p \in Targets :
  /\ Press("seek") /\ cdMode /\ current # NoTrack
  /\ Ask("seek", p, "poll")
  /\ UNCHANGED <<mode, ended, current, playing, paused, removed, lba, buffer, rthr, cthr, list, rip,
                 world, past>>

\* activateDrive(): closes an open disc first.
KeyLoad ==
  /\ Press("load")
  /\ \/ cdMode /\ AskClose("load", "poll")
     \/ /\ ~cdMode /\ ui' = "open" /\ job' = "load"
        /\ UNCHANGED <<source, goal, after>>
  /\ UNCHANGED <<mode, ended, buffer, rthr, cthr, list, rip, world, past>>

\* Ctrl+Y and a format: CDRipper::start().
KeyRip ==
  /\ Press("rip") /\ rows /\ rip = "off"
  /\ \/ Ready /\ AskRip("poll") /\ rip' = "starting" /\ UNCHANGED rows
     \/ NotReady
  /\ UNCHANGED <<buffer, rthr, cthr, row, repeat, onWindows, world, past>>

\* Ctrl+Y again: CDRipper::cancel() joins the worker.  (There is one at most for each rip,
\* so it is not counted.)
KeyCancel ==
  /\ ui = "key" /\ "cancel" \in Keys /\ rip = "reading"
  /\ rip' = "off" /\ ui' = "poll"
  /\ UNCHANGED <<mode, ended, source, buffer, rthr, cthr, job, goal, after, list, world, keys, past>>

Key == KeyPlay \/ KeyNext \/ KeyStop \/ KeyPause \/ KeySeek \/ KeyLoad \/ KeyRip \/ KeyCancel

UI == \/ Join \/ FlushWrite \/ FlushRead \/ PlaySet \/ PlayGo \/ SeekGo \/ RipGo \/ Close
      \/ DeviceOff \/ LoadOpen \/ PollEnd \/ PollQuiet \/ PollMedia \/ NoKey \/ Key

\* CDRipper's worker is done.
RipEnds ==
  /\ rip = "reading" /\ rip' = "off"
  /\ UNCHANGED <<mode, ended, source, buffer, rthr, cthr, uthr, list, world, keys, past>>

\* The user takes the disc out or puts it in.
Tray ==
  /\ trayMoves < MaxTrayMoves
  /\ disc' = ~disc /\ trayMoves' = trayMoves + 1
  /\ UNCHANGED <<mode, ended, source, buffer, rthr, cthr, uthr, list, rip, keys, past>>

Next == Reader \/ Callback \/ UI \/ RipEnds \/ Tray

\* The drive answers every read, the device calls back for as long as it is started and
\* the loop of the user interface runs; nobody has to press a key or touch the tray.
Spec == Init /\ [][Next]_vars
FairSpec == Spec /\ WF_vars(Reader) /\ WF_vars(Callback) /\ WF_vars(UI)

-----------------------------------------------------------------------------
(* Properties. *)

TypeOK ==
  /\ {cdMode, device, ended, playing, paused, readerStop, removed, rows, onWindows, disc, straddled} \subseteq BOOLEAN
  /\ state \in {"Stopped", "Playing", "Paused"}
  /\ current \in Tracks \cup {NoTrack} /\ lba \in 0 .. Len /\ cursor \in 0 .. Len
  /\ ring \in [Slots -> (0 .. Len - 1) \cup {Stale}] /\ {wr, rd, seenW, seenR, loaded} \subseteq Slots
  /\ take \in {0, 1} /\ errors \in 0 .. MaxErrors - 1 /\ odd \in Nat
  /\ reader \in {"off", "loop", "read", "flush", "silence", "giveUp", "gone"}
  /\ cb \in {"idle", "loadW", "loadR", "again", "copy", "check"}
  /\ rip \in {"off", "starting", "reading"} /\ row \in Tracks

\* What is heard after a start or a seek is that track from that position on, without a
\* gap or an old sector between.  If a ring read of the callback overlapped a flush, whose
\* index it then undoes, at most two rounds of the ring are heard first: the rest of the track
\* is in order again.
SoundInOrder ==
  /\ straddled \/ odd = 0
  /\ odd <= 2 * RingSlots

\* A flush silences the ring at once: what is heard after it is in order.  (Broken by the code,
\* by each of its three flushes.)
NothingOldHeard == odd = 0

\* The end of a track is only delivered while a disc is open and has been started:
\* stopping, or taking the disc out, leaves no late end behind to start playback again.
EndNeedsDisc == ui = "poll" /\ ended => cdMode /\ state # "Stopped"

\* Once no more keys are pressed, a track that plays and has a successor gives way to it in the
\* Windows build: that one is started on the disc, unless the player is paused or the disc cannot
\* be read.  The hidden track is no exception.
TrackAdvances == \A t \in Tracks :
  (onWindows /\ row = t /\ current = t /\ playing /\ keys = MaxKeys /\ Successor(t) # {})
    ~> ((ui = "go" /\ current \in Successor(t)) \/ paused \/ removed)

\* "play_path routes CD rows through parseCDPath/playCDTrack itself": the end of a track that
\* repeats starts it again.  (Broken by the code, where it is not built for Windows.)
RepeatRestarts ==
  [][ui = "poll" /\ ui' # "poll" /\ ended /\ repeat = "one" => job' = "play" /\ goal' = row]_vars

\* A disc taken out while it plays is unloaded, unless the user pauses, puts it back or
\* starts a rip.
EjectNoticed ==
  (cdMode /\ playing /\ ~disc /\ Successor(row) # {}) ~> (~cdMode \/ paused \/ disc \/ rip # "off")

\* "the ripper owns the drive": while it reads, playback does not.  (Broken by the code.)
RipOwnsDrive == ~(rip = "reading" /\ reader = "read")
=============================================================================
