---------------------------- MODULE SourceSwitch ----------------------------
(***************************************************************************)
(* Which source the player plays: a file, the open disc or a radio         *)
(* station.  AudioManager owns one audio device and changes its owner on   *)
(* the user-interface thread; only the connection to a station is made by  *)
(* a worker thread, so a request can arrive while an earlier one is still  *)
(* connecting.  A generation counter tells the poll that takes the result  *)
(* whether something newer plays by then, and one slot remembers a station *)
(* chosen during a connect.                                                *)
(***************************************************************************)
EXTENDS Integers

CONSTANTS
  Urls, Files,          \* stations and files
  NoUrl, NoFile,        \* none of them
  CD, Silence,          \* requests that are neither
  Keys,                 \* what the user may ask for
  BrowseMeetsConnect,   \* may a disc be opened for browsing while a station is being connected
  MaxKeys               \* bound: requests made

ASSUME SwitchAssumption ==
  /\ NoUrl \notin Urls /\ NoFile \notin Files /\ Urls \cap Files = {}
  /\ {CD, Silence} \cap (Urls \cup Files) = {} /\ CD # Silence
  /\ Keys \subseteq {"station", "file", "track", "browse", "stop", "pause", "device", "record"}
  /\ BrowseMeetsConnect \in BOOLEAN /\ MaxKeys \in Nat

VARIABLES
  cdMode, track, streamMode, file,  \* cd_mode_, is a track chosen, stream_mode_, file_src_
  device, state,                    \* device_initialised_, state_
  plugin, session, lost,            \* stream_plugin_: loaded, the station it has open, last error set
  recorder,                         \* the station stream_recorder_ captures
  gen, workerGen,                   \* stream_connect_gen_, stream_connect_worker_gen_
  connecting, done, ok,             \* stream_connecting_, stream_connect_done_, stream_connect_ok_
  url, pending,                     \* stream_connect_url_, stream_pending_url_ (and _has_)
  worker,                           \* the connect thread: where it is
  connected, failed,                \* stream_just_connected_, stream_just_failed_
  ui, keys,                         \* the loop of the user interface; bound
  want, toldFailed                  \* history: request in force, failure shown since it was made

mode  == <<cdMode, track, streamMode, file>>
out   == <<device, state>>
tags  == <<gen, workerGen>>
job   == <<connecting, done, ok, url, pending, worker>>
latch == <<connected, failed>>
past  == <<want, toldFailed>>
vars  == <<mode, out, plugin, session, lost, recorder, tags, job, latch, ui, keys, past>>

Init ==
  /\ cdMode = FALSE /\ track = FALSE /\ streamMode = FALSE /\ file = NoFile
  /\ device = FALSE /\ state = "Stopped"
  /\ plugin \in BOOLEAN /\ session = NoUrl /\ lost = FALSE /\ recorder = NoUrl
  /\ gen = 0 /\ workerGen = 0
  /\ connecting = FALSE /\ done = FALSE /\ ok = FALSE /\ url = NoUrl /\ pending = NoUrl
  /\ worker = "none"
  /\ connected = FALSE /\ failed = FALSE
  /\ ui = "poll" /\ keys = 0 /\ want = Silence /\ toldFailed = FALSE

Superseded == workerGen # gen

\* A station the player is going to start once the connect in progress is over.
Awaited == connecting /\ (~Superseded \/ pending # NoUrl)

-----------------------------------------------------------------------------
(* The connect worker. *)

\* StreamSource::open(): drops the session there was, then connects or fails.
WorkerOpens ==
  /\ worker = "open"
  /\ session' \in {url, NoUrl} /\ lost' = FALSE /\ worker' = "report"
  /\ UNCHANGED <<mode, out, plugin, recorder, tags, connecting, done, ok, url, pending, latch, ui,
                 keys, past>>

WorkerReports ==
  /\ worker = "report"
  /\ ok' = (session # NoUrl) /\ worker' = "finish"
  /\ UNCHANGED <<mode, out, plugin, session, lost, recorder, tags, connecting, done, url, pending,
                 latch, ui, keys, past>>

WorkerDone ==
  /\ worker = "finish"
  /\ done' = TRUE /\ worker' = "gone"
  /\ UNCHANGED <<mode, out, plugin, session, lost, recorder, tags, connecting, ok, url, pending,
                 latch, ui, keys, past>>

\* The producer of the open station has no decoder or has used up its reconnects.
StationLost ==
  /\ session # NoUrl /\ ~lost
  /\ lost' = TRUE
  /\ UNCHANGED <<mode, out, plugin, session, recorder, tags, job, latch, ui, keys, past>>

-----------------------------------------------------------------------------
(* Parts of the operations. *)

\* (wrong) closes the plugin although no station plays.
LeaveStream_Always == streamMode' = FALSE /\ recorder' = NoUrl /\ session' = NoUrl

\* endRecording(), then close(), of a station that plays.
LeaveStream ==
  /\ streamMode' = FALSE
  /\ recorder' = IF streamMode THEN NoUrl ELSE recorder
  /\ session' = IF streamMode THEN NoUrl ELSE session

\* (wrong) a playback start does not move the generation.
Supersede_Forgotten == UNCHANGED <<gen, workerGen>>

Supersede == gen' = gen + 1 /\ UNCHANGED workerGen

NewTag == gen' = gen + 1 /\ workerGen' = gen + 1

\* (wrong) the file that plays is kept.
Quieten_KeepsFile ==
  /\ cdMode' = FALSE /\ track' = FALSE /\ streamMode' = FALSE /\ file' = file
  /\ device' = FALSE /\ state' = "Stopped" /\ recorder' = NoUrl

Quieten ==
  /\ cdMode' = FALSE /\ track' = FALSE /\ streamMode' = FALSE /\ file' = NoFile
  /\ device' = FALSE /\ state' = "Stopped" /\ recorder' = NoUrl

\* startStreamConnectLocked(): whatever plays stops, and a worker starts.
StartConnect(u) ==
  /\ worker \in {"none", "gone"}
  /\ Quieten /\ NewTag
  /\ connecting' = TRUE /\ done' = FALSE /\ url' = u /\ worker' = "open"
  /\ UNCHANGED ok

\* stop(): the disc, or else the station, or else the file.
StopAll ==
  /\ \/ cdMode /\ UNCHANGED <<streamMode, session, recorder, file>>
     \/ ~cdMode /\ LeaveStream /\ file' = IF streamMode THEN file ELSE NoFile
  /\ cdMode' = FALSE /\ track' = FALSE /\ device' = FALSE /\ state' = "Stopped"
  /\ UNCHANGED <<tags, job>>

\* openCD(): a station or a file ends even when the disc cannot be opened.
OpenDisc(opens) ==
  /\ LeaveStream
  /\ file' = NoFile /\ cdMode' = opens /\ device' = opens

-----------------------------------------------------------------------------
(* One pass of the run loop: pollStreamConnect, what the loop shows, a request. *)

PollQuiet ==
  /\ ui = "poll" /\ ~done
  /\ ui' = "take"
  /\ UNCHANGED <<mode, out, plugin, session, lost, recorder, tags, job, latch, keys, past>>

\* A superseded result is dropped without touching what plays; a failure is reported; a
\* success brings the device up if it can.
Settle(live) ==
  /\ connecting' = FALSE /\ done' = FALSE
  /\ streamMode' = IF Superseded THEN streamMode ELSE live
  /\ device' = (device \/ live)
  /\ state' = IF Superseded THEN state ELSE IF live THEN "Playing" ELSE "Stopped"
  /\ UNCHANGED <<cdMode, track, file, recorder, tags, ok, url, worker>>

\* (wrong) a superseded result ends the poll.
Follow_DropsPending(live) ==
  \/ pending # NoUrl /\ ~Superseded /\ StartConnect(pending) /\ pending' = NoUrl
  \/ (pending = NoUrl \/ Superseded) /\ Settle(live) /\ UNCHANGED pending

\* Latest wins: a station chosen during the connect is started whatever became of it.
Follow(live) ==
  \/ pending # NoUrl /\ StartConnect(pending) /\ pending' = NoUrl
  \/ pending = NoUrl /\ Settle(live) /\ UNCHANGED pending

PollConnect == \E up \in BOOLEAN :
  LET live == ~Superseded /\ ok /\ up IN
  /\ ui = "poll" /\ done /\ ui' = "take"
  /\ session' = IF live THEN session ELSE NoUrl
  /\ connected' = (connected \/ live) /\ failed' = (failed \/ (~Superseded /\ ~live))
  /\ Follow(live)
  /\ UNCHANGED <<plugin, lost, keys, past>>

\* The outcome of a connect is shown once; a station that died is stopped.
Take ==
  /\ ui = "take" /\ ui' = "key"
  /\ connected' = FALSE /\ failed' = FALSE /\ toldFailed' = (toldFailed \/ failed)
  /\ IF streamMode /\ lost THEN StopAll /\ want' = Silence
     ELSE UNCHANGED <<mode, out, session, recorder, tags, job, want>>
  /\ UNCHANGED <<plugin, lost, keys>>

NoKey ==
  /\ ui = "key" /\ ui' = "poll"
  /\ UNCHANGED <<mode, out, plugin, session, lost, recorder, tags, job, latch, keys, past>>

Press(k) == ui = "key" /\ k \in Keys /\ keys < MaxKeys /\ keys' = keys + 1 /\ ui' = "poll"

Ask(r) == want' = r /\ toldFailed' = FALSE

\* play() of a URL: beginStream().  Without the plugin the request is refused.
KeyStation == \E u \in Urls :
  /\ Press("station")
  /\ \/ ~plugin /\ failed' = TRUE
        /\ UNCHANGED <<mode, out, session, recorder, tags, job, past>>
     \/ plugin /\ Ask(u) /\ connecting /\ pending' = u
        /\ UNCHANGED <<mode, out, session, recorder, tags, connecting, done, ok, url, worker, failed>>
     \/ plugin /\ Ask(u) /\ ~connecting /\ StartConnect(u)
        /\ UNCHANGED <<session, pending, failed>>
  /\ UNCHANGED <<plugin, lost, connected>>

\* play() of a file, which may not open or find no device.  A station chosen during the
\* connect before it stays in force.
KeyFile == \E f \in Files, opens \in BOOLEAN :
  /\ Press("file") /\ Ask(IF pending = NoUrl THEN f ELSE pending)
  /\ Supersede /\ LeaveStream
  /\ cdMode' = FALSE /\ track' = FALSE
  /\ file' = IF opens THEN f ELSE NoFile
  /\ device' = opens /\ state' = IF opens THEN "Playing" ELSE "Stopped"
  /\ UNCHANGED <<plugin, lost, job, latch>>

\* Enter, next or previous on a track of the disc: reopenCDForAction(), playCDTrack().
KeyTrack == \E opens \in BOOLEAN :
  /\ Press("track")
  /\ \/ cdMode /\ UNCHANGED <<cdMode, streamMode, file, device, session, recorder>>
     \/ ~cdMode /\ OpenDisc(opens)
  /\ track' = cdMode' /\ state' = IF cdMode' THEN "Playing" ELSE "Stopped"
  /\ \/ cdMode' /\ Supersede /\ Ask(IF pending = NoUrl THEN CD ELSE pending)
     \/ ~cdMode' /\ UNCHANGED tags /\ Ask(IF Awaited THEN want ELSE Silence)
  /\ UNCHANGED <<plugin, lost, job, latch>>

\* activateDrive(): closeCD(), openCD(), and the tracks are listed.
KeyBrowse == \E opens \in BOOLEAN :
  /\ Press("browse") /\ (connecting => BrowseMeetsConnect)
  /\ OpenDisc(opens) /\ track' = FALSE /\ state' = "Stopped"
  /\ Ask(IF Awaited THEN want ELSE Silence)
  /\ UNCHANGED <<plugin, lost, tags, job, latch>>

\* A station being connected is not affected by a stop.
KeyStop ==
  /\ Press("stop") /\ Ask(IF Awaited THEN want ELSE Silence)
  /\ StopAll
  /\ UNCHANGED <<plugin, lost, latch>>

KeyPause ==
  /\ Press("pause")
  /\ state' = CASE state = "Playing" -> "Paused"
                [] state = "Paused"  -> "Playing"
                [] OTHER             -> IF cdMode THEN "Paused" ELSE state
  /\ UNCHANGED <<mode, device, plugin, session, lost, recorder, tags, job, latch, past>>

\* setDevice(): a disc or a station keeps its source and gets a new device, a file is
\* opened again; each may fail.
KeyDevice == \E up, opens \in BOOLEAN :
  /\ Press("device")
  /\ \/ /\ (streamMode \/ cdMode) /\ device
        /\ device' = up /\ UNCHANGED <<file, state>>
     \/ /\ ~((streamMode \/ cdMode) /\ device) /\ state # "Stopped" /\ file # NoFile
        /\ file' = IF opens THEN file ELSE NoFile
        /\ device' = (opens /\ up) /\ state' = IF opens /\ up THEN "Playing" ELSE "Stopped"
     \/ /\ ~((streamMode \/ cdMode) /\ device) /\ (state = "Stopped" \/ file = NoFile)
        /\ UNCHANGED <<file, device, state>>
  /\ UNCHANGED <<cdMode, track, streamMode, plugin, session, lost, recorder, tags, job, latch, past>>

\* [Rec]: beginRecording().
KeyRecord ==
  /\ Press("record") /\ streamMode /\ recorder = NoUrl
  /\ recorder' = session
  /\ UNCHANGED <<mode, out, plugin, session, lost, tags, job, latch, past>>

Key == \/ KeyStation \/ KeyFile \/ KeyTrack \/ KeyBrowse \/ KeyStop \/ KeyPause \/ KeyDevice
       \/ KeyRecord

UI == PollQuiet \/ PollConnect \/ Take \/ NoKey \/ Key
Worker == WorkerOpens \/ WorkerReports \/ WorkerDone

Next == UI \/ Worker \/ StationLost

\* The loop runs, and every connection is answered or times out (kConnectTimeoutMs,
\* kHandshakeIoMs); nobody has to press a key and no station has to die.
Spec == Init /\ [][Next]_vars
FairSpec == Spec /\ WF_vars(UI) /\ WF_vars(Worker)

-----------------------------------------------------------------------------
(* Properties. *)

TypeOK ==
  /\ {cdMode, track, streamMode, device, plugin, lost, connecting, done, ok, connected, failed,
      toldFailed} \subseteq BOOLEAN
  /\ file \in Files \cup {NoFile} /\ {session, recorder, url, pending} \subseteq Urls \cup {NoUrl}
  /\ state \in {"Stopped", "Playing", "Paused"}
  /\ gen \in Nat /\ workerGen \in 0 .. gen
  /\ worker \in {"none", "open", "report", "finish", "gone"}
  /\ ui \in {"poll", "take", "key"} /\ keys \in 0 .. MaxKeys
  /\ want \in Urls \cup Files \cup {CD, Silence}

\* The branch the audio callback takes.
Sound ==
  IF ~device \/ state # "Playing" THEN Silence
  ELSE IF streamMode THEN session
  ELSE IF cdMode THEN (IF track THEN CD ELSE Silence)
  ELSE IF file # NoFile THEN file ELSE Silence

\* What is heard is what was asked for last, never the late result of an older request.
\* A stop or the opening of a disc does not withdraw a station that is being connected,
\* and a station chosen during a connect outlives a file or a track chosen after it: they
\* are heard only until the connect is over.
LastRequestHeard == Sound # Silence => (Sound = want \/ Awaited)

\* One source at a time owns the device: "discard this stream without touching the device
\* or state the new playback now owns".
OneSource ==
  /\ ~(cdMode /\ streamMode)
  /\ file # NoFile => ~cdMode /\ ~streamMode

\* "A single worker ever touches stream_plugin_": while it opens a station, no operation
\* of the user-interface thread closes the plugin under it.
OpenUndisturbed == [][worker = "open" => session' = session \/ worker' = "report"]_vars

\* A station that is asked for is heard, or its failure is shown when no connect runs any
\* more, unless something else is asked for.
StationAnswered == \A u \in Urls :
  (want = u) ~> (want # u \/ (~connecting /\ ((streamMode /\ session = u) \/ toldFailed)))
=============================================================================
