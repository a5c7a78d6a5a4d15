---------------------------- MODULE AudioHandoff ----------------------------
(***************************************************************************)
(* Local-file playback in AudioManager: the UI thread arms a second source *)
(* (preloadNext), the device's audio callback swaps it in (initCrossfade), *)
(* and the UI thread accounts for the swap on a later tick (pollEvents).   *)
(*                                                                         *)
(* There are two threads.  state_mutex_ is taken by UI-thread operations   *)
(* only, so it orders nothing between them: what orders them is the atomic *)
(* flags and ma_device_stop, which blocks until the callback has returned. *)
(* A UI operation is one step where the device is quiesced, and one step   *)
(* per access to shared state where it is not.  Steps are sequentially     *)
(* consistent.                                                             *)
(*                                                                         *)
(* Definitions marked (wrong) are not part of the specification: each is a *)
(* plausible bug in the definition after it, for testing the properties.   *)
(***************************************************************************)
EXTENDS Naturals

CONSTANTS
  Tracks,   \* the files that can be opened (paths)
  Ids,      \* numbers that tell the LocalFileSources on one track apart
  NoTrack,  \* the empty path
  NoSrc     \* the null unique_ptr

\* A source object: the file it was opened on, and which source on it it is.
Sources == [id: Ids, track: Tracks]

ASSUME HandoffConstants ==
  /\ NoTrack \notin Tracks
  /\ NoSrc \notin Sources

VARIABLES
  state,      \* state_: "Stopped", "Playing", "Paused"
  device,     \* "none" (uninitialised), "stopped", "started"
  current,    \* current_track_.path, the identity the UI shows
  nextInfo,   \* next_track_info_.path: payload of a swap AND info of an arm
  repeatOne,  \* repeat_one_
  file,       \* file_src_, the audible source
  next,       \* next_src_, the armed source
  retired,    \* retired_src_, the source the last swap replaced
  armed,      \* next_decoder_initialised_
  crossfading,\* crossfading_
  swapFlag,   \* track_swap_flag_
  preloadFlag,\* preload_next_flag_: a fade completed
  ended,      \* track_ended_flag_
  advanced,   \* track_end_advanced_: the end was a gapless splice
  ui,         \* the UI thread: its step, the path the operation works on, the
              \* source it holds a pointer to, where the operation returns
  cb          \* the audio callback: its step, whether the read came up short,
              \* and how the callback ends the track

uiVars    == <<state, device, repeatOne>>
infoVars  == <<current, nextInfo>>
srcVars   == <<file, next, retired>>
fadeVars  == <<armed, crossfading>>
eventVars == <<preloadFlag, ended, advanced>>
vars == <<uiVars, infoVars, srcVars, fadeVars, swapFlag, eventVars, ui, cb>>

\* Where the UI thread can call AudioManager from: a key in the run loop, the
\* reconcile poll after pollEvents, or on_track_end_ inside pollEvents.
Callers == {"idle", "polled", "on_ended"}

UiSteps == Callers \cup {
  "drain", "unpublish", "fade_check", "quiesce", "free", "open", "publish",
  "play_stop", "play_started", "stop_stop", "pause_stop", "setdev_stop",
  "pos_load", "pos_use",
  "poll_preload", "on_preload", "poll_ended", "on_end", "on_advanced"}

CbSteps == {"idle", "trigger", "read", "mix", "splice",
  "swap", "retire", "take", "unpublish", "flag_swap",
  "fade_done", "flag_preload", "mark", "flag_ended"}

FlagsOK ==
  /\ repeatOne \in BOOLEAN /\ armed \in BOOLEAN /\ crossfading \in BOOLEAN
  /\ swapFlag \in BOOLEAN /\ preloadFlag \in BOOLEAN
  /\ ended \in BOOLEAN /\ advanced \in BOOLEAN

DataOK ==
  /\ state \in {"Stopped", "Playing", "Paused"}
  /\ device \in {"none", "stopped", "started"}
  /\ current \in Tracks \cup {NoTrack} /\ nextInfo \in Tracks \cup {NoTrack}
  /\ file \in Sources \cup {NoSrc} /\ next \in Sources \cup {NoSrc}
  /\ retired \in Sources \cup {NoSrc}
  /\ ui \in [pc: UiSteps, arg: Tracks \cup {NoTrack},
             ref: Sources \cup {NoSrc}, ret: {"idle", "on_ended"}]
  /\ cb \in [pc: CbSteps, read: {"full", "short"},
             how: {"none", "fade", "splice", "silence"}]

TypeOK == FlagsOK /\ DataOK

UiIdle == [pc |-> "idle", arg |-> NoTrack, ref |-> NoSrc, ret |-> "idle"]
CbIdle == [pc |-> "idle", read |-> "full", how |-> "none"]

Init ==
  /\ state = "Stopped" /\ device = "none" /\ repeatOne \in BOOLEAN
  /\ current = NoTrack /\ nextInfo = NoTrack
  /\ file = NoSrc /\ next = NoSrc /\ retired = NoSrc
  /\ armed = FALSE /\ crossfading = FALSE /\ swapFlag = FALSE
  /\ preloadFlag = FALSE /\ ended = FALSE /\ advanced = FALSE
  /\ ui = UiIdle
  /\ cb = CbIdle

(***************************************************************************)
(* Helpers.                                                                *)
(***************************************************************************)

\* A number that no source on t which is owned or pointed to goes by.
FreshId(t) ==
  CHOOSE i \in Ids : [id |-> i, track |-> t] \notin {file, next, retired, ui.ref}

\* The source that opening t yields (none where the numbers have run out).
Opened(t) == {s \in Sources \ {file, next, retired, ui.ref} : s = [id |-> FreshId(t), track |-> t]}

UiAt(step)   == ui.pc = step
UiGoto(step) == ui' = [ui EXCEPT !.pc = step]
UiCall(step, t) ==
  /\ ui.pc \in Callers
  /\ ui' = [pc |-> step, arg |-> t, ref |-> NoSrc,
            ret |-> IF UiAt("on_ended") THEN "on_ended" ELSE "idle"]
UiReturn == ui' = [UiIdle EXCEPT !.pc = ui.ret]

CbAt(step)   == cb.pc = step
CbAfter(step, read, how) == [pc |-> step, read |-> read, how |-> how]
CbGoto(step) == cb' = [cb EXCEPT !.pc = step]

\* (wrong) ma_device_stop replaced by a stop that does not wait.
Quiesced_NoWait == TRUE

\* ma_device_stop returns only when no callback is running and none will start.
Quiesced == CbAt("idle")

\* (wrong) the retired source is left for the callback to overwrite.
InstallPendingSwap_NoReap ==
  /\ swapFlag' = FALSE
  /\ current' = IF swapFlag THEN nextInfo ELSE current
  /\ UNCHANGED retired

\* (wrong) the flag is consumed without installing the identity.
InstallPendingSwap_NoTitle ==
  /\ swapFlag' = FALSE
  /\ UNCHANGED current
  /\ retired' = IF swapFlag THEN NoSrc ELSE retired

\* installPendingSwap: the identity follows the audio, and the source the swap
\* retired is freed on this thread.
InstallPendingSwap ==
  /\ swapFlag' = FALSE
  /\ current' = IF swapFlag THEN nextInfo ELSE current
  /\ retired' = IF swapFlag THEN NoSrc ELSE retired

(***************************************************************************)
(* UI thread: clearNext(), and preloadNext(t) which runs the same          *)
(* teardownNext before it opens and publishes.  The audio callback may run *)
(* between any two of these steps.                                         *)
(***************************************************************************)

ClearNext == UiCall("drain", NoTrack)
             /\ UNCHANGED <<uiVars, infoVars, srcVars, fadeVars, swapFlag, eventVars, cb>>

PreloadNext(t) == ui.pc # "on_ended" /\ UiCall("drain", t)
                  /\ UNCHANGED <<uiVars, infoVars, srcVars, fadeVars, swapFlag, eventVars, cb>>

TeardownNextDrain ==
  /\ UiAt("drain")
  /\ InstallPendingSwap
  /\ UiGoto("unpublish")
  /\ UNCHANGED <<uiVars, nextInfo, file, next, fadeVars, eventVars, cb>>

TeardownNextUnpublish ==
  /\ UiAt("unpublish")
  /\ armed' = FALSE
  /\ UiGoto(IF armed THEN "fade_check" ELSE "free")
  /\ UNCHANGED <<uiVars, infoVars, srcVars, crossfading, swapFlag, eventVars, cb>>

\* (wrong) a paused device is restarted along with the running one.
TeardownNextFadeCheck_Paused ==
  /\ UiAt("fade_check")
  /\ UiGoto(IF crossfading /\ device # "none" THEN "quiesce" ELSE "free")
  /\ UNCHANGED <<uiVars, infoVars, srcVars, fadeVars, swapFlag, eventVars, cb>>

TeardownNextFadeCheck ==
  /\ UiAt("fade_check")
  /\ UiGoto(IF crossfading /\ device = "started" THEN "quiesce" ELSE "free")
  /\ UNCHANGED <<uiVars, infoVars, srcVars, fadeVars, swapFlag, eventVars, cb>>

\* Device stopped, fade abandoned, source freed, device started again.
TeardownNextQuiesce ==
  /\ UiAt("quiesce")
  /\ Quiesced
  /\ crossfading' = FALSE
  /\ next' = NoSrc
  /\ device' = "started"
  /\ UiGoto("free")
  /\ UNCHANGED <<state, repeatOne, infoVars, file, retired, armed, swapFlag, eventVars, cb>>

TeardownNextFree ==
  /\ UiAt("free")
  /\ next' = NoSrc
  /\ IF ui.arg = NoTrack THEN UiReturn ELSE UiGoto("open")
  /\ UNCHANGED <<uiVars, infoVars, file, retired, fadeVars, swapFlag, eventVars, cb>>

\* The file may be unreadable; the info is overwritten only by an opened one.
PreloadNextOpen ==
  /\ UiAt("open")
  /\ \/ /\ UiReturn
        /\ UNCHANGED <<nextInfo, next>>
     \/ /\ nextInfo' = ui.arg
        /\ next' \in Opened(ui.arg)
        /\ UiGoto("publish")
  /\ UNCHANGED <<uiVars, current, file, retired, fadeVars, swapFlag, eventVars, cb>>

PreloadNextPublish ==
  /\ UiAt("publish")
  /\ armed' = TRUE
  /\ UiReturn
  /\ UNCHANGED <<uiVars, infoVars, srcVars, crossfading, swapFlag, eventVars, cb>>

(***************************************************************************)
(* UI thread: play, stop, setDevice, pause and resume.  Each first stores  *)
(* what teardown() stores before ma_device_stop, with the callback still   *)
(* running, and does the rest with the device quiesced.                    *)
(***************************************************************************)

TeardownBegin(step, t) ==
  /\ UiCall(step, t)
  /\ state' = "Stopped"
  /\ crossfading' = FALSE
  /\ UNCHANGED <<device, repeatOne, infoVars, srcVars, armed, swapFlag, eventVars, cb>>

Play(t) == TeardownBegin("play_stop", t)

\* (wrong) the end-of-track flags survive the teardown.
TeardownAll_KeepsEnded ==
  /\ Quiesced
  /\ swapFlag' = FALSE
  /\ next' = NoSrc /\ retired' = NoSrc
  /\ armed' = FALSE
  /\ UNCHANGED <<ended, advanced>>

\* teardown + teardownNext with the device gone: the pending swap's identity is
\* installed, every source is freed, the end-of-track flags are cleared.
\* preload_next_flag_ is not among them.
TeardownAll ==
  /\ Quiesced
  /\ swapFlag' = FALSE
  /\ next' = NoSrc /\ retired' = NoSrc
  /\ armed' = FALSE
  /\ ended' = FALSE /\ advanced' = FALSE

PlayOpen ==
  /\ UiAt("play_stop")
  /\ TeardownAll
  /\ \/ /\ current' = IF swapFlag THEN nextInfo ELSE current  \* unreadable file
        /\ file' = NoSrc /\ device' = "none"
        /\ UiReturn
        /\ UNCHANGED crossfading
     \/ /\ current' = ui.arg                                  \* initDevice failed
        /\ file' = NoSrc /\ device' = "none"
        /\ crossfading' = FALSE
        /\ UiReturn
     \/ /\ current' = ui.arg
        /\ file' \in Opened(ui.arg) /\ device' = "started"
        /\ UiGoto("play_started")
        /\ UNCHANGED crossfading
  /\ UNCHANGED <<state, repeatOne, nextInfo, preloadFlag, cb>>

\* The device already runs: state and a second clear of the end flags follow.
PlayStarted ==
  /\ UiAt("play_started")
  /\ state' = "Playing"
  /\ ended' = FALSE /\ advanced' = FALSE
  /\ UiReturn
  /\ UNCHANGED <<device, repeatOne, infoVars, srcVars, fadeVars, swapFlag, preloadFlag, cb>>

Stop == TeardownBegin("stop_stop", NoTrack)

StopFinish ==
  /\ UiAt("stop_stop")
  /\ TeardownAll
  /\ file' = NoSrc /\ device' = "none"
  /\ current' = NoTrack
  /\ UiReturn
  /\ UNCHANGED <<state, repeatOne, nextInfo, crossfading, preloadFlag, cb>>

\* setDevice in file mode reopens current_track_.path, and keeps the armed
\* source and a pending swap as they are.
SetDevice ==
  /\ UiAt("idle")
  /\ state # "Stopped" /\ file # NoSrc
  /\ TeardownBegin("setdev_stop", current)

SetDeviceFinish ==
  /\ UiAt("setdev_stop")
  /\ Quiesced
  /\ retired' = NoSrc
  /\ \/ file' = NoSrc /\ device' = "none" /\ UNCHANGED state
     \/ file' \in Opened(ui.arg) /\ device' = "none" /\ UNCHANGED state
     \/ file' \in Opened(ui.arg) /\ device' = "started" /\ state' = "Playing"
  /\ UiReturn
  /\ UNCHANGED <<repeatOne, infoVars, next, fadeVars, swapFlag, eventVars, cb>>

Pause ==
  /\ UiAt("idle") /\ state = "Playing"
  /\ UiCall("pause_stop", NoTrack)
  /\ state' = "Paused"
  /\ UNCHANGED <<device, repeatOne, infoVars, srcVars, fadeVars, swapFlag, eventVars, cb>>

PauseFinish ==
  /\ UiAt("pause_stop")
  /\ Quiesced
  /\ device' = "stopped"
  /\ UiReturn
  /\ UNCHANGED <<state, repeatOne, infoVars, srcVars, fadeVars, swapFlag, eventVars, cb>>

Resume ==
  /\ UiAt("idle") /\ state = "Paused"
  /\ state' = "Playing" /\ device' = "started"
  /\ UNCHANGED <<repeatOne, infoVars, srcVars, fadeVars, swapFlag, eventVars, ui, cb>>

SetRepeatOne(on) ==
  /\ UiAt("idle")
  /\ repeatOne' = on
  /\ UNCHANGED <<state, device, infoVars, srcVars, fadeVars, swapFlag, eventVars, ui, cb>>

(***************************************************************************)
(* UI thread: positionSec(), which tests file_src_, loads it again and     *)
(* calls through it, racing the swap on the audio thread.  (A build that   *)
(* loads it once behaves as the one in which nothing happens in between.)  *)
(***************************************************************************)

PositionTest ==
  /\ UiAt("idle") /\ file # NoSrc
  /\ UiGoto("pos_load")
  /\ UNCHANGED <<uiVars, infoVars, srcVars, fadeVars, swapFlag, eventVars, cb>>

PositionLoad ==
  /\ UiAt("pos_load")
  /\ ui' = [ui EXCEPT !.pc = "pos_use", !.ref = file]
  /\ UNCHANGED <<uiVars, infoVars, srcVars, fadeVars, swapFlag, eventVars, cb>>

PositionUse ==
  /\ UiAt("pos_use")
  /\ ui' = UiIdle
  /\ UNCHANGED <<uiVars, infoVars, srcVars, fadeVars, swapFlag, eventVars, cb>>

(***************************************************************************)
(* UI thread: pollEvents.  The steps named on_* are inside the callbacks   *)
(* the application installed; a client module says what they do.           *)
(***************************************************************************)

PollInstall ==
  /\ UiAt("idle")
  /\ InstallPendingSwap
  /\ UiGoto("poll_preload")
  /\ UNCHANGED <<uiVars, nextInfo, file, next, fadeVars, eventVars, cb>>

PollPreload ==
  /\ UiAt("poll_preload")
  /\ preloadFlag' = FALSE
  /\ UiGoto(IF preloadFlag THEN "on_preload" ELSE "poll_ended")
  /\ UNCHANGED <<uiVars, infoVars, srcVars, fadeVars, swapFlag, ended, advanced, cb>>

PollEnded ==
  /\ UiAt("poll_ended")
  /\ ended' = FALSE
  /\ UiGoto(IF ended THEN "on_end" ELSE "polled")
  /\ UNCHANGED <<uiVars, infoVars, srcVars, fadeVars, swapFlag, preloadFlag, advanced, cb>>

\* takeTrackEndAdvanced, the first thing the track-end callback asks.
TakeTrackEndAdvanced ==
  /\ UiAt("on_end")
  /\ advanced' = FALSE
  /\ UiGoto(IF advanced THEN "on_advanced" ELSE "on_ended")
  /\ UNCHANGED <<uiVars, infoVars, srcVars, fadeVars, swapFlag, preloadFlag, ended, cb>>

CallbackReturns ==
  /\ \/ UiAt("on_preload") /\ UiGoto("poll_ended")
     \/ ui.pc \in {"on_advanced", "on_ended"} /\ UiGoto("polled")
  /\ UNCHANGED <<uiVars, infoVars, srcVars, fadeVars, swapFlag, eventVars, cb>>

PollReturns ==
  /\ UiAt("polled") /\ UiGoto("idle")
  /\ UNCHANGED <<uiVars, infoVars, srcVars, fadeVars, swapFlag, eventVars, cb>>

(***************************************************************************)
(* Audio thread: one onDataCallback in file mode.  Where the track is near *)
(* its end, comes up short, or a fade reaches full gain is nondeterministic*)
(* - lengths, positions and crossfade_secs are abstracted to that.         *)
(***************************************************************************)

CbUnchangedUi == UNCHANGED <<uiVars, infoVars, ui>>

CallbackBegin ==
  /\ CbAt("idle")
  /\ device = "started" /\ file # NoSrc
  /\ \E near \in BOOLEAN :
       CbGoto(IF near /\ armed /\ ~crossfading /\ ~repeatOne THEN "trigger" ELSE "read")
  /\ CbUnchangedUi /\ UNCHANGED <<srcVars, fadeVars, swapFlag, eventVars>>

CallbackTrigger ==
  /\ CbAt("trigger")
  /\ crossfading' = TRUE
  /\ CbGoto("read")
  /\ CbUnchangedUi /\ UNCHANGED <<srcVars, armed, swapFlag, eventVars>>

\* The read of file_src_, then the choice of mix, splice, silence or return.
CallbackRead ==
  /\ CbAt("read")
  /\ \E read \in {"full", "short"} :
       cb' = IF crossfading /\ armed THEN CbAfter("mix", read, "none")
             ELSE IF read = "full" THEN CbIdle
             ELSE IF armed /\ ~repeatOne THEN CbAfter("splice", read, "none")
             ELSE CbAfter("mark", read, "silence")
  /\ CbUnchangedUi /\ UNCHANGED <<srcVars, fadeVars, swapFlag, eventVars>>

\* The decoder threw: the end is signalled, track_end_advanced_ is left alone.
CallbackThrow ==
  /\ CbAt("read")
  /\ ended' = TRUE
  /\ cb' = CbIdle
  /\ CbUnchangedUi /\ UNCHANGED <<srcVars, fadeVars, swapFlag, preloadFlag, advanced>>

\* Reads next_src_; at full gain, or when the current track ran out, swaps.
CallbackMix ==
  /\ CbAt("mix")
  /\ \E full \in BOOLEAN :
       cb' = IF full \/ cb.read = "short" THEN CbAfter("swap", cb.read, "fade") ELSE CbIdle
  /\ CbUnchangedUi /\ UNCHANGED <<srcVars, fadeVars, swapFlag, eventVars>>

\* Fills the rest of the buffer from next_src_.
CallbackSplice ==
  /\ CbAt("splice")
  /\ cb' = CbAfter("swap", cb.read, "splice")
  /\ CbUnchangedUi /\ UNCHANGED <<srcVars, fadeVars, swapFlag, eventVars>>

AfterSwap == IF cb.how = "fade" THEN "fade_done" ELSE "mark"

\* initCrossfade: nothing armed - return; repeat-one - rewind and un-publish.
InitCrossfadeEnter ==
  /\ CbAt("swap")
  /\ armed' = (armed /\ ~repeatOne)
  /\ CbGoto(IF armed /\ ~repeatOne THEN "retire" ELSE AfterSwap)
  /\ CbUnchangedUi /\ UNCHANGED <<srcVars, crossfading, swapFlag, eventVars>>

\* (wrong) the swap destroys the outgoing source on the audio thread.
InitCrossfadeRetire_Frees ==
  /\ CbAt("retire")
  /\ file' = NoSrc
  /\ CbGoto("take")
  /\ CbUnchangedUi /\ UNCHANGED <<retired, next, fadeVars, swapFlag, eventVars>>

\* retired_src_ = move(file_src_): a source still in retired_src_ is freed here.
InitCrossfadeRetire ==
  /\ CbAt("retire")
  /\ retired' = file /\ file' = NoSrc
  /\ CbGoto("take")
  /\ CbUnchangedUi /\ UNCHANGED <<next, fadeVars, swapFlag, eventVars>>

InitCrossfadeTake ==
  /\ CbAt("take")
  /\ file' = next /\ next' = NoSrc
  /\ CbGoto("unpublish")
  /\ CbUnchangedUi /\ UNCHANGED <<retired, fadeVars, swapFlag, eventVars>>

InitCrossfadeUnpublish ==
  /\ CbAt("unpublish")
  /\ armed' = FALSE
  /\ CbGoto("flag_swap")
  /\ CbUnchangedUi /\ UNCHANGED <<srcVars, crossfading, swapFlag, eventVars>>

InitCrossfadeFlag ==
  /\ CbAt("flag_swap")
  /\ swapFlag' = TRUE
  /\ CbGoto(AfterSwap)
  /\ CbUnchangedUi /\ UNCHANGED <<srcVars, fadeVars, eventVars>>

CallbackFadeDone ==
  /\ CbAt("fade_done")
  /\ crossfading' = FALSE
  /\ CbGoto("flag_preload")
  /\ CbUnchangedUi /\ UNCHANGED <<srcVars, armed, swapFlag, eventVars>>

CallbackFlagPreload ==
  /\ CbAt("flag_preload")
  /\ preloadFlag' = TRUE
  /\ cb' = CbIdle
  /\ CbUnchangedUi /\ UNCHANGED <<srcVars, fadeVars, swapFlag, ended, advanced>>

\* (wrong) a spliced end is reported like a silent one.
CallbackMark_NeverAdvanced ==
  /\ CbAt("mark")
  /\ advanced' = FALSE
  /\ CbGoto("flag_ended")
  /\ CbUnchangedUi /\ UNCHANGED <<srcVars, fadeVars, swapFlag, preloadFlag, ended>>

CallbackMark ==
  /\ CbAt("mark")
  /\ advanced' = (cb.how = "splice")
  /\ CbGoto("flag_ended")
  /\ CbUnchangedUi /\ UNCHANGED <<srcVars, fadeVars, swapFlag, preloadFlag, ended>>

CallbackFlagEnded ==
  /\ CbAt("flag_ended")
  /\ ended' = TRUE
  /\ cb' = CbIdle
  /\ CbUnchangedUi /\ UNCHANGED <<srcVars, fadeVars, swapFlag, preloadFlag, advanced>>

-----------------------------------------------------------------------------

AudioCallback ==
  \/ CallbackBegin \/ CallbackTrigger \/ CallbackRead \/ CallbackThrow
  \/ CallbackMix \/ CallbackSplice
  \/ InitCrossfadeEnter \/ InitCrossfadeRetire \/ InitCrossfadeTake
  \/ InitCrossfadeUnpublish \/ InitCrossfadeFlag
  \/ CallbackFadeDone \/ CallbackFlagPreload \/ CallbackMark \/ CallbackFlagEnded

\* What an operation does once it has been called.
UiContinue ==
  \/ TeardownNextDrain \/ TeardownNextUnpublish \/ TeardownNextFadeCheck
  \/ TeardownNextQuiesce \/ TeardownNextFree
  \/ PreloadNextOpen \/ PreloadNextPublish
  \/ PlayOpen \/ PlayStarted \/ StopFinish \/ SetDeviceFinish \/ PauseFinish
  \/ PositionLoad \/ PositionUse
  \/ PollPreload \/ PollEnded \/ TakeTrackEndAdvanced

\* Any client: it may call anything at any time.
UiCallAny ==
  \/ \E t \in Tracks : Play(t) \/ PreloadNext(t)
  \/ ClearNext \/ Stop \/ SetDevice \/ Pause \/ Resume
  \/ \E on \in BOOLEAN : SetRepeatOne(on)
  \/ PositionTest \/ PollInstall

Next == AudioCallback \/ UiContinue \/ UiCallAny \/ CallbackReturns \/ PollReturns

Spec == Init /\ [][Next]_vars

-----------------------------------------------------------------------------
(***************************************************************************)
(* Properties that hold for every client.                                  *)
(***************************************************************************)

\* The callback never reads a current source that has been freed: play, stop
\* and setDevice free file_src_ only inside the quiesced window.
FileSrcLive == cb.pc \in {"trigger", "read", "mix", "splice"} => file # NoSrc

\* A source that the UI thread's positionSec has got hold of is not freed under it,
\* however the swap on the audio thread interleaves: the outgoing source is retired,
\* and reaped only by the UI thread itself (comment on initCrossfade).  That it gets
\* hold of one at all is PositionNeverNull, which does not hold.
PositionReaderLive == UiAt("pos_use") => ui.ref \in {file, retired, NoSrc}

\* Why it does: while positionSec holds a source, either that is still the
\* current one or the swap that retired it has not come back - and the next
\* swap, which would free it, needs a source armed by this thread.
PositionInv ==
  /\ CbAt("take") => file = NoSrc
  /\ UiAt("pos_use") =>
       \/ ui.ref \in {file, NoSrc}
       \/ /\ ui.ref = retired /\ ~CbAt("retire")
          /\ armed => cb.pc \in {"take", "unpublish"}

(***************************************************************************)
(* Claims of the comments, checked by runs of their own.                   *)
(***************************************************************************)

\* "a UI-thread positionSec() racing this swap can only ever dereference a live
\* decoder" (initCrossfade): the source positionSec follows is there.  (Broken by the
\* code: the swap empties file_src_ between the test and the second load.)
PositionNeverNull == UiAt("pos_use") => ui.ref # NoSrc

\* "every such read is gated on this flag ... the decoder is safe to free"
\* (teardownNext): the callback reads next_src_ only while it is owned.
NextSrcLive == cb.pc \in {"mix", "splice"} => next # NoSrc

\* "the free happens on the main thread, never in the audio callback"
\* (installPendingSwap): nothing is in retired_src_ when a swap moves into it.
NoFreeInCallback == CbAt("retire") => retired = NoSrc
=============================================================================
