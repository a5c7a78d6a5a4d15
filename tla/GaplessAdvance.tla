--------------------------- MODULE GaplessAdvance ---------------------------
(***************************************************************************)
(* AudioHandoff driven by its real client: the UI run loop.  Every tick    *)
(* polls (pollEvents, whose callbacks account for swaps and track ends in  *)
(* the playlist and the queue), then reconciles what is armed with what    *)
(* should play next (NextArm.h), then takes a key.  The playlist here is a *)
(* fixed list of rows without shuffle; Playlist.tla has the rest of it.    *)
(* Definitions marked (wrong) are not part of the specification: each is a *)
(* plausible bug in the definition after it, for testing the properties.   *)
(***************************************************************************)
EXTENDS AudioHandoff, Sequences

CONSTANTS
  Rows,       \* the playlist: a sequence of distinct tracks
  QueueCap,   \* bound on the length of the play queue
  Keys,       \* the inputs the user gives in this instance
  OutlastsTick,\* TRUE: every track sounds for longer than one pass of the run
              \* loop; FALSE: a track may be shorter, or the loop be held up
  ReadsThrow  \* whether a decoder's read may throw (they report errors as
              \* short reads; an allocation may still fail)

ASSUME AdvanceConstants ==
  /\ Rows \in Seq(Tracks) /\ Rows # <<>>
  /\ \A i, j \in DOMAIN Rows : Rows[i] = Rows[j] => i = j
  /\ QueueCap \in Nat
  /\ OutlastsTick \in BOOLEAN /\ ReadsThrow \in BOOLEAN
  /\ Keys \subseteq {"start", "enter", "next", "queue", "unqueue", "repeat", "pause", "stop", "device"}

VARIABLES
  index,      \* PlaylistManager::current_, counted from 1
  queue,      \* play_queue_
  armedNext,  \* armed_next_: the last path preloadNext accepted
  failedNext, \* failed_next_: the path preloadNext last refused
  heard,      \* how long file_src_ has sounded: 0 - less than a tick, 1 - a
              \* pollEvents began since, 2 - that tick is over
  task        \* what the key handler or the track-end callback still has to
              \* do: "ask" - decide, "play" t - clearNext is running and
              \* play(t) follows, "done" - nothing more

advVars == <<index, queue, armedNext, failedNext, task>>
allVars == <<vars, advVars, heard>>

Ask == [step |-> "ask", track |-> NoTrack]
Then(t) == [step |-> "play", track |-> t]
Done == [step |-> "done", track |-> NoTrack]

AdvTypeOK ==
  /\ TypeOK
  /\ index \in DOMAIN Rows
  /\ queue \in Seq(Tracks) /\ Len(queue) <= QueueCap
  /\ {armedNext, failedNext} \subseteq Tracks \cup {NoTrack}
  /\ heard \in 0..2
  /\ task \in [step: {"ask", "play", "done"}, track: Tracks \cup {NoTrack}]

AdvInit ==
  /\ Init /\ ~repeatOne
  /\ index = 1 /\ queue = <<>>
  /\ armedNext = NoTrack /\ failedNext = NoTrack
  /\ heard = 0 /\ task = Ask

-----------------------------------------------------------------------------
(* What plays next.                                                        *)

HasNextRow == index < Len(Rows)

PeekNext == IF HasNextRow THEN Rows[index + 1] ELSE NoTrack

\* resolveNextPath: nothing under repeat-one, else the queue head, else the
\* next row.
ResolveNextPath ==
  IF repeatOne THEN NoTrack
  ELSE IF queue # <<>> THEN Head(queue)
  ELSE PeekNext

\* next(): at the last row the index stays.
AdvanceIndex == index' = IF HasNextRow THEN index + 1 ELSE index

-----------------------------------------------------------------------------
(* reconcileNextArm, on the tick after pollEvents.                         *)

\* (wrong) trusts the mirror after the arm was dropped by play().
ReconcileKeeps_StaleMirror ==
  ResolveNextPath = failedNext \/ armedNext = ResolveNextPath

ReconcileClears == ResolveNextPath = NoTrack
ReconcileKeeps  == \/ ResolveNextPath = failedNext
                   \/ armed /\ armedNext = ResolveNextPath

Reconcile ==
  /\ UiAt("polled")
  /\ IF state = "Stopped" \/ crossfading
       THEN PollReturns /\ UNCHANGED <<armedNext, failedNext>>
     ELSE IF ReconcileClears
       THEN /\ IF armed THEN ClearNext ELSE PollReturns
            /\ armedNext' = NoTrack /\ failedNext' = NoTrack
     ELSE IF ReconcileKeeps
       THEN PollReturns /\ UNCHANGED <<armedNext, failedNext>>
     ELSE PreloadNext(ResolveNextPath) /\ UNCHANGED <<armedNext, failedNext>>
  /\ UNCHANGED <<index, queue, task>>

\* The mirrors follow what preloadNext returned.
PreloadResult ==
  \/ /\ PreloadNextOpen
     /\ IF ui'.pc = "publish" THEN UNCHANGED <<armedNext, failedNext>>
        ELSE failedNext' = ui.arg /\ armedNext' = NoTrack
     /\ UNCHANGED <<index, queue, task>>
  \/ /\ PreloadNextPublish
     /\ armedNext' = ui.arg /\ failedNext' = NoTrack
     /\ UNCHANGED <<index, queue, task>>

-----------------------------------------------------------------------------
(* The callbacks main.cpp installs.                                        *)

\* Account for a completed swap: consume the queue head if it is what swapped
\* in, else advance the row - but only with an empty queue and repeat-one off.
AccountSwap ==
  IF queue # <<>> /\ Head(queue) = current
    THEN queue' = Tail(queue) /\ UNCHANGED index
  ELSE IF queue = <<>> /\ ~repeatOne
    THEN AdvanceIndex /\ UNCHANGED queue
  ELSE UNCHANGED <<index, queue>>

OnPreload ==
  /\ UiAt("on_preload")
  /\ CallbackReturns /\ AccountSwap
  /\ UNCHANGED <<armedNext, failedNext, task>>

OnTrackEndAdvanced ==
  /\ UiAt("on_advanced")
  /\ CallbackReturns /\ AccountSwap
  /\ UNCHANGED <<armedNext, failedNext, task>>

\* The track ended into silence: queue head, else the same row under
\* repeat-one, else the next row, else stop.
OnTrackEnded ==
  /\ UiAt("on_ended") /\ task = Ask
  /\ \/ /\ queue # <<>>
        /\ queue' = Tail(queue)
        /\ task' = Then(Head(queue))
        /\ ClearNext
        /\ UNCHANGED index
     \/ /\ queue = <<>> /\ repeatOne
        /\ Play(Rows[index])
        /\ task' = Done
        /\ UNCHANGED <<index, queue>>
     \/ /\ queue = <<>> /\ ~repeatOne
        /\ IF HasNextRow THEN Play(Rows[index + 1]) ELSE Stop
        /\ AdvanceIndex
        /\ task' = Done
        /\ UNCHANGED queue
  /\ UNCHANGED <<armedNext, failedNext>>

\* clearNext has returned: play what was popped.
PlayPopped ==
  /\ ui.pc \in Callers /\ task.step = "play"
  /\ Play(task.track)
  /\ task' = IF UiAt("on_ended") THEN Done ELSE Ask
  /\ UNCHANGED <<index, queue, armedNext, failedNext>>

OnTrackEndedReturns ==
  /\ UiAt("on_ended") /\ task = Done
  /\ CallbackReturns
  /\ task' = Ask
  /\ UNCHANGED <<index, queue, armedNext, failedNext>>

-----------------------------------------------------------------------------
(* Keys.                                                                   *)

KeyIdle(key) == UiAt("idle") /\ task = Ask /\ key \in Keys

\* Enter on row i: selectAt(i), play.
KeyEnter ==
  /\ \/ KeyIdle("enter")
     \/ KeyIdle("start") /\ state = "Stopped"
  /\ \E i \in DOMAIN Rows : index' = i /\ Play(Rows[i])
  /\ UNCHANGED <<queue, armedNext, failedNext, task>>

\* manualNext: the queue head behind a clearNext, else the next row, else stop.
KeyNext ==
  /\ KeyIdle("next")
  /\ IF queue # <<>>
       THEN /\ queue' = Tail(queue) /\ task' = Then(Head(queue))
            /\ ClearNext
            /\ UNCHANGED index
       ELSE /\ IF HasNextRow THEN Play(Rows[index + 1]) ELSE Stop
            /\ AdvanceIndex
            /\ UNCHANGED <<queue, task>>
  /\ UNCHANGED <<armedNext, failedNext>>

\* q: queueAdd, then clearNext so that the armed row does not pass the queue.
KeyQueue ==
  /\ KeyIdle("queue") /\ Len(queue) < QueueCap
  /\ \E t \in Tracks : queue' = Append(queue, t)
  /\ ClearNext
  /\ UNCHANGED <<index, armedNext, failedNext, task>>

KeyUnqueue ==
  /\ KeyIdle("unqueue")
  /\ \E i \in DOMAIN queue :
       queue' = SubSeq(queue, 1, i - 1) \o SubSeq(queue, i + 1, Len(queue))
  /\ UNCHANGED <<vars, index, armedNext, failedNext, task>>

\* The repeat-change callback of main.cpp: repeat-one also drops what is armed.
KeyRepeat ==
  /\ KeyIdle("repeat")
  /\ repeatOne' = ~repeatOne
  /\ IF repeatOne THEN UNCHANGED ui ELSE UiCall("drain", NoTrack)
  /\ UNCHANGED <<state, device, infoVars, srcVars, fadeVars, swapFlag, eventVars, cb, advVars>>

KeyOther ==
  /\ \/ KeyIdle("pause") /\ (Pause \/ Resume)
     \/ KeyIdle("stop") /\ Stop
     \/ KeyIdle("device") /\ SetDevice
  /\ UNCHANGED advVars

Tick ==
  /\ UiAt("idle") /\ task = Ask
  /\ PollInstall
  /\ UNCHANGED advVars

-----------------------------------------------------------------------------

UiContinueSame ==
  /\ \/ TeardownNextDrain \/ TeardownNextUnpublish \/ TeardownNextFadeCheck
     \/ TeardownNextQuiesce \/ TeardownNextFree
     \/ PlayOpen \/ PlayStarted \/ StopFinish \/ SetDeviceFinish \/ PauseFinish
     \/ PollPreload \/ PollEnded \/ TakeTrackEndAdvanced
  /\ UNCHANGED advVars

\* A young source neither ends nor nears its end where tracks outlast ticks.
AudioStep ==
  /\ AudioCallback
  /\ OutlastsTick /\ heard < 2 /\ cb.pc \in {"idle", "read"}
       => cb'.read = "full" /\ cb'.pc # "trigger"
  /\ CbAt("read") /\ cb'.pc = "idle" /\ ended' # ended => ReadsThrow
  /\ UNCHANGED advVars

\* What the UI thread goes on to do by itself, and what the user makes it do.
UiWork ==
  \/ UiContinueSame
  \/ PreloadResult \/ Reconcile
  \/ OnPreload \/ OnTrackEndAdvanced \/ OnTrackEnded
  \/ PlayPopped \/ OnTrackEndedReturns

UiKey == KeyEnter \/ KeyNext \/ KeyQueue \/ KeyUnqueue \/ KeyRepeat \/ KeyOther

Listen ==
  heard' = IF file' # file THEN 0
           ELSE IF heard = 0 /\ CbAt("idle") /\ ui'.pc = "poll_preload" THEN 1
           ELSE IF heard = 1 /\ ~UiAt("idle") /\ ui'.pc = "idle" THEN 2
           ELSE heard

AdvNext == (AudioStep \/ UiWork \/ UiKey \/ Tick) /\ Listen

AdvSpec == AdvInit /\ [][AdvNext]_allVars

\* A callback that began returns, an operation that began goes on, and the run
\* loop comes round.  ma_device_stop waits for a moment with no callback running
\* and holds off the next one: strong fairness, since here a callback may start
\* at any time; the loop reads one key a pass, so keys never keep it from a tick.
FairAdvSpec ==
  /\ AdvSpec
  /\ WF_allVars(~CbAt("idle") /\ AudioStep /\ Listen)
  /\ SF_allVars(UiWork /\ Listen)
  /\ SF_allVars(Tick /\ Listen)

-----------------------------------------------------------------------------
(***************************************************************************)
(* Properties.                                                             *)
(***************************************************************************)

\* Nothing in flight on either thread, and no event left for the next tick.
Settled ==
  /\ UiAt("idle") /\ task = Ask /\ CbAt("idle")
  /\ ~swapFlag /\ ~preloadFlag /\ ~ended

\* At rest the title the UI shows is the track that is audible.
TitleMatchesAudio == Settled /\ file # NoSrc => current = file.track

\* At rest, with the queue never used, the playlist row is the audible track.
RowMatchesAudio == Settled /\ file # NoSrc => Rows[index] = file.track

\* The device runs only while the player says it plays: a pause or a stop stays
\* in force through every clearNext and re-arm that follows it (teardownNext:
\* "is_started also guards the paused-mid-crossfade case").
SilentUnlessPlaying ==
  UiAt("idle") /\ task = Ask /\ state # "Playing" => device # "started"

\* "This callback's only job then is the same accounting ... and NOT the
\* restart-from-zero": on_track_end never plays from the start a track that a
\* splice has already made audible and that the row has not reached yet.
NoRestartOfSplicedTrack ==
  [][UiAt("on_ended") /\ ui'.pc = "play_stop" /\ file # NoSrc /\ ~repeatOne
       => ui'.arg # file.track]_allVars

\* The reconcile converges: if what plays next stays t, t gets armed - or was
\* tried and could not be opened - however the arm before it was dropped.
ArmConverges ==
  \A t \in Tracks :
    <>[](state # "Stopped" /\ ~crossfading /\ ResolveNextPath = t)
      => []<>((armed /\ nextInfo = t) \/ failedNext = t)

\* "don't advance playlist on manual stop": the track-end callback, which starts
\* the next track, never runs for a track that the user has stopped.
EndNeedsPlayback == UiAt("on_end") => state # "Stopped"
=============================================================================
