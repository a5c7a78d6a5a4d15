------------------------- MODULE GaplessAdvanceProofs -------------------------
(***************************************************************************)
(* What AudioHandoff guarantees to every client, for every set of tracks   *)
(* and of source numbers; and what GaplessAdvance guarantees for every     *)
(* playlist, every queue and any number of keys: the run loop is a client  *)
(* of AudioHandoff, so that its invariants hold of it, and what that       *)
(* client adds to them.                                                    *)
(***************************************************************************)
EXTENDS GaplessAdvance, SequenceTheorems, TLAPS

-----------------------------------------------------------------------------
(* AudioHandoff, under any client. *)

\* Every source opened on a path of the program is a source.
LEMMA OpenedType ==
  ASSUME NEW t, NEW s \in Opened(t)
  PROVE  s \in Sources
BY DEF Opened

\* The variables that are not flags.
LEMMA InitData == Init => DataOK
BY DEF Init, DataOK, UiIdle, CbIdle, UiSteps, CbSteps, Callers

\* positionSec holds the source it has loaded.
LEMMA LoadedUi ==
  ASSUME DataOK, PositionLoad
  PROVE  /\ ui' = [pc |-> "pos_use", arg |-> ui.arg, ref |-> file, ret |-> ui.ret]
         /\ UNCHANGED <<uiVars, infoVars, srcVars, fadeVars, swapFlag, eventVars, cb>>
BY DEF DataOK, PositionLoad

LEMMA NextData == DataOK /\ [Next]_vars => DataOK'
<1> SUFFICES ASSUME DataOK, [Next]_vars PROVE DataOK'
  OBVIOUS
<1> USE DEF DataOK, uiVars, infoVars, srcVars, fadeVars, eventVars
<1>1. CASE UNCHANGED vars
  BY <1>1 DEF vars
<1>2. CASE AudioCallback
  <2> USE DEF CbUnchangedUi, CbGoto, CbAt, CbIdle, CbSteps, AfterSwap
  <2>1. CASE CallbackBegin \/ CallbackTrigger \/ CallbackThrow
    BY <2>1 DEF CallbackBegin, CallbackTrigger, CallbackThrow
  <2>2. CASE CallbackRead
    BY <2>2 DEF CallbackRead, CbAfter
  <2>3. CASE CallbackMix \/ CallbackSplice
    BY <2>3 DEF CallbackMix, CallbackSplice, CbAfter
  <2>4. CASE InitCrossfadeEnter \/ InitCrossfadeRetire \/ InitCrossfadeTake
    BY <2>4 DEF InitCrossfadeEnter, InitCrossfadeRetire, InitCrossfadeTake
  <2>5. CASE InitCrossfadeUnpublish \/ InitCrossfadeFlag
    BY <2>5 DEF InitCrossfadeUnpublish, InitCrossfadeFlag
  <2>6. CASE CallbackFadeDone
    BY <2>6 DEF CallbackFadeDone
  <2>7. CASE CallbackMark
    BY <2>7 DEF CallbackMark
  <2>8. CASE CallbackFlagPreload \/ CallbackFlagEnded
    BY <2>8 DEF CallbackFlagPreload, CallbackFlagEnded
  <2> QED
    BY <1>2, <2>1, <2>2, <2>3, <2>4, <2>5, <2>6, <2>7, <2>8 DEF AudioCallback
<1>3. CASE UiContinue
  <2> USE DEF UiAt, UiGoto, UiReturn, UiIdle, UiSteps, Callers
  <2>1. CASE TeardownNextDrain \/ TeardownNextUnpublish \/ TeardownNextFadeCheck
    BY <2>1 DEF TeardownNextDrain, TeardownNextUnpublish, TeardownNextFadeCheck,
                InstallPendingSwap
  <2>2. CASE TeardownNextQuiesce \/ TeardownNextFree \/ PreloadNextPublish
    BY <2>2 DEF TeardownNextQuiesce, TeardownNextFree, PreloadNextPublish
  <2>3. CASE PreloadNextOpen
    BY <2>3, OpenedType DEF PreloadNextOpen
  <2>4. CASE PlayOpen
    BY <2>4, OpenedType DEF PlayOpen, TeardownAll
  <2>5. CASE PlayStarted \/ StopFinish \/ PauseFinish
    BY <2>5 DEF PlayStarted, StopFinish, PauseFinish, TeardownAll
  <2>6. CASE SetDeviceFinish
    BY <2>6, OpenedType DEF SetDeviceFinish
  <2>7. CASE PositionLoad \/ PositionUse
    BY <2>7, LoadedUi DEF PositionUse
  <2>8. CASE PollPreload \/ PollEnded \/ TakeTrackEndAdvanced
    BY <2>8 DEF PollPreload, PollEnded, TakeTrackEndAdvanced
  <2> QED
    BY <1>3, <2>1, <2>2, <2>3, <2>4, <2>5, <2>6, <2>7, <2>8 DEF UiContinue
<1>4. CASE UiCallAny
  <2> USE DEF UiAt, UiGoto, UiCall, UiIdle, UiSteps, Callers
  <2>1. ASSUME NEW t \in Tracks, Play(t) \/ PreloadNext(t) PROVE DataOK'
    BY <2>1 DEF Play, PreloadNext, TeardownBegin
  <2>2. CASE ClearNext \/ Stop \/ SetDevice
    BY <2>2 DEF ClearNext, Stop, SetDevice, TeardownBegin
  <2>3. CASE Pause \/ Resume
    BY <2>3 DEF Pause, Resume
  <2>4. ASSUME NEW on \in BOOLEAN, SetRepeatOne(on) PROVE DataOK'
    BY <2>4 DEF SetRepeatOne
  <2>5. CASE PositionTest \/ PollInstall
    BY <2>5 DEF PositionTest, PollInstall, InstallPendingSwap
  <2> QED
    BY <1>4, <2>1, <2>2, <2>3, <2>4, <2>5 DEF UiCallAny
<1>5. CASE CallbackReturns \/ PollReturns
  BY <1>5 DEF CallbackReturns, PollReturns, UiAt, UiGoto, UiSteps, Callers
<1> QED
  BY <1>1, <1>2, <1>3, <1>4, <1>5 DEF Next

LEMMA DataCorrect == Spec => []DataOK
BY InitData, NextData, PTL DEF Spec

\* The atomic flags.
LEMMA FlagsCorrect == Spec => []FlagsOK
<1>1. Init => FlagsOK
  BY DEF Init, FlagsOK
<1>2. FlagsOK /\ [Next]_vars => FlagsOK'
  <2> SUFFICES ASSUME FlagsOK, [Next]_vars PROVE FlagsOK'
    OBVIOUS
  <2> USE DEF FlagsOK, uiVars, infoVars, srcVars, fadeVars, eventVars
  <2>1. CASE UNCHANGED vars
    BY <2>1, Zenon DEF vars
  <2>2. CASE AudioCallback
    <3> USE DEF CbUnchangedUi
    <3>1. CASE CallbackBegin \/ CallbackTrigger \/ CallbackThrow
      BY <3>1, Zenon DEF CallbackBegin, CallbackTrigger, CallbackThrow
    <3>2. CASE CallbackRead \/ CallbackMix \/ CallbackSplice
      BY <3>2, Zenon DEF CallbackRead, CallbackMix, CallbackSplice
    <3>3. CASE InitCrossfadeEnter
      <4>1. (armed /\ ~repeatOne) \in BOOLEAN
        BY Zenon
      <4> QED
        BY <3>3, <4>1, Zenon DEF InitCrossfadeEnter
    <3>4. CASE InitCrossfadeRetire \/ InitCrossfadeTake \/ InitCrossfadeUnpublish \/ InitCrossfadeFlag
      BY <3>4, Zenon DEF InitCrossfadeRetire, InitCrossfadeTake, InitCrossfadeUnpublish,
                         InitCrossfadeFlag
    <3>5. CASE CallbackFadeDone \/ CallbackFlagPreload \/ CallbackFlagEnded
      BY <3>5, Zenon DEF CallbackFadeDone, CallbackFlagPreload, CallbackFlagEnded
    <3>6. CASE CallbackMark
      <4>1. (cb.how = "splice") \in BOOLEAN
        BY Zenon
      <4> QED
        BY <3>6, <4>1, Zenon DEF CallbackMark
    <3> QED
      BY <2>2, <3>1, <3>2, <3>3, <3>4, <3>5, <3>6, Zenon DEF AudioCallback
  <2>3. CASE UiContinue
    <3>1. CASE TeardownNextDrain \/ TeardownNextUnpublish \/ TeardownNextFadeCheck
      BY <3>1, Zenon DEF TeardownNextDrain, TeardownNextUnpublish, TeardownNextFadeCheck,
                         InstallPendingSwap
    <3>2. CASE TeardownNextQuiesce \/ TeardownNextFree
      BY <3>2, Zenon DEF TeardownNextQuiesce, TeardownNextFree
    <3>3. CASE PreloadNextOpen \/ PreloadNextPublish
      BY <3>3, Zenon DEF PreloadNextOpen, PreloadNextPublish
    <3>4. CASE PlayOpen
      BY <3>4, Zenon DEF PlayOpen, TeardownAll
    <3>5. CASE PlayStarted \/ StopFinish \/ PauseFinish
      BY <3>5, Zenon DEF PlayStarted, StopFinish, PauseFinish, TeardownAll
    <3>6. CASE SetDeviceFinish \/ PositionLoad \/ PositionUse
      BY <3>6, Zenon DEF SetDeviceFinish, PositionLoad, PositionUse
    <3>7. CASE PollPreload \/ PollEnded \/ TakeTrackEndAdvanced
      BY <3>7, Zenon DEF PollPreload, PollEnded, TakeTrackEndAdvanced
    <3> QED
      BY <2>3, <3>1, <3>2, <3>3, <3>4, <3>5, <3>6, <3>7, Zenon DEF UiContinue
  <2>4. CASE UiCallAny
    <3>1. ASSUME NEW t \in Tracks, Play(t) \/ PreloadNext(t) PROVE FlagsOK'
      BY <3>1, Zenon DEF Play, PreloadNext, TeardownBegin
    <3>2. CASE ClearNext \/ Stop \/ SetDevice
      BY <3>2, Zenon DEF ClearNext, Stop, SetDevice, TeardownBegin
    <3>3. CASE Pause \/ Resume \/ PositionTest
      BY <3>3, Zenon DEF Pause, Resume, PositionTest
    <3>4. ASSUME NEW on \in BOOLEAN, SetRepeatOne(on) PROVE FlagsOK'
      BY <3>4, Zenon DEF SetRepeatOne
    <3>5. CASE PollInstall
      BY <3>5, Zenon DEF PollInstall, InstallPendingSwap
    <3> QED
      BY <2>4, <3>1, <3>2, <3>3, <3>4, <3>5, Zenon DEF UiCallAny
  <2>5. CASE CallbackReturns \/ PollReturns
    BY <2>5, Zenon DEF CallbackReturns, PollReturns
  <2> QED
    BY <2>1, <2>2, <2>3, <2>4, <2>5, Zenon DEF Next
<1> QED
  BY <1>1, <1>2, PTL DEF Spec

\* The program's variables keep their types: every callback and every
\* operation of the UI thread, interleaved in any way.
THEOREM TypeCorrect == Spec => []TypeOK
BY DataCorrect, FlagsCorrect, PTL DEF TypeOK

\* The source the callback reads as the current one is never freed under it:
\* teardown and setDevice free it with the device stopped, the swap frees it
\* after the last read.
THEOREM FileSrcNeverFreed == Spec => []FileSrcLive
<1> USE DEF FileSrcLive
<1>1. Init => FileSrcLive
  BY DEF Init, CbIdle
<1>2. DataOK /\ FileSrcLive /\ [Next]_vars => FileSrcLive'
  <2> SUFFICES ASSUME DataOK, FileSrcLive, [Next]_vars PROVE FileSrcLive'
    OBVIOUS
  <2> USE DEF uiVars, infoVars, srcVars, fadeVars, eventVars, CbAt
  <2>1. CASE UNCHANGED vars
    BY <2>1 DEF vars
  <2>2. CASE AudioCallback
    <3> USE DEF CbUnchangedUi, CbGoto, CbIdle, AfterSwap, DataOK
    <3>1. CASE CallbackBegin \/ CallbackTrigger \/ CallbackThrow
      BY <2>2, <3>1 DEF CallbackBegin, CallbackTrigger, CallbackThrow
    <3>2. CASE CallbackRead \/ CallbackMix \/ CallbackSplice
      BY <2>2, <3>2 DEF CbAfter, CallbackRead, CallbackMix, CallbackSplice
    <3>3. CASE InitCrossfadeEnter \/ InitCrossfadeRetire \/ InitCrossfadeTake
      BY <2>2, <3>3 DEF InitCrossfadeEnter, InitCrossfadeRetire, InitCrossfadeTake
    <3>4. CASE InitCrossfadeUnpublish \/ InitCrossfadeFlag
      BY <2>2, <3>4 DEF InitCrossfadeUnpublish, InitCrossfadeFlag
    <3>5. CASE CallbackFadeDone \/ CallbackFlagPreload \/ CallbackMark \/ CallbackFlagEnded
      BY <2>2, <3>5 DEF CallbackFadeDone, CallbackFlagPreload, CallbackMark, CallbackFlagEnded
    <3> QED
      BY <2>2, <3>1, <3>2, <3>3, <3>4, <3>5 DEF AudioCallback
  <2>3. CASE UiContinue
    <3>1. CASE UNCHANGED <<file, cb>>
      BY <3>1
    <3>2. CASE PlayOpen \/ StopFinish \/ SetDeviceFinish
      BY <3>2 DEF PlayOpen, StopFinish, SetDeviceFinish, TeardownAll, Quiesced
    <3> QED
      BY <2>3, <3>1, <3>2 DEF UiContinue, TeardownNextDrain, TeardownNextUnpublish,
         TeardownNextFadeCheck, TeardownNextQuiesce, TeardownNextFree, PreloadNextOpen,
         PreloadNextPublish, PlayStarted, PauseFinish, PositionLoad, PositionUse,
         PollPreload, PollEnded, TakeTrackEndAdvanced
  <2>4. CASE UiCallAny \/ CallbackReturns \/ PollReturns
    BY <2>4 DEF UiCallAny, Play, PreloadNext, ClearNext, Stop, SetDevice, TeardownBegin,
       Pause, Resume, SetRepeatOne, PositionTest, PollInstall, CallbackReturns, PollReturns
  <2> QED
    BY <2>1, <2>2, <2>3, <2>4 DEF Next
<1> QED
  BY <1>1, <1>2, DataCorrect, PTL DEF Spec

\* PositionInv is inductive.
LEMMA PositionInvariant == Spec => []PositionInv
<1> USE DEF PositionInv, UiAt, CbAt
<1>1. Init => PositionInv
  BY DEF Init, UiIdle
<1>2. DataOK /\ PositionInv /\ [Next]_vars => PositionInv'
  <2> SUFFICES ASSUME DataOK, PositionInv, [Next]_vars PROVE PositionInv'
    OBVIOUS
  <2> USE DEF uiVars, infoVars, srcVars, fadeVars, eventVars
  <2>1. CASE UNCHANGED vars
    BY <2>1 DEF vars
  <2>2. CASE AudioCallback
    <3> USE DEF CbUnchangedUi, CbGoto, CbIdle, CbAfter, AfterSwap, DataOK
    <3>1. CASE CallbackBegin \/ CallbackTrigger \/ CallbackThrow
      BY <3>1 DEF CallbackBegin, CallbackTrigger, CallbackThrow
    <3>2. CASE CallbackRead \/ CallbackMix \/ CallbackSplice
      BY <3>2 DEF CallbackRead, CallbackMix, CallbackSplice
    <3>3. CASE InitCrossfadeEnter
      BY <3>3 DEF InitCrossfadeEnter
    <3>4. CASE InitCrossfadeRetire
      BY <3>4 DEF InitCrossfadeRetire
    <3>5. CASE InitCrossfadeTake
      BY <3>5 DEF InitCrossfadeTake
    <3>6. CASE InitCrossfadeUnpublish \/ InitCrossfadeFlag
      BY <3>6 DEF InitCrossfadeUnpublish, InitCrossfadeFlag
    <3>7. CASE CallbackFadeDone \/ CallbackFlagPreload \/ CallbackMark \/ CallbackFlagEnded
      BY <3>7 DEF CallbackFadeDone, CallbackFlagPreload, CallbackMark, CallbackFlagEnded
    <3> QED
      BY <2>2, <3>1, <3>2, <3>3, <3>4, <3>5, <3>6, <3>7 DEF AudioCallback
  <2>3. CASE UiContinue
    \* Every other operation of this thread is over before positionSec begins.
    <3>1. ui'.pc = "pos_use" => ui'.ref = file /\ UNCHANGED <<file, cb>>
      <4>1. CASE PositionLoad
        BY <4>1, LoadedUi
      <4>2. CASE ~PositionLoad
        BY <2>3, <4>2 DEF UiContinue, TeardownNextDrain, TeardownNextUnpublish, TeardownNextFadeCheck,
           TeardownNextQuiesce, TeardownNextFree, PreloadNextOpen, PreloadNextPublish, PlayOpen,
           PlayStarted, StopFinish, SetDeviceFinish, PauseFinish, PositionUse,
           PollPreload, PollEnded, TakeTrackEndAdvanced, UiGoto, UiReturn, UiIdle, DataOK
      <4> QED
        BY <4>1, <4>2
    <3>2. CASE UNCHANGED <<file, cb>>
      BY <3>1, <3>2
    <3>3. CASE PlayOpen \/ StopFinish \/ SetDeviceFinish
      BY <3>1, <3>3 DEF PlayOpen, StopFinish, SetDeviceFinish, TeardownAll, Quiesced
    <3> QED
      BY <2>3, <3>2, <3>3 DEF UiContinue, TeardownNextDrain, TeardownNextUnpublish,
         TeardownNextFadeCheck, TeardownNextQuiesce, TeardownNextFree, PreloadNextOpen,
         PreloadNextPublish, PlayStarted, PauseFinish, PositionLoad, PositionUse,
         PollPreload, PollEnded, TakeTrackEndAdvanced
  <2>4. CASE UiCallAny
    BY <2>4 DEF UiCallAny, PositionTest, Play, PreloadNext, ClearNext, Stop, SetDevice, TeardownBegin,
       Pause, Resume, SetRepeatOne, PollInstall, UiCall, UiGoto, Callers, DataOK
  <2>5. CASE CallbackReturns \/ PollReturns
    BY <2>5 DEF CallbackReturns, PollReturns, UiGoto, DataOK
  <2> QED
    BY <2>1, <2>2, <2>3, <2>4, <2>5 DEF Next
<1> QED
  BY <1>1, <1>2, DataCorrect, PTL DEF Spec

\* A source that positionSec on the UI thread has got hold of stays alive until it
\* is done with it, whatever the swap on the audio thread does meanwhile: the swap
\* retires the outgoing source instead of freeing it.  (It may get hold of none:
\* PositionNeverNull is broken by the code.)
THEOREM PositionReaderSafe == Spec => []PositionReaderLive
<1>1. PositionInv => PositionReaderLive
  BY DEF PositionInv, PositionReaderLive
<1> QED
  BY <1>1, PositionInvariant, PTL


\* The device runs while the player says it plays, or an operation that stops or starts it is
\* under way, and no callback runs without it.
DeviceInv ==
  /\ device = "started" =>
       state = "Playing" \/ ui.pc \in {"play_stop", "stop_stop", "setdev_stop", "play_started", "pause_stop"}
  /\ UiAt("quiesce") => device = "started"
  /\ ~CbAt("idle") => device = "started"

LEMMA NextDevice == DataOK /\ DeviceInv /\ [Next]_vars => DeviceInv'
<1> SUFFICES ASSUME DataOK, DeviceInv, [Next]_vars PROVE DeviceInv'
  OBVIOUS
<1> USE DEF DeviceInv, DataOK, uiVars, UiAt, CbAt
<1>1. CASE UNCHANGED vars
  BY <1>1 DEF vars
<1>2. CASE AudioCallback
  <2>1. UNCHANGED <<uiVars, ui>> /\ (CbAt("idle") /\ cb'.pc # "idle" => device = "started")
    BY <1>2 DEF AudioCallback, CbUnchangedUi, CallbackBegin, CallbackTrigger, CallbackRead, CallbackThrow, CallbackMix,
       CallbackSplice, InitCrossfadeEnter, InitCrossfadeRetire, InitCrossfadeTake, InitCrossfadeUnpublish,
       InitCrossfadeFlag, CallbackFadeDone, CallbackFlagPreload, CallbackMark, CallbackFlagEnded
  <2> QED
    BY <2>1
<1>3. CASE TeardownNextDrain \/ TeardownNextUnpublish \/ TeardownNextFadeCheck \/ TeardownNextQuiesce \/ TeardownNextFree
  BY <1>3 DEF TeardownNextDrain, TeardownNextUnpublish, TeardownNextFadeCheck, TeardownNextQuiesce, TeardownNextFree,
     UiGoto, UiReturn, UiIdle, Quiesced
<1>4. CASE PreloadNextOpen \/ PreloadNextPublish \/ PlayStarted \/ PositionUse \/ PollPreload \/ PollEnded \/ TakeTrackEndAdvanced
  BY <1>4 DEF PreloadNextOpen, PreloadNextPublish, PlayStarted, PositionUse, PollPreload, PollEnded, TakeTrackEndAdvanced,
     UiGoto, UiReturn, UiIdle
<1>8. CASE PositionLoad
  <2>1. UiAt("pos_load") /\ UNCHANGED <<state, device, cb>> /\ UiAt("pos_use")'
    BY <1>8, LoadedUi DEF PositionLoad
  <2> QED
    BY <2>1
<1>5. CASE PlayOpen \/ StopFinish \/ SetDeviceFinish \/ PauseFinish
  BY <1>5 DEF PlayOpen, StopFinish, SetDeviceFinish, PauseFinish, TeardownAll, Quiesced, UiGoto, UiReturn, UiIdle
<1>6. CASE UiCallAny
  BY <1>6 DEF UiCallAny, Play, PreloadNext, ClearNext, Stop, SetDevice, TeardownBegin, Pause, Resume, SetRepeatOne,
     PositionTest, PollInstall, UiCall, UiGoto, Callers
<1>7. CASE CallbackReturns \/ PollReturns
  BY <1>7 DEF CallbackReturns, PollReturns, UiGoto
<1> QED
  BY <1>1, <1>2, <1>3, <1>4, <1>5, <1>6, <1>7, <1>8 DEF Next, UiContinue

-----------------------------------------------------------------------------
(* GaplessAdvance, the run loop. *)

\* The playlist, the queue and what an operation still has to play are made of tracks.
ListOK ==
  /\ index \in DOMAIN Rows /\ queue \in Seq(Tracks)
  /\ task.step = "play" => task.track \in Tracks

LEMMA RowIsTrack == ASSUME NEW i \in DOMAIN Rows PROVE Rows[i] \in Tracks
BY AdvanceConstants

LEMMA NextRow ==
  ASSUME ListOK, HasNextRow
  PROVE  index + 1 \in DOMAIN Rows
BY AdvanceConstants DEF ListOK, HasNextRow

LEMMA ResolvesToTrack ==
  ASSUME ListOK, ResolveNextPath # NoTrack
  PROVE  ResolveNextPath \in Tracks
BY NextRow, RowIsTrack DEF ListOK, ResolveNextPath, PeekNext

LEMMA InitList == AdvInit => ListOK
<1>1. 1 \in DOMAIN Rows
  BY AdvanceConstants
<1> QED
  BY <1>1 DEF AdvInit, ListOK, Ask

LEMMA NextList == ListOK /\ [AdvNext]_allVars => ListOK'
<1> SUFFICES ASSUME ListOK, [AdvNext]_allVars PROVE ListOK'
  OBVIOUS
<1> USE DEF ListOK, advVars, Ask, Done, Then
<1>1. CASE UNCHANGED allVars
  BY <1>1 DEF allVars
<1>2. CASE AudioStep \/ UiContinueSame \/ KeyOther \/ Tick \/ KeyRepeat
  BY <1>2 DEF AudioStep, UiContinueSame, KeyOther, Tick, KeyRepeat
<1>3. CASE PreloadResult \/ Reconcile
  BY <1>3 DEF PreloadResult, Reconcile
<1>4. CASE OnPreload \/ OnTrackEndAdvanced
  <2>1. task' = task /\ (index' = index \/ (HasNextRow /\ index' = index + 1)) /\ queue' \in {queue, Tail(queue)}
    BY <1>4 DEF OnPreload, OnTrackEndAdvanced, AccountSwap, AdvanceIndex
  <2>2. queue' = queue \/ queue # <<>>
    BY <1>4 DEF OnPreload, OnTrackEndAdvanced, AccountSwap
  <2> QED
    BY <2>1, <2>2, NextRow
<1>5. CASE OnTrackEnded
  BY <1>5, NextRow DEF OnTrackEnded, AdvanceIndex
<1>6. CASE PlayPopped \/ OnTrackEndedReturns
  BY <1>6 DEF PlayPopped, OnTrackEndedReturns
<1>7. CASE KeyEnter
  BY <1>7 DEF KeyEnter
<1>8. CASE KeyNext
  BY <1>8, NextRow DEF KeyNext, AdvanceIndex
<1>9. CASE KeyQueue
  BY <1>9 DEF KeyQueue
<1>10. CASE KeyUnqueue
  <2>1. PICK i \in DOMAIN queue : queue' = SubSeq(queue, 1, i - 1) \o SubSeq(queue, i + 1, Len(queue))
    BY <1>10 DEF KeyUnqueue
  <2>2. SubSeq(queue, 1, i - 1) \in Seq(Tracks) /\ SubSeq(queue, i + 1, Len(queue)) \in Seq(Tracks)
    BY SubSeqProperties
  <2>3. queue' \in Seq(Tracks)
    BY <2>1, <2>2, ConcatProperties
  <2> QED
    BY <1>10, <2>3 DEF KeyUnqueue
<1> QED
  BY <1>1, <1>2, <1>3, <1>4, <1>5, <1>6, <1>7, <1>8, <1>9, <1>10 DEF AdvNext, UiWork, UiKey

\* Every step of the run loop and of the callback is a step of AudioHandoff; the key that sets
\* repeat-one makes two of them at once.
LEMMA StepsOfAudioHandoff ==
  ASSUME ListOK, [AdvNext]_allVars
  PROVE  [Next]_vars \/ KeyRepeat
<1>1. CASE UNCHANGED allVars
  BY <1>1 DEF allVars
<1>2. CASE AudioStep \/ UiContinueSame \/ Tick
  BY <1>2 DEF AudioStep, UiContinueSame, Tick, Next, UiContinue, UiCallAny
<1>3. CASE PreloadResult
  BY <1>3 DEF PreloadResult, Next, UiContinue
<1>4. CASE Reconcile
  BY <1>4, ResolvesToTrack DEF Reconcile, Next, UiCallAny, ReconcileClears
<1>5. CASE OnPreload \/ OnTrackEndAdvanced \/ OnTrackEndedReturns
  BY <1>5 DEF OnPreload, OnTrackEndAdvanced, OnTrackEndedReturns, Next
<1>6. CASE OnTrackEnded \/ KeyEnter \/ KeyNext
  BY <1>6, RowIsTrack, NextRow DEF OnTrackEnded, KeyEnter, KeyNext, Next, UiCallAny, ListOK
<1>7. CASE PlayPopped \/ KeyQueue \/ KeyUnqueue \/ KeyOther
  BY <1>7 DEF PlayPopped, KeyQueue, KeyUnqueue, KeyOther, Next, UiCallAny, ListOK
<1> QED
  BY <1>1, <1>2, <1>3, <1>4, <1>5, <1>6, <1>7 DEF AdvNext, UiWork, UiKey

AInv == ListOK /\ DataOK /\ DeviceInv

LEMMA DeviceInvariant == AdvSpec => []AInv
<1>1. AdvInit => AInv
  BY InitList, InitData DEF AdvInit, AInv, Init, DeviceInv, UiAt, CbAt, UiIdle, CbIdle
<1>2. AInv /\ [AdvNext]_allVars => AInv'
  <2> SUFFICES ASSUME AInv, [AdvNext]_allVars PROVE DataOK' /\ DeviceInv'
    BY NextList DEF AInv
  <2>1. CASE [Next]_vars
    BY <2>1, NextData, NextDevice DEF AInv
  <2>2. CASE KeyRepeat
    BY <2>2 DEF KeyRepeat, KeyIdle, AInv, DataOK, DeviceInv, UiCall, UiAt, CbAt, UiSteps, Callers, infoVars, srcVars
  <2> QED
    BY <2>1, <2>2, StepsOfAudioHandoff DEF AInv
<1> QED
  BY <1>1, <1>2, PTL DEF AdvSpec

\* A pause or a stop stays in force through every clearNext and re-arm that follows it.
THEOREM SilenceKept == AdvSpec => []SilentUnlessPlaying
<1>1. AInv => SilentUnlessPlaying
  BY DEF AInv, DeviceInv, SilentUnlessPlaying, UiAt
<1> QED
  BY <1>1, DeviceInvariant, PTL

\* An end that is still to be delivered is not that of a track the user has stopped: what stops
\* the player clears it, and the callback runs no more.
EndInv ==
  /\ ended /\ state = "Stopped" => ui.pc \in {"play_stop", "stop_stop", "play_started"}
  /\ UiAt("on_end") => state # "Stopped"
  /\ UiAt("pause_stop") => state = "Paused"
  /\ ~UiAt("setdev_stop")

\* The track-end callback, which starts the next track, never runs for a track that the user
\* has stopped.  (A device that cannot be changed leaves the player stopped with the end still
\* to be delivered; so that key is left out.)
THEOREM NoEndAfterStop ==
  ASSUME "device" \notin Keys
  PROVE  AdvSpec => []EndNeedsPlayback
<1>1. AdvInit => EndInv
  BY DEF AdvInit, Init, EndInv, UiAt, UiIdle
<1>2. AInv /\ EndInv /\ [AdvNext]_allVars => EndInv'
  <2> SUFFICES ASSUME AInv, EndInv, [AdvNext]_allVars PROVE EndInv'
    OBVIOUS
  <2> USE DEF EndInv, UiAt, uiVars, eventVars
  <2>1. CASE UNCHANGED vars
    BY <2>1 DEF vars
  <2>2. CASE AudioCallback
    <3>1. UNCHANGED <<uiVars, ui>> /\ (ended' => ended \/ ~CbAt("idle"))
      BY <2>2 DEF AudioCallback, CbUnchangedUi, CallbackBegin, CallbackTrigger, CallbackRead, CallbackThrow, CallbackMix,
         CallbackSplice, InitCrossfadeEnter, InitCrossfadeRetire, InitCrossfadeTake, InitCrossfadeUnpublish,
         InitCrossfadeFlag, CallbackFadeDone, CallbackFlagPreload, CallbackMark, CallbackFlagEnded, CbAt
    <3> QED
      BY <3>1 DEF AInv, DeviceInv
  <2>3. CASE KeyRepeat
    BY <2>3 DEF KeyRepeat, KeyIdle, UiCall
  <2>4. CASE UiContinue
    <3>1. CASE PositionLoad
      <4>1. UNCHANGED <<state, ended>> /\ UiAt("pos_load") /\ UiAt("pos_use")'
        BY <3>1, LoadedUi DEF PositionLoad, AInv
      <4> QED
        BY <4>1
    <3>2. CASE ~PositionLoad
      BY <2>4, <3>2 DEF UiContinue, TeardownNextDrain, TeardownNextUnpublish, TeardownNextFadeCheck,
         TeardownNextQuiesce, TeardownNextFree, PreloadNextOpen, PreloadNextPublish, PlayOpen, PlayStarted, StopFinish,
         SetDeviceFinish, PauseFinish, PositionUse, PollPreload, PollEnded, TakeTrackEndAdvanced, TeardownAll, UiGoto,
         UiReturn, UiIdle, AInv, DataOK
    <3> QED
      BY <3>1, <3>2
  <2>5. CASE UiCallAny /\ ~SetDevice
    <3>1. CASE \E t \in Tracks : Play(t) \/ PreloadNext(t)
      BY <3>1 DEF Play, PreloadNext, TeardownBegin, UiCall, Callers, AInv, DataOK
    <3>2. CASE ClearNext \/ Stop \/ Pause \/ Resume
      BY <3>2 DEF ClearNext, Stop, Pause, Resume, TeardownBegin, UiCall, Callers, AInv, DataOK
    <3>3. CASE PositionTest \/ PollInstall \/ \E on \in BOOLEAN : SetRepeatOne(on)
      BY <3>3 DEF PositionTest, PollInstall, SetRepeatOne, UiGoto, AInv, DataOK
    <3> QED
      BY <2>5, <3>1, <3>2, <3>3 DEF UiCallAny
  <2>6. CASE CallbackReturns \/ PollReturns
    BY <2>6 DEF CallbackReturns, PollReturns, UiGoto, AInv, DataOK
  <2>7. CASE SetDevice
    <3>1. UiAt("idle") /\ UiAt("setdev_stop")'
      BY <2>7 DEF SetDevice, TeardownBegin, UiCall
    <3>2. AdvNext
      BY <3>1 DEF allVars, vars
    <3>3. ~AudioStep /\ ~PreloadResult /\ ~UiContinueSame
      BY <3>1 DEF AudioStep, AudioCallback, CbUnchangedUi, CallbackBegin, CallbackTrigger, CallbackRead, CallbackThrow,
         CallbackMix, CallbackSplice, InitCrossfadeEnter, InitCrossfadeRetire, InitCrossfadeTake,
         InitCrossfadeUnpublish, InitCrossfadeFlag, CallbackFadeDone, CallbackFlagPreload, CallbackMark,
         CallbackFlagEnded, UiContinueSame, TeardownNextDrain, TeardownNextUnpublish, TeardownNextFadeCheck,
         TeardownNextQuiesce, TeardownNextFree, PlayOpen, PlayStarted, StopFinish, SetDeviceFinish, PauseFinish,
         PollPreload, PollEnded, TakeTrackEndAdvanced, PreloadResult, PreloadNextOpen, PreloadNextPublish
    <3>4. ~Reconcile /\ ~OnPreload /\ ~OnTrackEndAdvanced /\ ~OnTrackEnded /\ ~OnTrackEndedReturns
      BY <3>1 DEF Reconcile, OnPreload, OnTrackEndAdvanced, OnTrackEnded, OnTrackEndedReturns
    <3>5. ~PlayPopped /\ ~KeyEnter /\ ~KeyNext /\ ~KeyQueue /\ ~KeyUnqueue /\ ~KeyRepeat /\ ~Tick
      BY <3>1 DEF PlayPopped, KeyEnter, KeyNext, KeyQueue, KeyUnqueue, KeyRepeat, Tick, Play, Stop, ClearNext,
         TeardownBegin, UiCall, PollInstall, UiGoto, vars, AInv, DataOK
    <3>6. ~KeyOther
      BY <3>1 DEF KeyOther, KeyIdle, Pause, Resume, Stop, TeardownBegin, UiCall
    <3> QED
      BY <3>2, <3>3, <3>4, <3>5, <3>6 DEF AdvNext, UiWork, UiKey
  <2> QED
    BY <2>1, <2>2, <2>3, <2>4, <2>5, <2>6, <2>7, StepsOfAudioHandoff DEF Next, AInv
<1>3. EndInv => EndNeedsPlayback
  BY DEF EndInv, EndNeedsPlayback
<1> QED
  BY <1>1, <1>2, <1>3, DeviceInvariant, PTL DEF AdvSpec


-----------------------------------------------------------------------------
(* The hand-off between a client that only starts, stops, pauses and skips, *)
(* and the callback, where every track sounds for longer than a tick.       *)

Transport == OutlastsTick /\ Keys \subseteq {"start", "enter", "next", "pause", "stop"}

\* Steps of clearNext and preloadNext, and of an operation that ends what plays.
Arming == {"drain", "unpublish", "fade_check", "free", "open", "publish"}
Ending == {"play_stop", "stop_stop"}

\* The callback has chosen to swap what is armed; a swap has put a new source in place.
Swapping == cb.pc \in {"trigger", "mix", "splice", "swap", "retire", "take", "unpublish"}
Swapped == cb.pc \in {"take", "unpublish", "flag_swap", "fade_done", "flag_preload"}
             \/ (cb.pc \in {"mark", "flag_ended"} /\ cb.how = "splice")

\* The track that is armed is the one that follows.
Follows == HasNextRow /\ nextInfo = Rows[index + 1]

\* A swap the row has still to follow.
Owed == \/ preloadFlag \/ UiAt("on_preload") \/ UiAt("on_advanced")
        \/ advanced /\ (ended \/ UiAt("on_end") \/ CbAt("flag_ended"))
        \/ Swapped /\ ~CbAt("flag_ended")

ClientOK ==
  /\ queue = <<>> /\ repeatOne = FALSE /\ heard \in 0 .. 2 /\ task.step # "play"
  /\ ui.pc \notin {"quiesce", "setdev_stop", "pos_load", "pos_use"}
  /\ ui.pc \in Ending \cup {"play_started"} => state = "Stopped"

CallbackOK ==
  /\ cb.pc \in {"swap", "retire", "take", "unpublish", "flag_swap"} => cb.how \in {"fade", "splice"}
  /\ cb.pc \in {"trigger", "read", "mix", "splice", "swap", "retire"} => file # NoSrc
  /\ CbAt("take") => file = NoSrc
  /\ Swapping => armed /\ ui.pc \notin Arming
  /\ cb.pc \in {"trigger", "mix", "splice", "swap", "retire"} => heard = 2
  /\ Swapped => heard = 0
  /\ cb.pc \in {"mark", "flag_ended"} /\ ~Swapped => heard = 2

\* The flags a swap raises are seen by the first tick that begins after it, while the new
\* source is young.
EventsOK ==
  /\ Swapped /\ ~CbAt("flag_ended") =>
       ~preloadFlag /\ ~advanced /\ ~UiAt("on_preload") /\ ~UiAt("on_advanced")
  /\ preloadFlag => heard = 0 \/ (heard = 1 /\ UiAt("poll_preload"))
  /\ UiAt("on_preload") \/ UiAt("on_advanced") => heard <= 1 /\ ~preloadFlag /\ ~advanced
  /\ advanced => \/ heard = 0 /\ (ended \/ UiAt("on_end") \/ CbAt("flag_ended"))
                 \/ heard = 1 /\ ended /\ ui.pc \in {"poll_preload", "on_preload", "poll_ended"}
                 \/ heard = 1 /\ UiAt("on_end")
  /\ preloadFlag => ~advanced

\* What is armed follows, or else the source is young and the tick that accounts for its swap
\* is on its way to arm another.
ArmedOK ==
  /\ armed => /\ next # NoSrc \/ CbAt("unpublish")
              /\ failedNext = NoTrack
              /\ armedNext = nextInfo \/ (armedNext = NoTrack /\ ui.pc \in {"drain", "unpublish"})
              /\ state = "Stopped" => ui.pc \in Ending
              /\ crossfading => heard = 2 \/ cb.pc \in {"take", "unpublish"}
  /\ armed => \/ Follows /\ ui.pc \notin {"drain", "unpublish"}
              \/ ui.pc \in Ending
              \/ /\ heard <= 1 /\ ~crossfading /\ ~Swapping /\ ~Owed
                 /\ ui.pc \in {"poll_ended", "on_end", "on_ended", "polled", "drain", "unpublish"}

ArmingOK ==
  /\ ui.pc \in {"fade_check", "free", "open", "publish"} => ~armed
  /\ ui.pc \in Arming => /\ ~crossfading /\ state # "Stopped" /\ ui.ret = "idle"
                         /\ ui.arg = NoTrack \/ (HasNextRow /\ ui.arg = Rows[index + 1])
  /\ UiAt("open") \/ UiAt("publish") => ui.arg # NoTrack
  /\ UiAt("publish") => next # NoSrc /\ next.track = nextInfo /\ nextInfo = ui.arg

\* The title, by way of the track the armed source was opened on.
TitleOK ==
  /\ armed /\ ~CbAt("unpublish") => next.track = nextInfo
  /\ cb.pc \in {"unpublish", "flag_swap"} =>
       /\ file # NoSrc /\ file.track = nextInfo
       /\ ui.pc \in Ending \/ (HasNextRow /\ file.track = Rows[index + 1])
  /\ swapFlag => /\ file # NoSrc /\ file.track = nextInfo
                 /\ ui.pc \in Arming \ {"drain"} /\ ui.arg # NoTrack => ui.arg = file.track
  /\ file # NoSrc /\ ~swapFlag /\ cb.pc \notin {"unpublish", "flag_swap"} => current = file.track

\* The retired source is reaped before another swap can come.
RetiredOK ==
  /\ retired # NoSrc => swapFlag \/ cb.pc \in {"take", "unpublish", "flag_swap"}
  /\ swapFlag /\ armed => heard <= 1 /\ (Owed \/ ~Follows \/ ui.pc \in Ending)
  /\ swapFlag /\ ui.pc \in Arming \ {"drain"} => heard = 0 /\ Owed

GInv == ClientOK /\ CallbackOK /\ EventsOK /\ ArmedOK /\ ArmingOK /\ TitleOK /\ RetiredOK


\* How long the current source has sounded, in terms of steps (Listen).
Heard == heard' = IF file' # file THEN 0
                  ELSE IF heard = 0 /\ CbAt("idle") /\ ui'.pc = "poll_preload" THEN 1
                  ELSE IF heard = 1 /\ ui.pc # "idle" /\ ui'.pc = "idle" THEN 2
                  ELSE heard

LEMMA AudioStepHolds ==
  ASSUME Transport, AudioStep, Listen
  PROVE  /\ UNCHANGED <<state, device, repeatOne, current, nextInfo, ui, index, queue, armedNext, failedNext, task>>
         /\ Heard
         /\ heard < 2 /\ cb.pc \in {"idle", "read"} => cb'.read = "full" /\ cb'.pc # "trigger"
<1>1. UNCHANGED <<state, device, repeatOne, current, nextInfo, ui, index, queue, armedNext, failedNext, task>>
  BY DEF AudioStep, AudioCallback, CbUnchangedUi, uiVars, infoVars, advVars, CallbackBegin, CallbackTrigger,
     CallbackRead, CallbackThrow, CallbackMix, CallbackSplice, InitCrossfadeEnter, InitCrossfadeRetire,
     InitCrossfadeTake, InitCrossfadeUnpublish, InitCrossfadeFlag, CallbackFadeDone, CallbackFlagPreload,
     CallbackMark, CallbackFlagEnded
<1> QED
  BY <1>1 DEF Listen, Heard, UiAt, AudioStep, Transport

\* Of the run loop's own actions those that its keys allow, and what each does to the sources.
LEMMA ClientStepHolds ==
  ASSUME Transport, GInv, AdvNext, ~AudioStep, ~UiContinueSame
  PROVE  /\ Heard
         /\ file' = file
         /\ \/ PreloadResult \/ Reconcile \/ OnPreload \/ OnTrackEndAdvanced \/ OnTrackEnded
            \/ OnTrackEndedReturns \/ KeyEnter \/ KeyNext \/ (KeyOther /\ ~SetDevice) \/ Tick
<1>1. ~KeyQueue /\ ~KeyUnqueue /\ ~KeyRepeat /\ ~PlayPopped /\ (KeyOther => ~SetDevice)
  BY DEF KeyQueue, KeyUnqueue, KeyRepeat, PlayPopped, KeyOther, KeyIdle, Transport, GInv, ClientOK, SetDevice,
     Pause, Resume, Stop, TeardownBegin, UiCall
<1>2. Heard
  BY DEF AdvNext, Listen, UiAt, Heard
<1>3. \/ PreloadResult \/ Reconcile \/ OnPreload \/ OnTrackEndAdvanced \/ OnTrackEnded
      \/ OnTrackEndedReturns \/ KeyEnter \/ KeyNext \/ (KeyOther /\ ~SetDevice) \/ Tick
  BY <1>1 DEF AdvNext, UiWork, UiKey
<1>4. file' = file
  <2> USE DEF srcVars
  <2>1. CASE PreloadResult \/ Reconcile
    BY <2>1 DEF PreloadResult, PreloadNextOpen, PreloadNextPublish, Reconcile, PollReturns, ClearNext, PreloadNext
  <2>2. CASE OnPreload \/ OnTrackEndAdvanced \/ OnTrackEnded \/ OnTrackEndedReturns
    BY <2>2 DEF OnPreload, OnTrackEndAdvanced, OnTrackEnded, OnTrackEndedReturns, CallbackReturns, ClearNext, Play,
       Stop, TeardownBegin
  <2>3. CASE KeyEnter \/ KeyNext \/ (KeyOther /\ ~SetDevice) \/ Tick
    BY <2>3 DEF KeyEnter, KeyNext, KeyOther, Pause, Resume, Stop, Play, TeardownBegin, ClearNext, Tick, PollInstall
  <2> QED
    BY <1>3, <2>1, <2>2, <2>3
<1> QED
  BY <1>2, <1>3, <1>4

LEMMA AudioKeepsGInv ==
  ASSUME Transport, AInv, GInv, AudioStep, Listen
  PROVE  GInv'
<1>1. /\ UNCHANGED <<state, device, repeatOne, current, nextInfo, ui, index, queue, armedNext, failedNext, task>>
      /\ Heard
      /\ heard < 2 /\ cb.pc \in {"idle", "read"} => cb'.read = "full" /\ cb'.pc # "trigger"
  BY AudioStepHolds
<1> USE <1>1 DEF AInv, DataOK, GInv, ClientOK, CallbackOK, EventsOK, ArmedOK, ArmingOK, TitleOK, RetiredOK,
      Owed, Swapped, Swapping, Follows, HasNextRow, Arming, Ending, UiAt, CbAt, CbGoto, CbAfter, CbIdle, AfterSwap,
      srcVars, fadeVars, eventVars, Heard
<1>4. CASE CallbackBegin
  <2> USE <1>4 DEF CallbackBegin
  <2>1. ClientOK'
    OBVIOUS
  <2>2. CallbackOK'
    OBVIOUS
  <2>3. EventsOK'
    OBVIOUS
  <2>4. ArmedOK'
    OBVIOUS
  <2>5. ArmingOK'
    OBVIOUS
  <2>6. TitleOK'
    OBVIOUS
  <2>7. RetiredOK'
    OBVIOUS
  <2> QED
    BY <2>1, <2>2, <2>3, <2>4, <2>5, <2>6, <2>7
<1>5. CASE CallbackTrigger
  BY <1>5 DEF CallbackTrigger
<1>6. CASE CallbackRead
  <2> USE <1>6 DEF CallbackRead
  <2>1. ClientOK'
    OBVIOUS
  <2>2. CallbackOK'
    OBVIOUS
  <2>3. EventsOK'
    OBVIOUS
  <2>4. ArmedOK'
    OBVIOUS
  <2>5. ArmingOK'
    OBVIOUS
  <2>6. TitleOK'
    OBVIOUS
  <2>7. RetiredOK'
    OBVIOUS
  <2> QED
    BY <2>1, <2>2, <2>3, <2>4, <2>5, <2>6, <2>7
<1>7. CASE CallbackThrow
  BY <1>7 DEF CallbackThrow
<1>8. CASE CallbackMix
  BY <1>8 DEF CallbackMix
<1>9. CASE CallbackSplice
  BY <1>9 DEF CallbackSplice
<1>10. CASE InitCrossfadeEnter
  BY <1>10 DEF InitCrossfadeEnter
<1>11. CASE InitCrossfadeRetire
  BY <1>11 DEF InitCrossfadeRetire
<1>12. CASE InitCrossfadeTake
  BY <1>12 DEF InitCrossfadeTake
<1>13. CASE InitCrossfadeUnpublish
  BY <1>13 DEF InitCrossfadeUnpublish
<1>14. CASE InitCrossfadeFlag
  BY <1>14 DEF InitCrossfadeFlag
<1>15. CASE CallbackFadeDone
  BY <1>15 DEF CallbackFadeDone
<1>16. CASE CallbackFlagPreload
  BY <1>16 DEF CallbackFlagPreload
<1>17. CASE CallbackMark
  <2> USE <1>17 DEF CallbackMark
  <2>1. ClientOK'
    OBVIOUS
  <2>2. CallbackOK'
    OBVIOUS
  <2>3. EventsOK'
    OBVIOUS
  <2>4. ArmedOK'
    OBVIOUS
  <2>5. ArmingOK'
    OBVIOUS
  <2>6. TitleOK'
    OBVIOUS
  <2>7. RetiredOK'
    <3>1. CASE cb.how = "splice"
      BY <3>1
    <3>2. CASE cb.how # "splice"
      BY <3>2
    <3> QED
      BY <3>1, <3>2
  <2> QED
    BY <2>1, <2>2, <2>3, <2>4, <2>5, <2>6, <2>7
<1>18. CASE CallbackFlagEnded
  BY <1>18 DEF CallbackFlagEnded
<1> QED
  BY <1>4, <1>5, <1>6, <1>7, <1>8, <1>9, <1>10, <1>11, <1>12, <1>13, <1>14, <1>15, <1>16, <1>17, <1>18
     DEF AudioStep, AudioCallback


LEMMA OpenedOnTrack ==
  ASSUME NEW t, NEW s \in Opened(t)
  PROVE  s \in Sources /\ s.track = t /\ s # NoSrc /\ s # file
BY HandoffConstants DEF Opened



LEMMA ContinueKeepsGInv ==
  ASSUME Transport, AInv, GInv, UiContinueSame, Listen
  PROVE  GInv'
<1>1. UNCHANGED <<index, queue, armedNext, failedNext, task>> /\ Heard
  BY DEF UiContinueSame, advVars, Listen, UiAt, Heard
<1> USE <1>1, HandoffConstants DEF AInv, DataOK, DeviceInv, ListOK, GInv, ClientOK, CallbackOK, EventsOK, ArmedOK, ArmingOK, TitleOK,
      RetiredOK, Owed, Swapped, Swapping, Follows, HasNextRow, Arming, Ending, UiAt, CbAt, UiGoto, UiReturn, UiIdle,
      uiVars, infoVars, srcVars, fadeVars, eventVars, Heard
<1>2. CASE TeardownNextDrain
  BY <1>2 DEF TeardownNextDrain, InstallPendingSwap
<1>3. CASE TeardownNextUnpublish
  BY <1>3 DEF TeardownNextUnpublish
<1>4. CASE TeardownNextFadeCheck
  BY <1>4 DEF TeardownNextFadeCheck
<1>5. CASE TeardownNextQuiesce
  BY <1>5 DEF TeardownNextQuiesce
<1>6. CASE TeardownNextFree
  BY <1>6 DEF TeardownNextFree
<1>7. CASE PlayOpen
  BY <1>7, OpenedOnTrack DEF PlayOpen, TeardownAll, Quiesced
<1>8. CASE PlayStarted
  BY <1>8 DEF PlayStarted
<1>9. CASE StopFinish
  BY <1>9 DEF StopFinish, TeardownAll, Quiesced
<1>10. CASE SetDeviceFinish
  BY <1>10 DEF SetDeviceFinish
<1>11. CASE PauseFinish
  BY <1>11 DEF PauseFinish, Quiesced
<1>12. CASE PollPreload
  BY <1>12 DEF PollPreload
<1>13. CASE PollEnded
  BY <1>13 DEF PollEnded
<1>14. CASE TakeTrackEndAdvanced
  BY <1>14 DEF TakeTrackEndAdvanced
<1> QED
  BY <1>2, <1>3, <1>4, <1>5, <1>6, <1>7, <1>8, <1>9, <1>10, <1>11, <1>12, <1>13, <1>14 DEF UiContinueSame


\* No track is listed twice, so the row after the one that followed is another.
LEMMA AfterNextRow ==
  ASSUME ListOK, HasNextRow
  PROVE  /\ index + 1 \in DOMAIN Rows
         /\ index + 1 < Len(Rows) => Rows[index + 1 + 1] # Rows[index + 1]
<1>1. Rows \in Seq(Tracks) /\ index \in DOMAIN Rows /\ index < Len(Rows)
  BY AdvanceConstants DEF ListOK, HasNextRow
<1>2. index + 1 \in DOMAIN Rows /\ (index + 1 < Len(Rows) => index + 1 + 1 \in DOMAIN Rows)
  BY <1>1
<1>3. index + 1 # index + 1 + 1
  BY <1>1
<1> QED
  BY <1>2, <1>3, AdvanceConstants

LEMMA ClientKeepsGInv ==
  ASSUME Transport, AInv, GInv, AdvNext, ~AudioStep, ~UiContinueSame
  PROVE  GInv'
<1>1. Heard
  BY ClientStepHolds
<1> USE <1>1, HandoffConstants, RowIsTrack DEF AInv, DataOK, DeviceInv, ListOK, GInv, ClientOK, CallbackOK, EventsOK,
      ArmedOK, ArmingOK, TitleOK, RetiredOK, Owed, Swapped, Swapping, Follows, HasNextRow, Arming, Ending, UiAt, CbAt,
      UiGoto, UiReturn, UiIdle, UiCall, Callers, uiVars, infoVars, srcVars, fadeVars, eventVars, advVars, Heard
<1>3. CASE PreloadResult
  BY <1>3, OpenedOnTrack DEF PreloadResult, PreloadNextOpen, PreloadNextPublish
<1>4. CASE Reconcile
  BY <1>4 DEF Reconcile, ReconcileClears, ReconcileKeeps, ResolveNextPath, PeekNext, PollReturns, ClearNext, PreloadNext
<1>5. CASE OnPreload
  <2>1. index' = IF HasNextRow THEN index + 1 ELSE index
    BY <1>5 DEF OnPreload, AccountSwap, AdvanceIndex
  <2>2. Follows => ~Follows'
    BY <1>5, <2>1, AfterNextRow DEF OnPreload, CallbackReturns
  <2>3. UNCHANGED <<queue, armedNext, failedNext, task>>
    BY <1>5 DEF OnPreload, AccountSwap
  <2>4. ClientOK'
    BY <1>5, <2>1, <2>2, <2>3 DEF OnPreload, CallbackReturns
  <2>5. CallbackOK'
    BY <1>5, <2>1, <2>2, <2>3 DEF OnPreload, CallbackReturns
  <2>6. EventsOK'
    BY <1>5, <2>1, <2>2, <2>3 DEF OnPreload, CallbackReturns
  <2>7. ArmedOK'
    BY <1>5, <2>1, <2>2, <2>3 DEF OnPreload, CallbackReturns
  <2>8. ArmingOK'
    BY <1>5, <2>1, <2>2, <2>3 DEF OnPreload, CallbackReturns
  <2>9. TitleOK'
    BY <1>5, <2>1, <2>2, <2>3 DEF OnPreload, CallbackReturns
  <2>10. RetiredOK'
    BY <1>5, <2>1, <2>2, <2>3 DEF OnPreload, CallbackReturns
  <2> QED
    BY <2>4, <2>5, <2>6, <2>7, <2>8, <2>9, <2>10
<1>6. CASE OnTrackEndAdvanced
  <2>1. index' = IF HasNextRow THEN index + 1 ELSE index
    BY <1>6 DEF OnTrackEndAdvanced, AccountSwap, AdvanceIndex
  <2>2. Follows => ~Follows'
    BY <1>6, <2>1, AfterNextRow DEF OnTrackEndAdvanced, CallbackReturns
  <2>3. UNCHANGED <<queue, armedNext, failedNext, task>>
    BY <1>6 DEF OnTrackEndAdvanced, AccountSwap
  <2>4. ClientOK'
    BY <1>6, <2>1, <2>2, <2>3 DEF OnTrackEndAdvanced, CallbackReturns
  <2>5. CallbackOK'
    BY <1>6, <2>1, <2>2, <2>3 DEF OnTrackEndAdvanced, CallbackReturns
  <2>6. EventsOK'
    BY <1>6, <2>1, <2>2, <2>3 DEF OnTrackEndAdvanced, CallbackReturns
  <2>7. ArmedOK'
    BY <1>6, <2>1, <2>2, <2>3 DEF OnTrackEndAdvanced, CallbackReturns
  <2>8. ArmingOK'
    BY <1>6, <2>1, <2>2, <2>3 DEF OnTrackEndAdvanced, CallbackReturns
  <2>9. TitleOK'
    BY <1>6, <2>1, <2>2, <2>3 DEF OnTrackEndAdvanced, CallbackReturns
  <2>10. RetiredOK'
    BY <1>6, <2>1, <2>2, <2>3 DEF OnTrackEndAdvanced, CallbackReturns
  <2> QED
    BY <2>4, <2>5, <2>6, <2>7, <2>8, <2>9, <2>10
<1>7. CASE OnTrackEnded
  BY <1>7 DEF OnTrackEnded, AdvanceIndex, Play, Stop, TeardownBegin, Done
<1>8. CASE OnTrackEndedReturns
  BY <1>8 DEF OnTrackEndedReturns, CallbackReturns, Done, Ask
<1>9. CASE KeyEnter
  BY <1>9 DEF KeyEnter, KeyIdle, Play, TeardownBegin
<1>10. CASE KeyNext
  BY <1>10 DEF KeyNext, KeyIdle, AdvanceIndex, Play, Stop, TeardownBegin
<1>11. CASE KeyOther /\ ~SetDevice
  BY <1>11 DEF KeyOther, KeyIdle, Pause, Resume, Stop, TeardownBegin
<1>12. CASE Tick
  BY <1>12 DEF Tick, PollInstall, InstallPendingSwap
<1> QED
  BY <1>3, <1>4, <1>5, <1>6, <1>7, <1>8, <1>9, <1>10, <1>11, <1>12, ClientStepHolds


\* The row has reached the audible track, or does so with the swap it still owes.  (It may be
\* further: play() leaves preload_next_flag_ up, and the next tick accounts for that fade too.)
Reached(row) == \E r \in DOMAIN Rows : r <= row /\ Rows[r] = file.track

RowOK ==
  /\ UiAt("play_stop") => ui.arg = Rows[index]
  /\ UiAt("play_started") => file # NoSrc /\ file.track = Rows[index]
  /\ file # NoSrc /\ ui.pc \notin Ending => Reached(IF Owed THEN index + 1 ELSE index)

\* One whole tick after a source became audible, what follows it is armed or cannot be, and the
\* reconcile has no more to do.
SettledOK ==
  /\ UiAt("play_started") => heard = 0 /\ ~Swapped
  /\ heard = 1 /\ state # "Stopped" => ui.pc \notin {"idle", "pause_stop"}
  /\ heard = 2 /\ state # "Stopped" =>
       ui.pc \notin Arming /\ (armed \/ crossfading \/ ~HasNextRow \/ failedNext = Rows[index + 1])
  /\ ui.pc \in Arming /\ ui.arg = NoTrack => ~HasNextRow

\* So a track that ends with nothing armed is followed by no splice until its end is delivered.
SilentEnd == \/ ended /\ ~advanced
             \/ UiAt("on_end") /\ ~advanced
             \/ UiAt("on_ended") /\ task = Ask

SilentOK ==
  /\ CbAt("flag_ended") /\ Swapped => advanced /\ ~ended /\ ~UiAt("on_end")
  /\ cb.pc \in {"mark", "flag_ended"} /\ ~Swapped => ~armed
  /\ SilentEnd => heard = 2 /\ ~armed /\ ~Owed
  /\ UiAt("on_end") /\ advanced => ~ended
  /\ ui.ret = "on_ended" => task = Done /\ ui.pc \in Ending \cup {"play_started"}

SInv == RowOK /\ SettledOK /\ SilentOK


LEMMA AudioKeepsSInv ==
  ASSUME Transport, ~ReadsThrow, AInv, GInv, SInv, AudioStep, Listen
  PROVE  SettledOK' /\ SilentOK'
<1>1. /\ UNCHANGED <<state, device, repeatOne, current, nextInfo, ui, index, queue, armedNext, failedNext, task>>
      /\ Heard
      /\ heard < 2 /\ cb.pc \in {"idle", "read"} => cb'.read = "full" /\ cb'.pc # "trigger"
  BY AudioStepHolds
<1>2. CbAt("read") /\ cb'.pc = "idle" => ended' = ended
  BY DEF AudioStep
<1> USE <1>1, <1>2 DEF AInv, DataOK, GInv, ClientOK, CallbackOK, EventsOK, ArmedOK, Ask, Done, SInv, SettledOK, SilentOK, SilentEnd,
      Owed, Swapped, Swapping, Follows, HasNextRow, Arming, Ending, UiAt, CbAt, CbGoto, CbAfter, CbIdle, AfterSwap,
      srcVars, fadeVars, eventVars, Heard
<1>3. CASE CallbackBegin
  BY <1>3 DEF CallbackBegin
<1>4. CASE CallbackTrigger
  BY <1>4 DEF CallbackTrigger
<1>5. CASE CallbackRead
  BY <1>5 DEF CallbackRead
<1>6. CASE CallbackMix
  BY <1>6 DEF CallbackMix
<1>7. CASE CallbackSplice
  BY <1>7 DEF CallbackSplice
<1>8. CASE InitCrossfadeEnter
  BY <1>8 DEF InitCrossfadeEnter
<1>9. CASE InitCrossfadeRetire
  BY <1>9 DEF InitCrossfadeRetire
<1>10. CASE InitCrossfadeTake
  BY <1>10 DEF InitCrossfadeTake
<1>11. CASE InitCrossfadeUnpublish
  BY <1>11 DEF InitCrossfadeUnpublish
<1>12. CASE InitCrossfadeFlag
  BY <1>12 DEF InitCrossfadeFlag
<1>13. CASE CallbackFadeDone
  BY <1>13 DEF CallbackFadeDone
<1>14. CASE CallbackFlagPreload
  BY <1>14 DEF CallbackFlagPreload
<1>15. CASE CallbackMark
  BY <1>15 DEF CallbackMark
<1>16. CASE CallbackFlagEnded
  BY <1>16 DEF CallbackFlagEnded
<1>17. CASE CallbackThrow
  BY <1>17 DEF CallbackThrow
<1> QED
  BY <1>3, <1>4, <1>5, <1>6, <1>7, <1>8, <1>9, <1>10, <1>11, <1>12, <1>13, <1>14, <1>15, <1>16, <1>17
     DEF AudioStep, AudioCallback

LEMMA ContinueKeepsSInv ==
  ASSUME Transport, AInv, GInv, SInv, UiContinueSame, Listen
  PROVE  SettledOK' /\ SilentOK'
<1>1. UNCHANGED <<index, queue, armedNext, failedNext, task>> /\ Heard
  BY DEF UiContinueSame, advVars, Listen, UiAt, Heard
<1> USE <1>1 DEF AInv, DataOK, DeviceInv, ListOK, GInv, ClientOK, CallbackOK, EventsOK, ArmedOK, ArmingOK, Ask, Done, SInv,
      SettledOK, SilentOK, SilentEnd, Owed, Swapped, Swapping, Follows, HasNextRow, Arming, Ending, UiAt, CbAt,
      UiGoto, UiReturn, UiIdle, uiVars, infoVars, srcVars, fadeVars, eventVars, Heard
<1>2. CASE TeardownNextDrain
  BY <1>2 DEF TeardownNextDrain, InstallPendingSwap
<1>3. CASE TeardownNextUnpublish
  BY <1>3 DEF TeardownNextUnpublish
<1>4. CASE TeardownNextFadeCheck
  BY <1>4 DEF TeardownNextFadeCheck
<1>5. CASE TeardownNextQuiesce
  BY <1>5 DEF TeardownNextQuiesce
<1>6. CASE TeardownNextFree
  BY <1>6 DEF TeardownNextFree
<1>7. CASE PlayOpen
  <2>1. SettledOK'
    BY <1>7, OpenedOnTrack DEF PlayOpen, TeardownAll, Quiesced
  <2>2. SilentOK'
    BY <1>7, OpenedOnTrack DEF PlayOpen, TeardownAll, Quiesced
  <2> QED
    BY <2>1, <2>2
<1>8. CASE PlayStarted
  <2>1. SettledOK'
    BY <1>8 DEF PlayStarted
  <2>2. SilentOK'
    BY <1>8 DEF PlayStarted
  <2> QED
    BY <2>1, <2>2
<1>9. CASE StopFinish
  <2>1. SettledOK'
    BY <1>9 DEF StopFinish, TeardownAll, Quiesced
  <2>2. SilentOK'
    BY <1>9 DEF StopFinish, TeardownAll, Quiesced
  <2> QED
    BY <2>1, <2>2
<1>10. CASE SetDeviceFinish
  BY <1>10 DEF SetDeviceFinish
<1>11. CASE PauseFinish
  <2>1. SettledOK'
    BY <1>11 DEF PauseFinish, Quiesced
  <2>2. SilentOK'
    BY <1>11 DEF PauseFinish, Quiesced
  <2> QED
    BY <2>1, <2>2
<1>12. CASE PollPreload
  BY <1>12 DEF PollPreload
<1>13. CASE PollEnded
  BY <1>13 DEF PollEnded
<1>14. CASE TakeTrackEndAdvanced
  <2>1. SettledOK'
    BY <1>14 DEF TakeTrackEndAdvanced
  <2>2. SilentOK'
    BY <1>14 DEF TakeTrackEndAdvanced
  <2> QED
    BY <2>1, <2>2
<1> QED
  BY <1>2, <1>3, <1>4, <1>5, <1>6, <1>7, <1>8, <1>9, <1>10, <1>11, <1>12, <1>13, <1>14 DEF UiContinueSame



LEMMA ClientKeepsSInv ==
  ASSUME Transport, AInv, GInv, SInv, AdvNext, ~AudioStep, ~UiContinueSame
  PROVE  SettledOK' /\ SilentOK'
<1>1. Heard
  BY ClientStepHolds
<1> USE <1>1 DEF AInv, DataOK, ListOK, GInv, ClientOK, CallbackOK, EventsOK, ArmedOK, ArmingOK, SInv, SettledOK,
      SilentOK, SilentEnd, Owed, Swapped, Swapping, Follows, HasNextRow, Arming, Ending, UiAt, CbAt, Ask, Done,
      UiGoto, UiReturn, UiIdle, UiCall, Callers, uiVars, infoVars, srcVars, fadeVars, eventVars, advVars, Heard
<1>3. CASE PreloadResult
  BY <1>3 DEF PreloadResult, PreloadNextOpen, PreloadNextPublish
<1>4. CASE Reconcile
  BY <1>4, HandoffConstants, RowIsTrack, NextRow DEF Reconcile, ReconcileClears, ReconcileKeeps, ResolveNextPath, PeekNext, PollReturns, ClearNext, PreloadNext
<1>5. CASE OnPreload
  BY <1>5 DEF OnPreload, AccountSwap, AdvanceIndex, CallbackReturns
<1>6. CASE OnTrackEndAdvanced
  BY <1>6 DEF OnTrackEndAdvanced, AccountSwap, AdvanceIndex, CallbackReturns
<1>7. CASE OnTrackEnded
  BY <1>7 DEF OnTrackEnded, AdvanceIndex, Play, Stop, TeardownBegin
<1>8. CASE OnTrackEndedReturns
  BY <1>8 DEF OnTrackEndedReturns, CallbackReturns
<1>9. CASE KeyEnter
  BY <1>9 DEF KeyEnter, KeyIdle, Play, TeardownBegin
<1>10. CASE KeyNext
  BY <1>10 DEF KeyNext, KeyIdle, AdvanceIndex, Play, Stop, TeardownBegin
<1>11. CASE KeyOther /\ ~SetDevice
  BY <1>11 DEF KeyOther, KeyIdle, Pause, Resume, Stop, TeardownBegin
<1>12. CASE Tick
  BY <1>12 DEF Tick, PollInstall
<1> QED
  BY <1>3, <1>4, <1>5, <1>6, <1>7, <1>8, <1>9, <1>10, <1>11, <1>12, ClientStepHolds


\* The row that a step keeps within reach stays there when the row or the debt grows.
LEMMA ReachedStays ==
  ASSUME NEW a \in Int, NEW b \in Int, a <= b, Reached(a)
  PROVE  Reached(b)
<1>1. PICK r \in DOMAIN Rows : r <= a /\ Rows[r] = file.track
  BY DEF Reached
<1>2. DOMAIN Rows \subseteq Int
  BY AdvanceConstants
<1>3. r <= b
  BY <1>1, <1>2
<1> QED
  BY <1>1, <1>3 DEF Reached

LEMMA AudioKeepsRow ==
  ASSUME Transport, AInv, GInv, RowOK, AudioStep, Listen
  PROVE  RowOK'
<1>1. UNCHANGED <<state, device, repeatOne, current, nextInfo, ui, index, queue, armedNext, failedNext, task>>
  BY AudioStepHolds
<1>2. index \in Int /\ index + 1 \in Int /\ index <= index + 1 /\ index <= index
  BY AdvanceConstants DEF AInv, ListOK
<1>3. CASE file' = file
  <2>1. Owed => Owed'
    <3> USE <1>1 DEF GInv, CallbackOK, EventsOK, Owed, Swapped, UiAt, CbAt, CbGoto, CbAfter, CbIdle, AfterSwap,
          eventVars, AInv, DataOK
    <3>1. CASE CallbackBegin \/ CallbackTrigger \/ CallbackRead \/ CallbackThrow \/ CallbackMix \/ CallbackSplice
      BY <3>1 DEF CallbackBegin, CallbackTrigger, CallbackRead, CallbackThrow, CallbackMix, CallbackSplice
    <3>2. CASE InitCrossfadeEnter \/ InitCrossfadeUnpublish \/ InitCrossfadeFlag \/ CallbackFadeDone
      BY <3>2 DEF InitCrossfadeEnter, InitCrossfadeUnpublish, InitCrossfadeFlag, CallbackFadeDone
    <3>3. CASE InitCrossfadeRetire \/ InitCrossfadeTake
      BY <3>3 DEF InitCrossfadeRetire, InitCrossfadeTake
    <3>4. CASE CallbackFlagPreload
      BY <3>4 DEF CallbackFlagPreload
    <3>5. CASE CallbackMark
      <4>1. CASE cb.how = "splice"
        BY <3>5, <4>1 DEF CallbackMark
      <4>2. CASE cb.how # "splice"
        BY <3>5, <4>2 DEF CallbackMark
      <4> QED
        BY <4>1, <4>2
    <3>6. CASE CallbackFlagEnded
      BY <3>6 DEF CallbackFlagEnded
    <3> QED
      BY <3>1, <3>2, <3>3, <3>4, <3>5, <3>6 DEF AudioStep, AudioCallback
  <2>2. file # NoSrc /\ ui.pc \notin Ending => Reached(IF Owed' THEN index + 1 ELSE index)
    BY <1>2, <2>1, ReachedStays DEF RowOK
  <2> QED
    BY <1>1, <1>3, <2>2 DEF RowOK, Reached, UiAt
<1>4. CASE file' # file
  <2>1. InitCrossfadeRetire \/ InitCrossfadeTake
    BY <1>4 DEF AudioStep, AudioCallback, CallbackBegin, CallbackTrigger, CallbackRead, CallbackThrow, CallbackMix,
       CallbackSplice, InitCrossfadeEnter, InitCrossfadeUnpublish, InitCrossfadeFlag, CallbackFadeDone,
       CallbackFlagPreload, CallbackMark, CallbackFlagEnded, srcVars
  <2>2. CASE InitCrossfadeRetire
    <3>1. file' = NoSrc /\ CbAt("retire")
      BY <2>2 DEF InitCrossfadeRetire
    <3>2. ~UiAt("play_started")
      BY <3>1 DEF GInv, CallbackOK, Swapping, ClientOK, ArmedOK, UiAt, CbAt, Ending
    <3> QED
      BY <1>1, <3>1, <3>2 DEF RowOK, UiAt
  <2>3. CASE InitCrossfadeTake
    <3>1. CbAt("take") /\ armed /\ file' = next /\ Owed' /\ cb'.pc = "unpublish"
      BY <2>3 DEF InitCrossfadeTake, GInv, CallbackOK, Swapping, CbAt, CbGoto, Owed, Swapped, AInv, DataOK
    <3>2. ui.pc \notin Ending => index + 1 \in DOMAIN Rows /\ next.track = Rows[index + 1]
      BY <3>1, NextRow DEF GInv, ArmedOK, TitleOK, CbAt, Swapping, Follows, AInv
    <3>3. file' # NoSrc /\ ui.pc \notin Ending => Reached(index + 1)'
      BY <1>1, <1>2, <3>1, <3>2 DEF Reached
    <3>4. ~UiAt("play_started")
      BY <3>1 DEF GInv, ClientOK, ArmedOK, UiAt, Ending
    <3> QED
      BY <1>1, <3>1, <3>3, <3>4 DEF RowOK, UiAt
  <2> QED
    BY <2>1, <2>2, <2>3
<1> QED
  BY <1>3, <1>4


LEMMA ContinueKeepsRow ==
  ASSUME Transport, AInv, GInv, SInv, UiContinueSame, Listen
  PROVE  RowOK'
<1>1. UNCHANGED <<index, queue, armedNext, failedNext, task>>
  BY DEF UiContinueSame, advVars
<1>2. index \in Int /\ index + 1 \in Int /\ index <= index + 1 /\ index <= index
  BY AdvanceConstants DEF AInv, ListOK
<1>3. RowOK /\ ~UiAt("setdev_stop") /\ ~UiAt("quiesce") /\ index \in DOMAIN Rows
  BY DEF SInv, GInv, ClientOK, UiAt, AInv, ListOK
<1>4. CASE PlayOpen
  <2>1. CASE file' = NoSrc
    <3>1. ui'.pc \in {"idle", "on_ended"}
      BY <1>4, <2>1, OpenedOnTrack DEF PlayOpen, UiReturn, UiIdle, AInv, DataOK
    <3> QED
      BY <2>1, <3>1 DEF RowOK, UiAt
  <2>2. CASE file' # NoSrc
    <3>1. file'.track = Rows[index] /\ ui'.pc = "play_started"
      BY <1>3, <1>4, <2>2, OpenedOnTrack DEF PlayOpen, RowOK, UiAt, UiGoto, AInv, DataOK
    <3>2. Reached(index)' /\ Reached(index + 1)'
      BY <1>1, <1>2, <1>3, <3>1 DEF Reached
    <3>3. Reached(index)' /\ Reached(index + 1)' => Reached(IF Owed THEN index + 1 ELSE index)'
      OBVIOUS
    <3> QED
      BY <1>1, <2>2, <3>1, <3>2, <3>3 DEF RowOK, UiAt
  <2> QED
    BY <2>1, <2>2
<1>5. CASE StopFinish
  BY <1>5 DEF StopFinish, RowOK, UiAt, UiReturn, UiIdle, AInv, DataOK
<1>6. CASE PlayStarted
  <2>1. file' = file /\ file # NoSrc /\ file.track = Rows[index] /\ ui'.pc \in {"idle", "on_ended"}
    BY <1>3, <1>6 DEF PlayStarted, RowOK, UiAt, UiReturn, UiIdle, srcVars, AInv, DataOK
  <2>2. Reached(index)' /\ Reached(index + 1)'
    BY <1>1, <1>2, <1>3, <2>1 DEF Reached
  <2>3. Reached(index)' /\ Reached(index + 1)' => Reached(IF Owed THEN index + 1 ELSE index)'
    OBVIOUS
  <2> QED
    BY <2>1, <2>2, <2>3 DEF RowOK, UiAt
<1>7. CASE ~PlayOpen /\ ~StopFinish /\ ~PlayStarted
  <2> USE DEF UiAt, UiGoto, UiReturn, UiIdle, srcVars, eventVars, AInv, DataOK
  <2>1. /\ \/ TeardownNextDrain \/ TeardownNextUnpublish \/ TeardownNextFadeCheck \/ TeardownNextFree
           \/ PauseFinish \/ PollPreload \/ PollEnded \/ TakeTrackEndAdvanced
        /\ cb' = cb
    BY <1>3, <1>7 DEF UiContinueSame, TeardownNextDrain, TeardownNextUnpublish, TeardownNextFadeCheck, TeardownNextFree,
       PauseFinish, PollPreload, PollEnded, TakeTrackEndAdvanced, TeardownNextQuiesce, SetDeviceFinish
  <2>2. file' = file
    BY <2>1 DEF TeardownNextDrain, TeardownNextUnpublish, TeardownNextFadeCheck, TeardownNextFree,
       PauseFinish, PollPreload, PollEnded, TakeTrackEndAdvanced
  <2>3. ui.pc \notin Ending /\ ui'.pc \notin Ending /\ ui'.pc # "play_started"
    BY <2>1 DEF TeardownNextDrain, TeardownNextUnpublish, TeardownNextFadeCheck, TeardownNextFree,
       PauseFinish, PollPreload, PollEnded, TakeTrackEndAdvanced, Ending
  <2>4. Owed => Owed'
    <3> USE <2>1 DEF Owed, Swapped, CbAt
    <3>1. CASE TeardownNextDrain \/ TeardownNextUnpublish \/ TeardownNextFadeCheck
      BY <3>1 DEF TeardownNextDrain, TeardownNextUnpublish, TeardownNextFadeCheck
    <3>2. CASE TeardownNextFree \/ PauseFinish
      BY <3>2 DEF TeardownNextFree, PauseFinish
    <3>3. CASE PollPreload
      BY <3>3 DEF PollPreload
    <3>4. CASE PollEnded
      BY <3>4 DEF PollEnded
    <3>5. CASE TakeTrackEndAdvanced
      BY <3>5 DEF TakeTrackEndAdvanced
    <3> QED
      BY <3>1, <3>2, <3>3, <3>4, <3>5
  <2>5. file # NoSrc => Reached(IF Owed' THEN index + 1 ELSE index)
    BY <1>2, <1>3, <2>3, <2>4, ReachedStays DEF RowOK
  <2> QED
    BY <1>1, <2>2, <2>3, <2>5 DEF RowOK, Reached, Ending
<1> QED
  BY <1>4, <1>5, <1>6, <1>7

LEMMA ClientKeepsRow ==
  ASSUME Transport, AInv, GInv, SInv, AdvNext, ~AudioStep, ~UiContinueSame
  PROVE  RowOK'
<1>1. file' = file /\ index \in DOMAIN Rows /\ RowOK
  BY ClientStepHolds DEF AInv, ListOK, SInv
<1>2. index \in Int /\ index + 1 \in Int /\ index <= index + 1 /\ index <= index
  BY AdvanceConstants DEF AInv, ListOK
<1>3. CASE OnTrackEnded \/ KeyEnter \/ KeyNext \/ (KeyOther /\ Stop)
  <2>1. ui'.pc \in {"stop_stop", "play_stop"} /\ (ui'.pc = "play_stop" => ui'.arg = Rows[index'])
    BY <1>3 DEF OnTrackEnded, KeyEnter, KeyNext, Play, Stop, TeardownBegin, UiCall, AdvanceIndex, GInv, ClientOK
  <2> QED
    BY <2>1 DEF RowOK, UiAt, Ending
<1>4. CASE OnPreload \/ OnTrackEndAdvanced
  <2>1. /\ ui'.pc \in {"poll_ended", "polled"} /\ ui.pc \notin Ending
        /\ Owed
        /\ index' = IF HasNextRow THEN index + 1 ELSE index
    BY <1>4 DEF OnPreload, OnTrackEndAdvanced, CallbackReturns, AccountSwap, AdvanceIndex, UiAt, UiGoto, Owed, Ending,
       GInv, ClientOK, AInv, DataOK
  <2>2. ASSUME file # NoSrc PROVE Reached(index')
    <3>1. PICK r \in DOMAIN Rows : r <= index + 1 /\ Rows[r] = file.track
      BY <1>1, <2>1, <2>2 DEF RowOK, Reached
    <3>2. r \in 1 .. Len(Rows) /\ index \in 1 .. Len(Rows)
      BY <1>1, AdvanceConstants
    <3>3. r <= index'
      BY <2>1, <3>1, <3>2 DEF HasNextRow
    <3> QED
      BY <3>1, <3>3 DEF Reached
  <2>3. index' \in Int /\ index' + 1 \in Int /\ index' <= index' + 1
    BY <1>2, <2>1
  <2>4. file # NoSrc => Reached(index') /\ Reached(index' + 1)
    BY <2>2, <2>3, ReachedStays
  <2>5. file # NoSrc => Reached(IF Owed' THEN index' + 1 ELSE index')
    BY <2>4
  <2> QED
    BY <1>1, <2>1, <2>5 DEF RowOK, Reached, UiAt
<1>5. CASE PreloadResult \/ Reconcile \/ OnTrackEndedReturns \/ Tick \/ (KeyOther /\ ~Stop /\ ~SetDevice)
  <2> USE <1>5 DEF PreloadResult, PreloadNextOpen, PreloadNextPublish, Reconcile, PollReturns, ClearNext, PreloadNext,
        OnTrackEndedReturns, CallbackReturns, Tick, PollInstall, KeyOther, Pause, Resume, UiAt, UiGoto, UiCall,
        UiReturn, UiIdle, AInv, DataOK
  <2>1. index' = index
    BY DEF advVars
  <2>2. ui.pc \notin Ending /\ ui'.pc \notin Ending /\ ui'.pc # "play_started"
    BY DEF Ending, uiVars
  <2>3. Owed => Owed'
    BY DEF Owed, Swapped, CbAt, eventVars
  <2>4. file # NoSrc => Reached(IF Owed' THEN index + 1 ELSE index)
    BY <1>1, <1>2, <2>2, <2>3, ReachedStays DEF RowOK
  <2> QED
    BY <1>1, <2>1, <2>2, <2>4 DEF RowOK, Reached, Ending
<1> QED
  BY <1>3, <1>4, <1>5, ClientStepHolds DEF KeyOther


LEMMA InitClient == Transport /\ AdvInit => GInv /\ SInv
<1> SUFFICES ASSUME Transport, AdvInit PROVE GInv /\ SInv
  OBVIOUS
<1> USE DEF AdvInit, Init, UiIdle, CbIdle, Ask, Done, UiAt, CbAt, Ending, Arming, Swapping, Swapped, Owed
<1>1. ClientOK /\ CallbackOK /\ EventsOK /\ ArmedOK /\ ArmingOK /\ TitleOK /\ RetiredOK
  BY DEF ClientOK, CallbackOK, EventsOK, ArmedOK, ArmingOK, TitleOK, RetiredOK
<1>2. RowOK /\ SettledOK /\ SilentOK
  BY DEF RowOK, SettledOK, SilentOK, SilentEnd
<1> QED
  BY <1>1, <1>2 DEF GInv, SInv

LEMMA ClientInvariant == ASSUME Transport PROVE AdvSpec => [](AInv /\ GInv)
<1>1. AdvInit => GInv
  BY InitClient
<1>2. AInv /\ GInv /\ [AdvNext]_allVars => GInv'
  <2> SUFFICES ASSUME AInv, GInv, [AdvNext]_allVars PROVE GInv'
    OBVIOUS
  <2>1. CASE UNCHANGED allVars
    BY <2>1 DEF allVars, advVars, vars, uiVars, infoVars, srcVars, fadeVars, eventVars, GInv, ClientOK, CallbackOK,
       EventsOK, ArmedOK, ArmingOK, TitleOK, RetiredOK, Owed, Swapped, Swapping, Follows, HasNextRow, UiAt, CbAt
  <2>2. CASE AdvNext
    BY <2>2, AudioKeepsGInv, ContinueKeepsGInv, ClientKeepsGInv DEF AdvNext
  <2> QED
    BY <2>1, <2>2
<1> QED
  BY <1>1, <1>2, DeviceInvariant, PTL DEF AdvSpec


\* "the free happens on the main thread, never in the audio callback": the source that the last
\* swap retired is reaped before the next swap moves another in.
THEOREM FreedByTheUi == ASSUME Transport PROVE AdvSpec => []NoFreeInCallback
<1>1. GInv => NoFreeInCallback
  <2> SUFFICES ASSUME GInv, CbAt("retire"), retired # NoSrc PROVE FALSE
    BY DEF NoFreeInCallback
  <2>1. swapFlag /\ armed /\ heard = 2
    BY DEF GInv, RetiredOK, CallbackOK, Swapping, CbAt
  <2> QED
    BY <2>1 DEF GInv, RetiredOK
<1> QED
  BY <1>1, ClientInvariant, PTL


\* The track-end callback never plays from its start the track that a splice has already made
\* audible: an end it takes for a silent one is that of the track the row is on.
THEOREM SplicedOncePlayed ==
  ASSUME Transport, ~ReadsThrow
  PROVE  AdvSpec => NoRestartOfSplicedTrack
<1>1. AdvInit => SInv
  BY InitClient
<1>2. AInv /\ GInv /\ SInv /\ [AdvNext]_allVars => SInv'
  <2> SUFFICES ASSUME AInv, GInv, SInv, [AdvNext]_allVars PROVE SInv'
    OBVIOUS
  <2>1. CASE UNCHANGED allVars
    BY <2>1 DEF allVars, advVars, vars, uiVars, infoVars, srcVars, fadeVars, eventVars, SInv, RowOK, SettledOK, SilentOK,
       SilentEnd, Reached, Owed, Swapped, HasNextRow, UiAt, CbAt
  <2>2. CASE AdvNext /\ AudioStep
    BY <2>2, AudioKeepsSInv, AudioKeepsRow DEF SInv, AdvNext
  <2>3. CASE AdvNext /\ UiContinueSame
    BY <2>3, ContinueKeepsSInv, ContinueKeepsRow DEF SInv, AdvNext
  <2>4. CASE AdvNext /\ ~AudioStep /\ ~UiContinueSame
    BY <2>4, ClientKeepsSInv, ClientKeepsRow DEF SInv
  <2> QED
    BY <2>1, <2>2, <2>3, <2>4
<1>3. AInv /\ GInv /\ SInv /\ [AdvNext]_allVars =>
        [UiAt("on_ended") /\ ui'.pc = "play_stop" /\ file # NoSrc /\ ~repeatOne => ui'.arg # file.track]_allVars
  <2> SUFFICES ASSUME AInv, GInv, SInv, AdvNext, UiAt("on_ended"), ui'.pc = "play_stop", file # NoSrc
               PROVE  ui'.arg # file.track
    OBVIOUS
  <2>1. ~AudioStep /\ ~UiContinueSame
    <3>1. ~AudioStep
      BY AudioStepHolds DEF AdvNext, UiAt
    <3>2. ~UiContinueSame
      BY DEF UiContinueSame, TeardownNextDrain, TeardownNextUnpublish, TeardownNextFadeCheck, TeardownNextQuiesce,
         TeardownNextFree, PlayOpen, PlayStarted, StopFinish, SetDeviceFinish, PauseFinish, PollPreload, PollEnded,
         TakeTrackEndAdvanced, UiAt
    <3> QED
      BY <3>1, <3>2
  <2>2. OnTrackEnded
    <3>1. ~PreloadResult /\ ~Reconcile /\ ~OnPreload /\ ~OnTrackEndAdvanced
      BY DEF PreloadResult, PreloadNextOpen, PreloadNextPublish, Reconcile, OnPreload, OnTrackEndAdvanced, UiAt
    <3>2. ~KeyEnter /\ ~KeyNext /\ ~KeyOther /\ ~Tick
      BY DEF KeyEnter, KeyNext, KeyOther, KeyIdle, Tick, UiAt
    <3>3. ~OnTrackEndedReturns
      BY DEF OnTrackEndedReturns, CallbackReturns, UiAt, UiGoto, AInv, DataOK
    <3> QED
      BY <2>1, <3>1, <3>2, <3>3, ClientStepHolds
  <2>3. task = Ask /\ HasNextRow /\ ui'.arg = Rows[index + 1]
    BY <2>2 DEF OnTrackEnded, Play, Stop, TeardownBegin, UiCall, GInv, ClientOK
  <2>4. Reached(index)
    BY <2>3 DEF SInv, SilentOK, SilentEnd, RowOK, UiAt, Ending
  <2>5. PICK r \in DOMAIN Rows : r <= index /\ Rows[r] = file.track
    BY <2>4 DEF Reached
  <2>6. index + 1 \in DOMAIN Rows /\ r # index + 1
    BY <2>3, <2>5, NextRow, AdvanceConstants DEF AInv, ListOK
  <2> QED
    BY <2>3, <2>5, <2>6, AdvanceConstants
<1> QED
  BY <1>1, <1>2, <1>3, ClientInvariant, PTL DEF AdvSpec, NoRestartOfSplicedTrack
=============================================================================
