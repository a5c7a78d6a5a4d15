--------------------------- MODULE StreamRecorder ---------------------------
(***************************************************************************)
(* The PCM capture of a radio session: the audio callback pushes blocks    *)
(* into a ring, the worker drains it into the open cut and rolls the cut   *)
(* when the station's title changes, the user-interface thread starts,     *)
(* stops and hands over titles.  Frames are counted, not stored: accepted  *)
(* frames are numbered by wpos, and a cut is a run of those numbers.       *)
(***************************************************************************)
EXTENDS Naturals, FiniteSets

CONSTANTS
  RingFrames,       \* ring_frames_
  MaxBlock,         \* frames of the longest callback block
  Chunk,            \* frames the worker drains at once
  Offsets,          \* split_offset_ms in frames; 0 is an immediate split
  Titles,           \* what the station announces
  Ads,              \* titles looksLikeRealTrack rejects
  Discards,         \* values of ads_discard
  Untitled,         \* no title yet ("")
  MaxFrames         \* bound: frames accepted in one session

ASSUME RecorderAssumption ==
  /\ RingFrames \in Nat /\ MaxBlock \in Nat \ {0} /\ Chunk \in Nat \ {0}
  /\ Offsets \subseteq Nat /\ Ads \subseteq Titles /\ Untitled \notin Titles
  /\ Discards \subseteq BOOLEAN /\ MaxFrames \in Nat

VARIABLES
  running, capturing, stopReq,      \* running_, capturing_, stop_req_
  wpos, rpos, pushed,               \* wpos_, rpos_, the wpos_ a push in progress will store (0: none)
  pending, split,                   \* pending_raw_, split_pending_
  ui,                               \* user interface: "idle", "flag" (in onTitle), "join" (in stop)
  wpc, avail, rest, healthy,        \* worker: where it is, snapshot left, frames kept for the next cut
  offset, discard,                  \* opt_
  cutOpen, cutRaw, cutFrames, suppressed, hold, holdLeft,
  filed, error                      \* frames of the finished cuts, error_ # ""

audio  == <<wpos, pushed>>
meta   == <<pending, split>>
cut    == <<cutOpen, cutRaw, cutFrames, suppressed>>
held   == <<hold, holdLeft>>
record == <<filed, error>>
opt    == <<offset, discard>>
flags  == <<running, capturing, stopReq>>
recVars == <<flags, audio, rpos, meta, ui, wpc, avail, rest, healthy, opt, cut, held, record>>

AllTitles == Titles \cup {Untitled}
WorkerPlaces == {"none", "adopt", "adoptLock", "arm", "snapshot", "chunk", "roll",
                 "rollAdopt", "keep", "tail", "empty", "stopCheck", "exit"}

RecInit ==
  /\ running = FALSE /\ capturing = FALSE /\ stopReq = FALSE
  /\ wpos = 0 /\ rpos = 0 /\ pushed = 0
  /\ pending = Untitled /\ split = FALSE /\ ui = "idle"
  /\ wpc = "none" /\ avail = 0 /\ rest = 0 /\ healthy = TRUE
  /\ offset \in Offsets /\ discard \in Discards
  /\ cutOpen = FALSE /\ cutRaw = Untitled /\ cutFrames = 0 /\ suppressed = FALSE
  /\ hold = FALSE /\ holdLeft = 0
  /\ filed = 0 /\ error = FALSE

Min2(a, b) == IF a <= b THEN a ELSE b

-----------------------------------------------------------------------------
(* The user-interface thread. *)

\* start(): every field of the session is reset, then the worker runs and the tap opens.
\* No push of the last session is still in progress (it takes microseconds).
Start ==
  /\ ui = "idle" /\ ~running /\ pushed = 0
  /\ running' = TRUE /\ capturing' = TRUE /\ stopReq' = FALSE
  /\ wpos' = 0 /\ rpos' = 0
  /\ pending' = Untitled /\ split' = FALSE
  /\ wpc' = "adopt" /\ avail' = 0 /\ rest' = 0 /\ healthy' = TRUE
  /\ offset' \in Offsets /\ discard' \in Discards
  /\ cutOpen' = FALSE /\ cutRaw' = Untitled /\ cutFrames' = 0 /\ suppressed' = FALSE
  /\ hold' = FALSE /\ holdLeft' = 0
  /\ filed' = 0 /\ error' = FALSE
  /\ UNCHANGED <<pushed, ui>>

\* stop(): close the tap, ask the worker, join it.
StopBegin ==
  /\ ui = "idle"
  /\ capturing' = FALSE /\ stopReq' = TRUE /\ ui' = "join"
  /\ UNCHANGED <<running, audio, rpos, meta, wpc, avail, rest, healthy, opt, cut, held, record>>

StopJoin ==
  /\ ui = "join" /\ wpc = "none"
  /\ running' = FALSE /\ ui' = "idle"
  /\ UNCHANGED <<capturing, stopReq, audio, rpos, meta, wpc, avail, rest, healthy, opt, cut,
                 held, record>>

\* onTitle(): a repeat is dropped; the title is set under the lock ...
TitleSet == \E t \in Titles :
  /\ ui = "idle" /\ running /\ t # pending
  /\ pending' = t /\ ui' = "flag"
  /\ UNCHANGED <<flags, audio, rpos, split, wpc, avail, rest, healthy, opt, cut, held, record>>

\* ... and the flag is raised after the lock is released.
TitleFlag ==
  /\ ui = "flag"
  /\ split' = TRUE /\ ui' = "idle"
  /\ UNCHANGED <<flags, audio, rpos, pending, wpc, avail, rest, healthy, opt, cut, held, record>>

-----------------------------------------------------------------------------
(* The audio thread: capture() and push().  A block that does not fit is dropped whole. *)

\* (wrong) a block may be one frame larger than the room there is.
PushBegin_OneTooMany == \E n \in 1 .. MaxBlock :
  /\ capturing /\ pushed = 0 /\ wpos + n <= MaxFrames
  /\ n <= RingFrames - (wpos - rpos) + 1
  /\ pushed' = wpos + n
  /\ UNCHANGED <<flags, wpos, rpos, meta, ui, wpc, avail, rest, healthy, opt, cut, held, record>>

PushBegin == \E n \in 1 .. MaxBlock :
  /\ capturing /\ pushed = 0 /\ wpos + n <= MaxFrames
  /\ n <= RingFrames - (wpos - rpos)
  /\ pushed' = wpos + n
  /\ UNCHANGED <<flags, wpos, rpos, meta, ui, wpc, avail, rest, healthy, opt, cut, held, record>>

PushEnd ==
  /\ pushed # 0
  /\ wpos' = pushed /\ pushed' = 0
  /\ UNCHANGED <<flags, rpos, meta, ui, wpc, avail, rest, healthy, opt, cut, held, record>>

-----------------------------------------------------------------------------
(* The worker: workerLoop and the cut operations it calls. *)

HasAudio == cutOpen /\ cutFrames > 0

\* openCut(): a cut under an advertisement's title is suppressed when ads are discarded.
Suppresses == cutRaw \in Ads /\ discard

\* processBlock(n): open the cut if none is open, write, count.
WriteBlock(n) ==
  /\ cutOpen' = TRUE
  /\ cutFrames' = cutFrames + n
  /\ suppressed' = IF cutOpen THEN suppressed ELSE Suppresses
  /\ UNCHANGED <<capturing, stopReq, record, healthy>>

\* failCut(): opening or writing failed; the cut's files are removed, recording ends.
FailCut ==
  /\ ~(IF cutOpen THEN suppressed ELSE Suppresses)
  /\ filed' = filed + cutFrames /\ error' = TRUE
  /\ cutOpen' = FALSE /\ cutFrames' = 0 /\ suppressed' = FALSE
  /\ capturing' = FALSE /\ stopReq' = TRUE /\ healthy' = FALSE

ProcessBlock(n, place) == \/ WriteBlock(n) /\ wpc' = place
                          \/ FailCut /\ wpc' = "exit"

\* rollCut(): the cut is finished; a finalize that fails is reported and ends the recording.
CloseCut == filed' = filed + cutFrames /\ cutOpen' = FALSE /\ cutFrames' = 0 /\ suppressed' = FALSE

\* (wrong) a cut that cannot be finalized is reported and nothing more.
RollCut_FailGoesOn ==
  /\ CloseCut
  /\ \/ UNCHANGED <<capturing, stopReq, error>>
     \/ ~suppressed /\ error' = TRUE /\ UNCHANGED <<capturing, stopReq>>

RollCut ==
  /\ CloseCut
  /\ \/ UNCHANGED <<capturing, stopReq, error>>
     \/ ~suppressed /\ error' = TRUE /\ capturing' = FALSE /\ stopReq' = TRUE

\* (wrong) a title relabels the open cut, whatever it holds.
Adopt_AlsoOpenCut ==
  /\ wpc = "adopt"
  /\ wpc' = IF split THEN "adoptLock" ELSE "arm"
  /\ UNCHANGED <<flags, audio, rpos, meta, ui, avail, rest, healthy, opt, cut, held, record>>

\* adoptIfCutEmpty: a title that comes before any audio only labels the cut.
Adopt ==
  /\ wpc = "adopt"
  /\ wpc' = IF split /\ ~HasAudio THEN "adoptLock" ELSE "arm"
  /\ UNCHANGED <<flags, audio, rpos, meta, ui, avail, rest, healthy, opt, cut, held, record>>

AdoptLock ==
  /\ wpc = "adoptLock"
  /\ cutRaw' = pending /\ split' = FALSE /\ wpc' = "arm"
  /\ UNCHANGED <<flags, audio, rpos, pending, ui, avail, rest, healthy, opt, cutOpen, cutFrames,
                 suppressed, held, record>>

\* A split with an offset arms the hold; the flag stays up until the roll.
ArmHold ==
  /\ wpc = "arm"
  /\ IF offset > 0 /\ ~hold /\ split /\ HasAudio
     THEN hold' = TRUE /\ holdLeft' = offset
     ELSE UNCHANGED held
  /\ wpc' = "snapshot"
  /\ UNCHANGED <<flags, audio, rpos, meta, ui, avail, rest, healthy, opt, cut, record>>

Snapshot ==
  /\ wpc = "snapshot"
  /\ avail' = wpos - rpos
  /\ wpc' = "chunk"
  /\ UNCHANGED <<flags, audio, rpos, meta, ui, rest, healthy, opt, cut, held, record>>

SnapshotDone ==
  /\ wpc = "chunk" /\ avail = 0
  /\ wpc' = "tail"
  /\ UNCHANGED <<flags, audio, rpos, meta, ui, avail, rest, healthy, opt, cut, held, record>>

\* One chunk leaves the ring for the open cut.
DrainChunk ==
  /\ wpc = "chunk" /\ avail > 0 /\ ~hold
  /\ LET n == Min2(Chunk, avail) IN
       /\ rpos' = rpos + n /\ avail' = avail - n
       /\ ProcessBlock(n, "chunk")
  /\ UNCHANGED <<running, audio, meta, ui, rest, opt, cutRaw, held>>

\* (wrong) the whole chunk goes to the old cut and its tail to the new one too.
DrainHeld_TailTwice ==
  /\ wpc = "chunk" /\ avail > 0 /\ hold
  /\ LET n == Min2(Chunk, avail)  toOld == Min2(n, holdLeft) IN
       /\ rpos' = rpos + n /\ avail' = avail - n
       /\ holdLeft' = holdLeft - toOld
       /\ rest' = IF toOld = holdLeft THEN n - toOld ELSE 0
       /\ ProcessBlock(n, IF toOld = holdLeft THEN "roll" ELSE "chunk")
  /\ UNCHANGED <<running, audio, meta, ui, opt, cutRaw, hold>>

\* Under a hold the old cut takes what is left of it; the chunk's tail waits for the roll.
DrainHeld ==
  /\ wpc = "chunk" /\ avail > 0 /\ hold
  /\ LET n == Min2(Chunk, avail)  toOld == Min2(n, holdLeft) IN
       /\ rpos' = rpos + n /\ avail' = avail - n
       /\ holdLeft' = holdLeft - toOld
       /\ \/ /\ WriteBlock(toOld)
             /\ rest' = IF toOld = holdLeft THEN n - toOld ELSE 0
             /\ wpc' = IF toOld = holdLeft THEN "roll" ELSE "chunk"
          \/ FailCut /\ rest' = 0 /\ wpc' = "exit"
  /\ UNCHANGED <<running, audio, meta, ui, opt, cutRaw, hold>>

Roll ==
  /\ wpc = "roll"
  /\ RollCut
  /\ wpc' = "rollAdopt"
  /\ UNCHANGED <<running, audio, rpos, meta, ui, avail, rest, healthy, opt, cutRaw, held>>

\* rollAndAdopt's second half; it goes on from wherever the roll was asked for.
RollAdopt ==
  /\ wpc = "rollAdopt"
  /\ cutRaw' = pending /\ split' = FALSE /\ hold' = FALSE
  /\ wpc' = IF offset = 0 THEN "empty" ELSE "keep"
  /\ UNCHANGED <<flags, audio, rpos, pending, ui, avail, rest, healthy, opt, cutOpen, cutFrames,
                 suppressed, holdLeft, record>>

\* The chunk's tail opens the new cut.
KeepTail ==
  /\ wpc = "keep"
  /\ IF rest = 0
     THEN wpc' = "chunk" /\ UNCHANGED <<capturing, stopReq, cut, record, healthy>>
     ELSE ProcessBlock(rest, "chunk") /\ UNCHANGED cutRaw
  /\ rest' = 0
  /\ UNCHANGED <<running, audio, rpos, meta, ui, avail, opt, held>>

\* (wrong) the immediate split waits for audio.
RollNow_NeedsAudio ==
  /\ wpc = "tail"
  /\ wpc' = IF offset = 0 /\ split /\ HasAudio /\ rpos # wpos THEN "roll" ELSE "empty"
  /\ UNCHANGED <<flags, audio, rpos, meta, ui, avail, rest, healthy, opt, cut, held, record>>

\* The immediate roll, looked for on every pass.
RollNow ==
  /\ wpc = "tail"
  /\ wpc' = IF offset = 0 /\ split /\ HasAudio THEN "roll" ELSE "empty"
  /\ UNCHANGED <<flags, audio, rpos, meta, ui, avail, rest, healthy, opt, cut, held, record>>

\* Only an empty ring looks at stop_req_.
EmptyCheck ==
  /\ wpc = "empty"
  /\ wpc' = IF rpos = wpos THEN "stopCheck" ELSE "adopt"
  /\ UNCHANGED <<flags, audio, rpos, meta, ui, avail, rest, healthy, opt, cut, held, record>>

StopCheck ==
  /\ wpc = "stopCheck"
  /\ wpc' = IF stopReq THEN "exit" ELSE "adopt"
  /\ UNCHANGED <<flags, audio, rpos, meta, ui, avail, rest, healthy, opt, cut, held, record>>

\* The session's tail is a cut of its own; then the worker ends.
EndWorker ==
  /\ wpc = "exit"
  /\ IF healthy /\ cutOpen THEN RollCut ELSE UNCHANGED <<capturing, stopReq, cutOpen, cutFrames,
                                                         suppressed, record>>
  /\ running' = FALSE /\ wpc' = "none"
  /\ UNCHANGED <<audio, rpos, meta, ui, avail, rest, healthy, opt, cutRaw, held>>

Worker ==
  \/ Adopt \/ AdoptLock \/ ArmHold \/ Snapshot \/ SnapshotDone \/ DrainChunk \/ DrainHeld
  \/ Roll \/ RollAdopt \/ KeepTail \/ RollNow \/ EmptyCheck \/ StopCheck \/ EndWorker

RecUser  == Start \/ StopBegin \/ TitleSet
Audio == PushBegin \/ PushEnd

RecNext == RecUser \/ StopJoin \/ TitleFlag \/ Audio \/ Worker

RecSpec == RecInit /\ [][RecNext]_recVars

\* The worker thread runs, a push once begun ends, and the user-interface thread
\* finishes the call it is in.
FairRecSpec == RecSpec /\ WF_recVars(Worker) /\ WF_recVars(PushEnd) /\ WF_recVars(TitleFlag) /\ WF_recVars(StopJoin)

-----------------------------------------------------------------------------
(* Properties. *)

RecTypeOK ==
  /\ {running, capturing, stopReq, split, healthy, discard, cutOpen, suppressed, hold, error}
       \subseteq BOOLEAN
  /\ wpos \in 0 .. MaxFrames /\ rpos \in 0 .. MaxFrames /\ pushed \in 0 .. MaxFrames
  /\ pending \in AllTitles /\ cutRaw \in AllTitles /\ ui \in {"idle", "flag", "join"}
  /\ wpc \in WorkerPlaces /\ avail \in 0 .. MaxFrames /\ rest \in 0 .. Chunk
  /\ offset \in Offsets /\ holdLeft \in 0 .. MaxFrames
  /\ cutFrames \in 0 .. MaxFrames /\ filed \in Nat

\* A block is accepted only into space the worker has released: the ring never holds
\* more than it has room for, also while a push is under way.
UnreadFits == wpos - rpos <= RingFrames /\ (pushed # 0 => pushed - rpos <= RingFrames)

\* Every frame the worker takes from the ring ends in exactly one cut, across splits in
\* the middle of a chunk, suppressed cuts and the session's tail (a failed write ends
\* the recording and may lose the block it failed on).
FramesConserved == ~error => filed + cutFrames + rest = rpos

\* A title that arrives while a cut has audio never relabels that cut: it takes effect
\* on the next one.
NoRelabel == [][HasAudio /\ cutOpen' /\ cutFrames' >= cutFrames => cutRaw' = cutRaw]_recVars

\* The recording ends: a failed write, open or finalize stops it by itself, and stop()
\* returns; a hold, a pending split or a full ring delay either but cannot keep it.
RecordingEnds == (error ~> ~running) /\ ((ui = "join") ~> (ui = "idle"))

\* Without an offset a split is acted on even when no more audio comes ("so a split can
\* never stall waiting for the next audio block").
SplitActs == (running /\ offset = 0 /\ split) ~> (~split \/ ~running)
=============================================================================
