------------------------- MODULE SourceSwitchProofs -------------------------
(***************************************************************************)
(* What SourceSwitch guarantees for every set of stations and files and    *)
(* any number of requests: a worker that opens a station has the plugin to *)
(* itself and, unless a disc is opened for browsing during a connect, one  *)
(* source at a time owns the device and what is heard is what was asked    *)
(* for last.                                                               *)
(***************************************************************************)
EXTENDS SourceSwitch, TLAPS

Values ==
  /\ file \in Files \cup {NoFile} /\ session \in Urls \cup {NoUrl} /\ recorder \in Urls \cup {NoUrl}
  /\ url \in Urls \cup {NoUrl} /\ pending \in Urls \cup {NoUrl}
  /\ state \in {"Stopped", "Playing", "Paused"}
  /\ gen \in Nat /\ workerGen \in 0 .. gen
  /\ worker \in {"none", "open", "report", "finish", "gone"}
  /\ ui \in {"poll", "take", "key"} /\ keys \in 0 .. MaxKeys
  /\ want \in Urls \cup Files \cup {CD, Silence}

\* A connect is under way from the start of its worker to the poll that takes its result;
\* no station plays meanwhile, and a station waits only for that poll.
ConnectInv ==
  /\ worker \in {"open", "report", "finish"} => connecting /\ ~done
  /\ done => connecting /\ worker = "gone"
  /\ connecting => worker \in {"open", "report", "finish"} \/ done
  /\ connecting => ~streamMode
  /\ pending # NoUrl => connecting

CInv == Values /\ ConnectInv

LEMMA InitCInv == Init => CInv
BY SwitchAssumption DEF Init, CInv, Values, ConnectInv

\* The worker, and a station that is lost.
LEMMA WorkerCInv ==
  ASSUME CInv, Worker \/ StationLost
  PROVE  CInv'
BY SwitchAssumption DEF CInv, Values, ConnectInv, Worker, WorkerOpens, WorkerReports, WorkerDone,
   StationLost, mode, out, tags, job, latch, past

\* The user-interface thread.
LEMMA LoopCInv ==
  ASSUME CInv, UI
  PROVE  CInv'
<1> USE SwitchAssumption DEF CInv, Values, ConnectInv, mode, out, tags, job, latch, past
<1>1. CASE PollQuiet \/ NoKey
  BY <1>1 DEF PollQuiet, NoKey
<1>2. CASE PollConnect
  BY <1>2 DEF PollConnect, Follow, StartConnect, Quieten, NewTag, Settle, Superseded
<1>3. CASE Take
  BY <1>3 DEF Take, StopAll, LeaveStream
<1>4. CASE KeyStation
  BY <1>4 DEF KeyStation, Press, Ask, StartConnect, Quieten, NewTag
<1>5. CASE KeyFile
  BY <1>5 DEF KeyFile, Press, Ask, Supersede, LeaveStream
<1>6. CASE KeyTrack \/ KeyBrowse
  BY <1>6 DEF KeyTrack, KeyBrowse, Press, Ask, OpenDisc, LeaveStream, Supersede
<1>7. CASE KeyStop
  BY <1>7 DEF KeyStop, Press, Ask, StopAll, LeaveStream
<1>8. CASE KeyPause \/ KeyDevice \/ KeyRecord
  BY <1>8 DEF KeyPause, KeyDevice, KeyRecord, Press
<1> QED
  BY <1>1, <1>2, <1>3, <1>4, <1>5, <1>6, <1>7, <1>8 DEF UI, Key

LEMMA ConnectInvariant == Spec => []CInv
<1>1. CInv /\ [Next]_vars => CInv'
  <2>1. CInv /\ UNCHANGED vars => CInv'
    BY DEF CInv, Values, ConnectInv, vars, mode, out, tags, job, latch, past
  <2> QED
    BY <2>1, WorkerCInv, LoopCInv DEF Next
<1> QED
  BY <1>1, InitCInv, PTL DEF Spec

\* "A single worker ever touches stream_plugin_": no operation of the user-interface
\* thread closes the station under the worker that opens it.
THEOREM WorkerHasThePlugin == Spec => OpenUndisturbed
<1>1. CInv /\ [Next]_vars => [worker = "open" => session' = session \/ worker' = "report"]_vars
  <2> SUFFICES ASSUME CInv, Next, worker = "open", worker' # "report" PROVE session' = session
    BY DEF vars
  <2> USE DEF CInv, ConnectInv
  <2>1. CASE Worker \/ StationLost
    BY <2>1 DEF Worker, WorkerOpens, WorkerReports, WorkerDone, StationLost
  <2>2. CASE PollQuiet \/ PollConnect \/ Take \/ NoKey
    BY <2>2 DEF PollQuiet, PollConnect, Take, NoKey, StopAll, LeaveStream
  <2>3. CASE Key
    BY <2>3 DEF Key, KeyStation, KeyFile, KeyTrack, KeyBrowse, KeyStop, KeyPause, KeyDevice,
       KeyRecord, StopAll, OpenDisc, LeaveStream
  <2> QED
    BY <2>1, <2>2, <2>3 DEF Next, UI
<1> QED
  BY <1>1, ConnectInvariant, PTL DEF Spec, OpenUndisturbed

-----------------------------------------------------------------------------

\* What the result of the connect in progress will be: the station the plugin was asked
\* for, which is the request in force unless a newer one supersedes it.
ResultInv ==
  /\ worker \in {"report", "finish"} \/ done => session \in {url, NoUrl}
  /\ worker = "finish" \/ done => (ok => session = url)
  /\ pending # NoUrl => want = pending
  /\ connecting /\ ~Superseded =>
       /\ pending = NoUrl => want = url
       /\ ~cdMode /\ file = NoFile

\* The file, disc or station that owns the device is what was asked for last, unless a
\* station chosen during the connect waits for the connect to be over.
Owns(source) == IF pending = NoUrl THEN want = source ELSE want = pending

OwnerInv ==
  /\ OneSource
  /\ streamMode => session = want
  /\ cdMode /\ track => Owns(CD)
  /\ file # NoFile => Owns(file)

SInv == CInv /\ ResultInv /\ OwnerInv

LEMMA InitSInv == Init => SInv
BY InitCInv DEF Init, SInv, ResultInv, OwnerInv, OneSource

LEMMA WorkerSInv ==
  ASSUME SInv, Worker \/ StationLost
  PROVE  SInv'
<1>1. CInv'
  BY WorkerCInv DEF SInv
<1> SUFFICES (ResultInv /\ OwnerInv)'
  BY <1>1 DEF SInv
<1> USE DEF SInv, CInv, Values, ConnectInv, ResultInv, OwnerInv, OneSource, Owns, Superseded,
    mode, out, tags, job, latch, past
<1>2. CASE WorkerOpens
  BY <1>2 DEF WorkerOpens
<1>3. CASE WorkerReports
  <2>1. ok' => session = url
    BY <1>3 DEF WorkerReports
  <2> QED
    BY <1>3, <2>1 DEF WorkerReports
<1>4. CASE WorkerDone \/ StationLost
  BY <1>4 DEF WorkerDone, StationLost
<1> QED
  BY <1>2, <1>3, <1>4 DEF Worker

LEMMA LoopSInv ==
  ASSUME ~BrowseMeetsConnect, SInv, UI
  PROVE  SInv'
<1> CInv'
  BY LoopCInv DEF SInv
<1> SUFFICES (ResultInv /\ OwnerInv)'
  BY DEF SInv
<1> USE SwitchAssumption DEF SInv, CInv, Values, ConnectInv, ResultInv, OwnerInv, OneSource, Owns,
    Superseded, mode, out, tags, job, latch, past
<1>1. CASE PollQuiet \/ NoKey
  BY <1>1 DEF PollQuiet, NoKey
<1>2. CASE PollConnect
  <2> PICK up \in BOOLEAN : ui = "poll" /\ done /\ Follow(~Superseded /\ ok /\ up)
        /\ session' = (IF ~Superseded /\ ok /\ up THEN session ELSE NoUrl)
    BY <1>2 DEF PollConnect
  <2>1. CASE pending # NoUrl /\ StartConnect(pending) /\ pending' = NoUrl
    BY <1>2, <2>1 DEF PollConnect, StartConnect, Quieten, NewTag
  <2>2. CASE pending = NoUrl /\ Settle(~Superseded /\ ok /\ up) /\ UNCHANGED pending
    BY <1>2, <2>2 DEF PollConnect, Settle
  <2> QED
    BY <2>1, <2>2 DEF Follow
<1>3. CASE Take
  BY <1>3 DEF Take, StopAll, LeaveStream
<1>4. CASE KeyStation
  BY <1>4 DEF KeyStation, Press, Ask, StartConnect, Quieten, NewTag
<1>5. CASE KeyFile
  BY <1>5 DEF KeyFile, Press, Ask, Supersede, LeaveStream
<1>6. CASE KeyTrack
  BY <1>6 DEF KeyTrack, Press, Ask, OpenDisc, LeaveStream, Supersede, Awaited
<1>7. CASE KeyBrowse
  BY <1>7 DEF KeyBrowse, Press, Ask, OpenDisc, LeaveStream, Awaited
<1>8. CASE KeyStop
  BY <1>8 DEF KeyStop, Press, Ask, StopAll, LeaveStream, Awaited
<1>9. CASE KeyPause \/ KeyDevice \/ KeyRecord
  BY <1>9 DEF KeyPause, KeyDevice, KeyRecord, Press
<1> QED
  BY <1>1, <1>2, <1>3, <1>4, <1>5, <1>6, <1>7, <1>8, <1>9 DEF UI, Key

\* Sources and what is asked for agree in every state, if no disc is browsed during a connect.
LEMMA SourcesInvariant == ASSUME ~BrowseMeetsConnect PROVE Spec => []SInv
<1>1. SInv /\ [Next]_vars => SInv'
  <2>1. SInv /\ UNCHANGED vars => SInv'
    BY DEF SInv, CInv, Values, ConnectInv, ResultInv, OwnerInv, OneSource, Owns, Superseded,
       vars, mode, out, tags, job, latch, past
  <2> QED
    BY <2>1, WorkerSInv, LoopSInv DEF Next
<1> QED
  BY <1>1, InitSInv, PTL DEF Spec

\* A file, the disc and a station never own the device together, whatever is asked for
\* while a station is being connected - but for the opening of a disc to browse it, which
\* does not supersede the connect.
THEOREM OneSourceAtATime == ASSUME ~BrowseMeetsConnect PROVE Spec => []OneSource
<1>1. SInv => OneSource
  BY DEF SInv, OwnerInv
<1> QED
  BY <1>1, SourcesInvariant, PTL

\* A late result of an older request is never heard.
THEOREM NewestRequestHeard == ASSUME ~BrowseMeetsConnect PROVE Spec => []LastRequestHeard
<1>1. SInv => LastRequestHeard
  BY DEF SInv, CInv, ConnectInv, OwnerInv, OneSource, Owns, LastRequestHeard, Sound, Awaited
<1> QED
  BY <1>1, SourcesInvariant, PTL
=============================================================================
