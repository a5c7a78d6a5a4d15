----------------------------- MODULE StreamRing -----------------------------
(***************************************************************************)
(* The radio source of plugins/stream: a producer thread that connects,    *)
(* reads, decodes and writes a lock-free ring of samples; the audio        *)
(* callback that reads it; the user-interface thread that opens, pauses,   *)
(* records and closes it.  Every atomic load or store that another thread  *)
(* can observe is a step of its own.                                       *)
(*                                                                         *)
(* One slot of the ring stands for the samples of one ringWrite.  Samples  *)
(* are numbered in the order they are written so that what the callback    *)
(* hears can be compared with what was sent.                               *)
(***************************************************************************)
EXTENDS Naturals, Sequences

CONSTANTS
  RingSize,            \* RING_SIZE: slots of ring_
  MaxBurst,            \* the most ringWrite calls one pass of a worker makes
  Need,                \* slots one callback asks for
  Codecs,              \* codecs of the stations: "MP3", "AAC"
  MaxAttempts,         \* reconnects before the worker gives up (10)
  FreedReads,          \* may the read of a decoder that was freed still return frames?
  FlushMeetsCallback,  \* may a ringFlush fall inside a callback in progress?
  MaxLag,              \* ringWrite calls that fit inside one callback
  Total                \* bound: samples all the stations ever send

Half      == RingSize \div 2      \* the producer waits above it
Prebuffer == RingSize \div 4      \* PREBUFFER_SAMPLES

ASSUME RingAssumption ==
  /\ RingSize \in Nat /\ RingSize >= 4
  /\ MaxBurst \in Nat \ {0}
  /\ Half + MaxBurst < RingSize
ASSUME ClientAssumption ==
  /\ Need \in Nat \ {0} /\ MaxAttempts \in Nat /\ MaxLag \in Nat \ {0}
  /\ Total \in Nat
  /\ Codecs \subseteq {"MP3", "AAC"} /\ {FreedReads, FlushMeetsCallback} \subseteq BOOLEAN

VARIABLES
  stop, frozen, repin,            \* stop_, paused_ && !record_active_, hls_repin_pending_
  prebuffered,                    \* prebuffered_ (playing_ is read by nobody)
  ring, rw, rr,                   \* ring_, ring_write_, ring_read_
  codec, decoder, connected,      \* codec_, decoder_, hConn_ # nullptr
  ppc, left, attempts,            \* producer: where it is, frames left in the pass, reconnect_attempts
  device,                         \* the AudioManager's device is running
  cpc, cn, cr, got,               \* callback: where it is, samples to take, from where, samples copied
  sent, out, lag                  \* history: samples published, last block heard, writes during the callback

shared   == <<stop, frozen, repin>>
indices  == <<ring, rw, rr>>
link     == <<codec, decoder, connected>>
callback == <<device, cpc, cn, cr, got, out>>
vars == <<shared, prebuffered, indices, link, ppc, left, attempts,
          callback, sent, lag>>

ProducerPlaces == {"none", "start", "loop", "read", "write", "publish", "prime", "primed",
                   "drop", "backoff", "flush", "repinGate", "repinFlush", "repinConnect",
                   "exit", "done"}
CallbackPlaces == {"idle", "size", "copy", "release", "short"}

Writing == {"write", "publish", "prime", "primed"}
Copying == cpc \in {"copy", "release"}

Slots == 0 .. RingSize - 1

Avail == (rw + RingSize - rr) % RingSize      \* ringAvailable

Init ==
  /\ stop = FALSE /\ frozen = FALSE /\ repin = FALSE
  /\ prebuffered = FALSE
  /\ ring = [s \in Slots |-> 0] /\ rw = 0 /\ rr = 0
  /\ codec \in Codecs /\ decoder = "none" /\ connected = FALSE
  /\ ppc = "none" /\ left = 0 /\ attempts = 0
  /\ device = FALSE /\ cpc = "idle" /\ cn = 0 /\ cr = 0 /\ got = <<>>
  /\ sent = 0 /\ out = <<>> /\ lag = 0

-----------------------------------------------------------------------------
(* The user-interface thread. *)

\* open(): the producer of the last session is joined, the device is down.
\* hls_repin_pending_ is not among the fields it resets.
Open == \E c \in Codecs, ok \in BOOLEAN :
  /\ ppc = "none" /\ ~device
  /\ stop' = FALSE /\ frozen' = FALSE /\ prebuffered' = FALSE
  /\ rw' = 0 /\ rr' = 0
  /\ codec' = c /\ connected' = ok
  /\ ppc' = IF ok THEN "start" ELSE "none"
  /\ attempts' = 0 /\ left' = 0
  /\ UNCHANGED <<repin, ring, decoder, callback, sent, lag>>

\* The device comes up once the connect has succeeded.
DeviceOn ==
  /\ ppc # "none" /\ ~stop /\ ~device
  /\ device' = TRUE
  /\ UNCHANGED <<shared, prebuffered, indices, link, ppc, left, attempts,
                 cpc, cn, cr, got, out, sent, lag>>

\* Stopping the device waits for a callback in progress.
DeviceOff ==
  /\ device /\ cpc = "idle"
  /\ device' = FALSE
  /\ UNCHANGED <<shared, prebuffered, indices, link, ppc, left, attempts,
                 cpc, cn, cr, got, out, sent, lag>>

\* pause() and setRecordActive(): playback is frozen while paused and not recording.
\* The three sites that look at the two flags look at nothing else of them.
Freeze ==
  /\ device
  /\ frozen' = ~frozen
  /\ UNCHANGED <<stop, repin, prebuffered, indices, link, ppc, left, attempts,
                 callback, sent, lag>>

\* close(): stop_ is raised ...
CloseBegin ==
  /\ ppc # "none" /\ ~stop
  /\ stop' = TRUE
  /\ UNCHANGED <<frozen, repin, prebuffered, indices, link, ppc, left, attempts,
                 callback, sent, lag>>

\* ... and the caller blocks until the producer thread has ended.
CloseJoin ==
  /\ stop /\ ppc = "done"
  /\ ppc' = "none" /\ prebuffered' = FALSE
  /\ UNCHANGED <<shared, indices, link, left, attempts, callback, sent, lag>>

-----------------------------------------------------------------------------
(* The producer thread: producerWorker (MP3) and producerWorkerAAC. *)

Goto(place) == ppc' = place

\* decoder_ is the miniaudio decoder of the MP3 worker: an initDecoder that fails
\* leaves it blank, which reads as the end of the stream; uninitDecoder frees it.
DecoderAfterInit(ok) == IF codec = "AAC" THEN "none" ELSE IF ok THEN "ready" ELSE "blank"
UninitDecoder == decoder' = IF decoder = "ready" THEN "freed" ELSE decoder

StartWorker == \E ok \in BOOLEAN :
  /\ ppc = "start"
  /\ decoder' = DecoderAfterInit(ok)
  /\ IF ok THEN Goto("loop") ELSE Goto("exit")
  /\ UNCHANGED <<shared, prebuffered, indices, codec, connected, left, attempts,
                 callback, sent, lag>>

\* (wrong) a frozen producer does not look at stop_.
LoopHead_FrozenFirst ==
  /\ ppc = "loop" /\ ~frozen
  /\ \/ stop /\ Goto("exit") /\ UNCHANGED repin
     \/ ~stop /\ repin /\ repin' = FALSE /\ Goto("repinGate")
     \/ ~stop /\ ~repin /\ Avail <= Half /\ Goto("read") /\ UNCHANGED repin
  /\ UNCHANGED <<stop, frozen, prebuffered, indices, link, left, attempts, callback, sent, lag>>

\* One look at the head of the loop.  Frozen, or over half full, it sleeps and looks again.
LoopHead ==
  /\ ppc = "loop"
  /\ \/ stop /\ Goto("exit") /\ UNCHANGED repin
     \/ ~stop /\ ~frozen /\ repin /\ repin' = FALSE /\ Goto("repinGate")
     \/ ~stop /\ ~frozen /\ ~repin /\ Avail <= Half /\ Goto("read") /\ UNCHANGED repin
  /\ UNCHANGED <<stop, frozen, prebuffered, indices, link, left, attempts,
                 callback, sent, lag>>

\* Bytes arrived and decode to n frames; the station may turn out to be in a long
\* break, which asks for a re-pin.  An MP3 read returns frames from a decoder that is
\* ready; from one already freed, which is undefined, it returns them or none.
ReadSome == \E n \in 0 .. MaxBurst, ask \in BOOLEAN :
  /\ ppc = "read" /\ sent < Total /\ sent + n <= Total
  /\ IF codec = "AAC" THEN connected ELSE n = 1 /\ (decoder = "ready" \/ (FreedReads /\ decoder = "freed"))
  /\ ask => codec = "AAC"
  /\ left' = n /\ attempts' = 0 /\ repin' = (repin \/ ask)
  /\ IF n = 0 THEN Goto("loop") ELSE Goto("write")
  /\ UNCHANGED <<stop, frozen, prebuffered, indices, link,
                 callback, sent, lag>>

\* The stream ended, was lost, timed out, or stop_ cut the read short.
ReadNone ==
  /\ ppc = "read"
  /\ IF stop THEN Goto("exit") ELSE Goto("drop")
  /\ UNCHANGED <<shared, prebuffered, indices, link, left, attempts,
                 callback, sent, lag>>

\* ringWrite copies the samples ...
WriteSlot ==
  /\ ppc = "write"
  /\ cpc = "idle" \/ lag < MaxLag
  /\ lag' = lag + (IF cpc = "idle" THEN 0 ELSE 1)
  /\ ring' = [ring EXCEPT ![rw] = sent + 1]
  /\ Goto("publish")
  /\ UNCHANGED <<shared, prebuffered, rw, rr, link, left, attempts, callback, sent>>

\* ... and publishes them.
PublishWrite ==
  /\ ppc = "publish"
  /\ rw' = (rw + 1) % RingSize /\ sent' = sent + 1 /\ left' = left - 1
  /\ Goto("prime")
  /\ UNCHANGED <<shared, prebuffered, ring, rr, link, attempts, callback, lag>>

AfterFrame == IF left > 0 THEN "write" ELSE "loop"

\* The prebuffer check loads the flag and the fill first and stores afterwards.
PrimeCheck ==
  /\ ppc = "prime"
  /\ IF ~prebuffered /\ Avail >= Prebuffer THEN Goto("primed") ELSE Goto(AfterFrame)
  /\ UNCHANGED <<shared, prebuffered, indices, link, left, attempts, callback, sent, lag>>

PrimeStore ==
  /\ ppc = "primed"
  /\ prebuffered' = TRUE
  /\ Goto(AfterFrame)
  /\ UNCHANGED <<shared, indices, link, left, attempts, callback, sent, lag>>

\* A read of nothing: disconnect, count, give up past the cap.  prebuffered_ stays as it is.
DropConnection ==
  /\ ppc = "drop"
  /\ UninitDecoder /\ connected' = FALSE
  /\ attempts' = attempts + 1
  /\ IF attempts' > MaxAttempts THEN Goto("exit") ELSE Goto("backoff")
  /\ UNCHANGED <<shared, prebuffered, indices, codec, left, callback, sent, lag>>

\* (wrong) a connection that is answered gives all attempts back.
Reconnect_ForgetsAttempts == \E ok \in BOOLEAN :
  /\ ppc = "backoff"
  /\ IF stop
     THEN Goto("exit") /\ UNCHANGED <<connected, decoder, attempts>>
     ELSE /\ connected' = ok /\ attempts' = IF ok THEN 0 ELSE attempts
          /\ decoder' = IF ok THEN DecoderAfterInit(TRUE) ELSE decoder
          /\ IF ok THEN Goto("flush") ELSE Goto("loop")
  /\ UNCHANGED <<shared, prebuffered, indices, codec, left, callback, sent, lag>>

\* Backoff, then one try; a failure goes straight back to the loop.
Reconnect == \E ok, init \in BOOLEAN :
  /\ ppc = "backoff"
  /\ IF stop
     THEN Goto("exit") /\ UNCHANGED <<connected, decoder>>
     ELSE /\ connected' = ok
          /\ decoder'   = IF ok THEN DecoderAfterInit(init) ELSE decoder
          /\ IF ok /\ (codec = "MP3" => init) THEN Goto("flush") ELSE Goto("loop")
  /\ UNCHANGED <<shared, prebuffered, indices, codec, left, attempts,
                 callback, sent, lag>>

Flushable == FlushMeetsCallback \/ cpc = "idle"

\* (wrong) the reconnect keeps what the ring holds.
Flush_Skipped ==
  /\ ppc = "flush" /\ Flushable
  /\ Goto("loop")
  /\ UNCHANGED <<shared, prebuffered, indices, link, left, attempts, callback, sent, lag>>

\* ringFlush after a reconnect.
Flush ==
  /\ ppc = "flush" /\ Flushable
  /\ rr' = rw
  /\ Goto("loop")
  /\ UNCHANGED <<shared, prebuffered, ring, rw, link, left, attempts,
                 callback, sent, lag>>

\* The re-pin to the live edge: disconnect and gate the callback ...
RepinGate ==
  /\ ppc = "repinGate"
  /\ UninitDecoder /\ connected' = FALSE /\ prebuffered' = FALSE
  /\ Goto("repinFlush")
  /\ UNCHANGED <<shared, indices, codec, left, attempts, callback, sent, lag>>

\* (wrong) the re-pin keeps what the ring holds.
RepinFlush_KeepsRing ==
  /\ ppc = "repinFlush" /\ Flushable
  /\ IF stop THEN Goto("exit") ELSE Goto("repinConnect")
  /\ UNCHANGED <<shared, prebuffered, indices, link, left, attempts, callback, sent, lag>>

\* ... empty the ring (ringClear) ...
RepinFlush ==
  /\ ppc = "repinFlush" /\ Flushable
  /\ rr' = rw
  /\ IF stop THEN Goto("exit") ELSE Goto("repinConnect")
  /\ UNCHANGED <<shared, prebuffered, ring, rw, link, left, attempts,
                 callback, sent, lag>>

\* ... and shake hands again; a failure is left to the loop.
RepinConnect == \E ok, init \in BOOLEAN :
  /\ ppc = "repinConnect"
  /\ connected' = ok
  /\ decoder' = IF ok THEN DecoderAfterInit(init) ELSE decoder
  /\ Goto("loop")
  /\ UNCHANGED <<shared, prebuffered, indices, codec, left, attempts,
                 callback, sent, lag>>

ExitWorker ==
  /\ ppc = "exit"
  /\ UninitDecoder /\ connected' = FALSE
  /\ Goto("done")
  /\ UNCHANGED <<shared, prebuffered, indices, codec, left, attempts, callback, sent, lag>>

Producer ==
  \/ StartWorker \/ LoopHead \/ ReadSome \/ ReadNone
  \/ WriteSlot \/ PublishWrite \/ PrimeCheck \/ PrimeStore
  \/ DropConnection \/ Reconnect \/ Flush
  \/ RepinGate \/ RepinFlush \/ RepinConnect \/ ExitWorker

-----------------------------------------------------------------------------
(* The audio callback: readFrames.  Gated, it plays silence and changes nothing. *)

CallbackEnter ==
  /\ device /\ cpc = "idle" /\ ~frozen /\ prebuffered
  /\ cpc' = "size" /\ lag' = 0
  /\ UNCHANGED <<shared, prebuffered, indices, link, ppc, left, attempts,
                 device, cn, cr, got, out, sent>>

\* ringRead: ringAvailable loads both indices ...
ReadSize ==
  /\ cpc = "size"
  /\ cn' = IF Need <= Avail THEN Need ELSE Avail
  /\ cpc' = "copy"
  /\ UNCHANGED <<shared, prebuffered, indices, link, ppc, left, attempts,
                 device, cr, got, out, sent, lag>>

\* ... ring_read_ is loaded again for the copy ...
ReadCopy ==
  /\ cpc = "copy"
  /\ cr' = rr
  /\ got' = [i \in 1 .. cn |-> ring[(rr + i - 1) % RingSize]]
  /\ cpc' = "release"
  /\ UNCHANGED <<shared, prebuffered, indices, link, ppc, left, attempts,
                 device, cn, out, sent, lag>>

\* ... and stored past what was copied.
ReadRelease ==
  /\ cpc = "release"
  /\ rr' = (cr + cn) % RingSize
  /\ out' = IF cn = 0 THEN out ELSE got
  /\ cpc' = IF cn < Need THEN "short" ELSE "idle"
  /\ got' = <<>> /\ cn' = 0 /\ cr' = 0
  /\ UNCHANGED <<shared, prebuffered, ring, rw, link, ppc, left, attempts,
                 device, sent, lag>>

\* An underrun drops back to buffering.
ShortRead ==
  /\ cpc = "short"
  /\ prebuffered' = FALSE
  /\ cpc' = "idle"
  /\ UNCHANGED <<shared, indices, link, ppc, left, attempts,
                 device, cn, cr, got, out, sent, lag>>

Callback == CallbackEnter \/ ReadSize \/ ReadCopy \/ ReadRelease \/ ShortRead

User == \/ Open \/ DeviceOn \/ DeviceOff \/ Freeze \/ CloseBegin

Next == User \/ CloseJoin \/ Producer \/ Callback

Spec == Init /\ [][Next]_vars

\* The worker and the device thread are scheduled; the caller of close() waits in join.
FairSpec == Spec /\ WF_vars(Producer) /\ WF_vars(Callback) /\ WF_vars(CloseJoin)

-----------------------------------------------------------------------------
(* Properties. *)

TypeOK ==
  /\ {stop, frozen, repin, prebuffered, connected, device} \subseteq BOOLEAN
  /\ ring \in [Slots -> 0 .. Total] /\ rw \in Slots /\ rr \in Slots
  /\ codec \in Codecs /\ decoder \in {"none", "ready", "blank", "freed"}
  /\ ppc \in ProducerPlaces /\ left \in 0 .. MaxBurst /\ attempts \in 0 .. MaxAttempts + 1
  /\ cpc \in CallbackPlaces /\ cn \in 0 .. Need /\ cr \in Slots
  /\ sent \in 0 .. Total /\ lag \in 0 .. MaxLag

\* The ring behaves as the feed the source promises: while no flush falls inside a
\* callback, what readFrames plays is exactly the next published samples, in order,
\* none twice, none overwritten while it was waiting, and nothing from before a
\* reconnect, a re-pin or a new station is played after it.
Feed == INSTANCE AudioFeed WITH
          fed <- sent, next <- sent - Avail, out <- out,
          broken <- ~connected \/ decoder = "blank" \/ ppc = "flush"
FeedRefined == Feed!Spec

\* The samples that wait are the last ones published, in their order, with room for the burst
\* under way; and what the callback has sized and copied is the head of them.
InStep ==
  /\ Avail <= sent
  /\ \A i \in 1 .. Avail : ring[(rr + i - 1) % RingSize] = sent - Avail + i
  /\ Avail + (IF ppc \in Writing THEN left ELSE 0) <= Half + MaxBurst
  /\ ppc = "read" => Avail <= Half
  /\ ppc \in {"start", "repinConnect"} => Avail = 0
  /\ Copying => cn <= Avail
  /\ cpc = "release" => cr = rr /\ got = [i \in 1 .. cn |-> sent - Avail + i]

FlushUnderCopy == (Flush \/ RepinFlush) /\ Copying
FreedFrames    == PublishWrite /\ decoder = "freed"

\* Only a flush between the callback's look at the ring and the store of its read index takes the
\* ring out of step with the feed; every other step is one of the feed, but for frames from a
\* freed decoder.  And the ring is in step again as soon as it is empty while nothing is copied:
\* by a later flush, by a new station, or because the old samples have been played out.
FeedKept ==
  /\ Feed!Init
  /\ [](Avail = 0 /\ ~Copying => InStep)
  /\ [][InStep /\ ~FlushUnderCopy =>
           InStep' /\ (Feed!Next \/ UNCHANGED Feed!vars \/ FreedFrames)]_vars

\* The producer never waits for good on a ring above half: the callback drains it.
\* With prebuffered_ down it would not, and neither side could ever move again (the
\* full-ring / not-prebuffered deadlock the comments of ringFlush speak of).
Backpressured == ppc = "loop" /\ Avail > Half /\ device /\ ~stop /\ ~frozen
BackpressureClears == Backpressured ~> ~Backpressured

\* close() returns: however the worker waits (frozen, backpressured, backing off,
\* half way through a re-pin), stop_ gets it out of its loop and the join ends.
CloseReturns == (stop /\ ppc # "none") ~> (ppc = "none")

\* A station that sends nothing more is given up, also when every reconnect succeeds:
\* the worker does not retry for ever (frozen or without a device it may wait).
LostStationGivenUp ==
  (sent = Total /\ ppc # "none") ~> (ppc \in {"done", "none"} \/ frozen \/ ~device)

\* What has been played is never played again, and a reconnect does not bring old
\* samples back ("the ring never carries audio across a discontinuity into live playback").
NoReplay == [][out' # out => out = <<>> \/ out'[1] > out[Len(out)]]_vars

\* The MP3 worker reads frames only from a decoder that is initialised, or was never
\* set up (which reads as an end of stream and is counted as one more attempt).
DecoderLive == ppc = "read" /\ codec = "MP3" => decoder # "freed"
=============================================================================
