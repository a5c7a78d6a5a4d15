---------------------------- MODULE StreamProofs ----------------------------
(***************************************************************************)
(* The two rings of the radio.  What the listener hears of StreamRing is   *)
(* what AudioFeed promises, for every ring, burst and callback.  And what  *)
(* StreamRecorder makes of it: its ring is never overfilled, every frame   *)
(* taken from it is in exactly one cut, and a cut with audio keeps its     *)
(* title, for every ring, block and chunk size and every offset.           *)
(***************************************************************************)
EXTENDS StreamRing, StreamRecorder, TLAPS

-----------------------------------------------------------------------------
(* StreamRing. *)

\* How far slot s is ahead of slot r; what waits in the ring.
Gap(s, r) == IF s >= r THEN s - r ELSE s - r + RingSize
Waiting == Gap(rw, rr)

Offline == {"none", "done", "backoff", "repinFlush", "repinConnect"}

ValuesOK ==
  /\ ring \in [Slots -> Nat] /\ rw \in Slots /\ rr \in Slots /\ cr \in Slots
  /\ codec \in {"MP3", "AAC"} /\ decoder \in {"none", "ready", "blank", "freed"} /\ connected \in BOOLEAN
  /\ left \in Nat /\ sent \in Nat /\ cn \in Nat

\* The worker writes only what comes over a connection, from a decoder set up for it, or what a
\* freed decoder still gives.
LinkOK ==
  /\ ppc \in Writing => (connected /\ decoder \in {"none", "ready"}) \/ decoder = "freed"
  /\ ppc \in Offline => ~connected
  /\ decoder = "ready" => connected
  /\ codec = "AAC" /\ ppc \notin {"none", "start"} => decoder = "none"
  /\ ppc = "start" => connected

\* A pass writes at most a burst; a slot is published with the next sample in it.
PassOK ==
  /\ left <= MaxBurst
  /\ ppc \in {"write", "publish"} => left > 0
  /\ ppc = "publish" => ring[rw] = sent + 1
  /\ cpc # "idle" => device

\* Holds whatever a flush meets.
BaseInv == ValuesOK /\ LinkOK /\ PassOK

\* A pass starts at half a ring or less, so that a burst never meets the read index; the worker
\* begins, and connects for a re-pin, with an empty ring.
RoomOK ==
  /\ Waiting <= Half + MaxBurst
  /\ ppc = "read" => Waiting <= Half
  /\ ppc \in Writing => Waiting + left <= Half + MaxBurst
  /\ ppc \in {"start", "repinConnect"} => rw = rr

\* The slots ahead of the read index hold the samples to be heard, the last published last.
QueueOK ==
  /\ Waiting <= sent
  /\ \A s \in Slots : Gap(s, rr) < Waiting => ring[s] = sent - Waiting + Gap(s, rr) + 1

\* What the callback has sized is there, and what it has copied is the head of the queue.
ReadOK ==
  /\ Copying => cn <= Waiting
  /\ cpc = "release" => cr = rr /\ got = [i \in 1 .. cn |-> sent - Waiting + i]

\* Holds while the ring is in step.
FeedInv == BaseInv /\ RoomOK /\ QueueOK /\ ReadOK

LEMMA Sizes ==
  /\ RingSize \in Nat /\ RingSize >= 4 /\ MaxBurst \in Nat /\ MaxBurst > 0
  /\ Half \in Nat /\ Half + MaxBurst < RingSize /\ Need \in Nat
BY RingAssumption, ClientAssumption DEF Half

LEMMA Wraps ==
  ASSUME NEW a \in Nat, RingSize <= a, a < RingSize + RingSize
  PROVE  a % RingSize = a - RingSize
BY Sizes

LEMMA GapIn == ASSUME NEW s \in Slots, NEW r \in Slots PROVE Gap(s, r) \in 0 .. RingSize - 1
BY Sizes DEF Gap, Slots

\* ringAvailable is the distance of the indices.
LEMMA Distance == ASSUME NEW w \in Slots, NEW r \in Slots PROVE (w + RingSize - r) % RingSize = Gap(w, r)
<1>1. CASE w >= r
  <2> DEFINE a == w + RingSize - r
  <2>1. a \in Nat /\ RingSize <= a /\ a < RingSize + RingSize
    BY <1>1, Sizes DEF Slots
  <2> HIDE DEF a
  <2>2. a % RingSize = a - RingSize
    BY <2>1, Wraps
  <2> QED
    BY <1>1, <2>2, Sizes DEF a, Gap, Slots
<1>2. CASE ~(w >= r)
  <2>1. w + RingSize - r \in 0 .. RingSize - 1
    BY <1>2, Sizes DEF Slots
  <2>2. (w + RingSize - r) % RingSize = w + RingSize - r
    BY <2>1, Sizes
  <2> QED
    BY <1>2, <2>2, Sizes DEF Gap, Slots
<1> QED
  BY <1>1, <1>2

LEMMA AvailIsWaiting == ASSUME rw \in Slots, rr \in Slots PROVE Avail = Waiting
BY Distance DEF Avail, Waiting

\* k slots on: what is ahead of r by k or more is nearer by k.
LEMMA Onward ==
  ASSUME NEW r \in Slots, NEW k \in 0 .. RingSize - 1
  PROVE  /\ (r + k) % RingSize \in Slots /\ Gap((r + k) % RingSize, r) = k
         /\ \A s \in Slots : Gap(s, (r + k) % RingSize) =
              IF Gap(s, r) >= k THEN Gap(s, r) - k ELSE Gap(s, r) - k + RingSize
<1>1. CASE r + k < RingSize
  <2>1. r + k \in 0 .. RingSize - 1
    BY <1>1, Sizes DEF Slots
  <2>2. (r + k) % RingSize = r + k
    BY <2>1, Sizes
  <2> QED
    BY <1>1, <2>2, Sizes DEF Gap, Slots
<1>2. CASE ~(r + k < RingSize)
  <2> DEFINE a == r + k
  <2>1. a \in Nat /\ RingSize <= a /\ a < RingSize + RingSize
    BY <1>2, Sizes DEF Slots
  <2> HIDE DEF a
  <2>2. a % RingSize = a - RingSize
    BY <2>1, Wraps
  <2> QED
    BY <1>2, <2>2, Sizes DEF a, Gap, Slots
<1> QED
  BY <1>1, <1>2

\* Short of a full ring, what is one slot on is one further ahead.
LEMMA NextSlot ==
  ASSUME NEW w \in Slots, NEW r \in Slots, Gap(w, r) + 1 < RingSize
  PROVE  (w + 1) % RingSize \in Slots /\ Gap((w + 1) % RingSize, r) = Gap(w, r) + 1
<1> DEFINE n == (w + 1) % RingSize
<1>1. n \in Slots /\ Gap(n, w) = 1
  <2>1. 1 \in 0 .. RingSize - 1
    BY Sizes
  <2> QED
    BY <2>1, Onward
<1> HIDE DEF n
<1>2. n = w + 1 \/ (n = 0 /\ w = RingSize - 1)
  BY <1>1, Sizes DEF Gap, Slots
<1>3. n \in Slots /\ Gap(n, r) = Gap(w, r) + 1
  BY <1>1, <1>2, Sizes DEF Gap, Slots
<1> QED
  BY <1>3 DEF n

LEMMA InitBaseInv == ASSUME Init PROVE BaseInv
<1>1. codec \in {"MP3", "AAC"}
  BY ClientAssumption DEF Init
<1>2. rw \in Slots /\ rr \in Slots /\ cr \in Slots /\ ring \in [Slots -> Nat]
  BY Sizes DEF Init, Slots
<1> QED
  BY <1>1, <1>2, Sizes DEF Init, BaseInv, ValuesOK, LinkOK, PassOK, Writing, Offline

\* Whatever a flush meets.
LEMMA BaseStep == BaseInv /\ [Next]_vars => BaseInv'
<1> SUFFICES ASSUME BaseInv, [Next]_vars PROVE BaseInv'
  OBVIOUS
<1> USE DEF BaseInv, ValuesOK, LinkOK, PassOK, Writing, Offline
<1>0. /\ 0 \in Slots /\ (\A i \in Nat : i % RingSize \in Slots)
      /\ cn \in Nat /\ cr \in Nat /\ rw \in Nat /\ cr + cn \in Nat /\ rw + 1 \in Nat /\ Avail \in Slots
  <2>1. \A i \in Nat : i % RingSize \in Slots
    BY Sizes DEF Slots
  <2>2. Avail \in Slots
    BY AvailIsWaiting, GapIn DEF Slots, Waiting
  <2>3. 0 \in Slots /\ cr \in Nat /\ rw \in Nat
    BY Sizes DEF Slots
  <2>4. cr + cn \in Nat /\ rw + 1 \in Nat
    BY <2>3
  <2> QED
    BY <2>1, <2>2, <2>3, <2>4
<1>1. CASE User \/ CloseJoin
  <2>1. CASE Open
    <3>1. PICK c \in Codecs, ok \in BOOLEAN :
            /\ ppc = "none" /\ ~device /\ rw' = 0 /\ rr' = 0 /\ codec' = c /\ connected' = ok /\ left' = 0
            /\ ppc' = IF ok THEN "start" ELSE "none"
            /\ UNCHANGED <<ring, decoder, callback, sent>>
      BY <2>1 DEF Open
    <3>2. codec' \in {"MP3", "AAC"} /\ ppc' \in {"start", "none"} /\ (ppc' = "none" => ~connected') /\ connected' \in BOOLEAN
      BY <3>1, ClientAssumption
    <3> QED
      BY <1>0, <3>1, <3>2, Sizes DEF callback
  <2>2. CASE DeviceOn \/ DeviceOff \/ Freeze \/ CloseBegin \/ CloseJoin
    BY <2>2 DEF DeviceOn, DeviceOff, Freeze, CloseBegin, CloseJoin, shared, indices, link, callback
  <2> QED
    BY <1>1, <2>1, <2>2 DEF User
<1>2. CASE Callback
  <2>1. /\ UNCHANGED <<ring, rw, link, ppc, left, device, sent>> /\ (cpc' # "idle" => device)
        /\ rr' \in Slots /\ cr' \in Slots /\ cn' \in Nat
    <3>1. CASE ReadSize
      BY <1>0, <3>1, Sizes DEF ReadSize, indices, Slots
    <3>2. CASE ReadRelease
      BY <1>0, <3>2 DEF ReadRelease
    <3>3. CASE CallbackEnter \/ ReadCopy \/ ShortRead
      BY <3>3 DEF CallbackEnter, ReadCopy, ShortRead, indices
    <3> QED
      BY <1>2, <3>1, <3>2, <3>3 DEF Callback
  <2> QED
    BY <2>1 DEF link
<1>3. CASE StartWorker \/ LoopHead \/ ReadSome \/ ReadNone
  <2>1. UNCHANGED <<ring, rw, rr, codec, connected, sent, callback>> /\ left' \in Nat /\ left' <= MaxBurst
    BY <1>3, Sizes DEF StartWorker, LoopHead, ReadSome, ReadNone, shared, indices, link, Goto
  <2>2. ppc' \in {"loop", "exit", "repinGate", "read", "write", "drop"} /\ (ppc' = "write" => left' > 0)
    BY <1>3 DEF StartWorker, LoopHead, ReadSome, ReadNone, Goto
  <2>3. LinkOK' /\ decoder' \in {"none", "ready", "blank", "freed"}
    <3>1. CASE StartWorker
      <4>1. PICK ok \in BOOLEAN : ppc = "start" /\ decoder' = DecoderAfterInit(ok) /\ ppc' \in {"loop", "exit"}
        BY <3>1 DEF StartWorker, Goto
      <4>2. decoder' \in {"none", "ready", "blank"} /\ (codec = "AAC" => decoder' = "none")
        BY <4>1 DEF DecoderAfterInit
      <4> QED
        BY <2>1, <4>1, <4>2
    <3>2. CASE LoopHead \/ ReadNone
      BY <2>1, <2>2, <3>2 DEF LoopHead, ReadNone, link, Goto
    <3>3. CASE ReadSome
      <4>1. ppc = "read" /\ ppc' \in {"loop", "write"} /\ decoder' = decoder
        BY <3>3 DEF ReadSome, link, Goto
      <4>2. (connected /\ decoder \in {"none", "ready"}) \/ decoder = "freed"
        BY <3>3, <4>1 DEF ReadSome
      <4> QED
        BY <2>1, <4>1, <4>2
    <3> QED
      BY <1>3, <3>1, <3>2, <3>3
  <2> QED
    BY <2>1, <2>2, <2>3 DEF callback
<1>4. CASE WriteSlot \/ PublishWrite
  <2>1. CASE WriteSlot
    BY <2>1 DEF WriteSlot, link, callback, Goto
  <2>2. CASE PublishWrite
    <3>1. /\ ppc = "publish" /\ ppc' = "prime" /\ rw' = (rw + 1) % RingSize /\ sent' = sent + 1 /\ left' = left - 1
          /\ UNCHANGED <<ring, rr, codec, decoder, connected, callback>>
      BY <2>2 DEF PublishWrite, link, Goto
    <3>2. rw' \in Slots
      BY <1>0, <3>1
    <3>3. left \in Nat /\ left > 0 /\ left <= MaxBurst /\ sent \in Nat
      BY <3>1
    <3>4. left' \in Nat /\ left' <= MaxBurst /\ sent' \in Nat
      BY <3>1, <3>3, Sizes
    <3> QED
      BY <3>1, <3>2, <3>4 DEF callback
  <2> QED
    BY <1>4, <2>1, <2>2
<1>5. CASE PrimeCheck \/ PrimeStore \/ DropConnection \/ RepinGate \/ RepinConnect \/ ExitWorker
  <2>1. UNCHANGED <<ring, rw, rr, codec, left, sent, callback>>
    BY <1>5 DEF PrimeCheck, PrimeStore, DropConnection, RepinGate, RepinConnect, ExitWorker, indices, link
  <2>2. \/ ppc \in {"prime", "primed"} /\ ppc' \in {"primed", "write", "loop"} /\ (ppc' = "write" => left > 0)
        \/ ppc' \in {"exit", "backoff", "repinFlush", "loop", "done"}
    BY <1>5 DEF PrimeCheck, PrimeStore, DropConnection, RepinGate, RepinConnect, ExitWorker, AfterFrame, Goto
  <2>3. LinkOK' /\ connected' \in BOOLEAN /\ decoder' \in {"none", "ready", "blank", "freed"}
    <3>1. CASE PrimeCheck \/ PrimeStore
      BY <2>1, <2>2, <3>1 DEF PrimeCheck, PrimeStore, AfterFrame, link, Goto
    <3>2. CASE DropConnection \/ RepinGate \/ ExitWorker
      BY <2>1, <2>2, <3>2 DEF DropConnection, RepinGate, ExitWorker, UninitDecoder, Goto
    <3>3. CASE RepinConnect
      BY <2>1, <2>2, <3>3 DEF RepinConnect, DecoderAfterInit, Goto
    <3> QED
      BY <1>5, <3>1, <3>2, <3>3
  <2> QED
    BY <2>1, <2>2, <2>3 DEF callback
<1>6. CASE Reconnect
  BY <1>6 DEF Reconnect, DecoderAfterInit, shared, indices, link, callback, Goto
<1>7. CASE Flush \/ RepinFlush
  <2>1. UNCHANGED <<ring, rw, codec, decoder, connected, left, sent, callback>> /\ rr' = rw
    BY <1>7 DEF Flush, RepinFlush, link
  <2>2. \/ ppc = "flush" /\ ppc' = "loop"
        \/ ppc = "repinFlush" /\ ppc' \in {"exit", "repinConnect"}
    BY <1>7 DEF Flush, RepinFlush, Goto
  <2> QED
    BY <2>1, <2>2 DEF callback
<1>8. CASE UNCHANGED vars
  BY <1>8 DEF vars, shared, indices, link, callback
<1> QED
  BY <1>1, <1>2, <1>3, <1>4, <1>5, <1>6, <1>7, <1>8 DEF Next, Producer

\* In step, the user-interface thread; it opens a station on an empty ring.
LEMMA UserStep ==
  ASSUME FeedInv, User \/ CloseJoin
  PROVE  (RoomOK /\ QueueOK /\ ReadOK)'
<1> USE DEF FeedInv, BaseInv, RoomOK, QueueOK, ReadOK, Copying, Waiting, Writing
<1>1. CASE Open
  <2>1. rw' = 0 /\ rr' = 0 /\ left' = 0 /\ ppc' \in {"start", "none"} /\ UNCHANGED <<ring, callback, sent>>
    BY <1>1 DEF Open
  <2>2. rr' \in Slots /\ Gap(rw', rr') = 0
    BY <2>1, Sizes DEF Slots, Gap
  <2>3. \A s \in Slots : ~(Gap(s, rr') < Gap(rw', rr'))
    <3> SUFFICES ASSUME NEW s \in Slots PROVE ~(Gap(s, rr') < 0)
      BY <2>2
    <3>1. Gap(s, rr') \in 0 .. RingSize - 1
      BY <2>2, GapIn
    <3> QED
      BY <3>1, Sizes
  <2>4. cpc' = "idle"
    BY <1>1, <2>1 DEF Open, PassOK, callback
  <2>5. RoomOK'
    BY <2>1, <2>2, Sizes
  <2>6. QueueOK'
    BY <2>1, <2>2, <2>3 DEF ValuesOK
  <2> QED
    BY <2>4, <2>5, <2>6
<1>2. CASE DeviceOn \/ DeviceOff \/ Freeze \/ CloseBegin \/ CloseJoin
  <2>1. UNCHANGED <<ring, rw, rr, left, sent, cpc, cn, cr, got>>
    BY <1>2 DEF DeviceOn, DeviceOff, Freeze, CloseBegin, CloseJoin, indices, callback
  <2>2. ppc' = ppc \/ ppc' = "none"
    BY <1>2 DEF DeviceOn, DeviceOff, Freeze, CloseBegin, CloseJoin
  <2> QED
    BY <2>1, <2>2
<1> QED
  BY <1>1, <1>2 DEF User

\* In step, the callback takes what it has sized from the head of the queue.
LEMMA CallbackStep ==
  ASSUME FeedInv, Callback
  PROVE  (RoomOK /\ QueueOK /\ ReadOK)'
<1> USE DEF FeedInv, BaseInv, ValuesOK, RoomOK, QueueOK, ReadOK, Copying, Waiting
<1>1. CASE CallbackEnter
  BY <1>1 DEF CallbackEnter, shared, indices, link, callback
<1>2. CASE ReadSize
  BY <1>2, AvailIsWaiting, GapIn, Sizes DEF ReadSize, shared, indices, link, callback
<1>3. CASE ReadCopy
  <2>1. ASSUME NEW i \in 1 .. cn
        PROVE  ring[(rr + i - 1) % RingSize] = sent - Waiting + i
    <3>0. cn \in Nat /\ cn <= Waiting /\ Waiting \in 0 .. RingSize - 1 /\ rr \in Nat
      BY <1>3, GapIn, Sizes DEF ReadCopy, Slots
    <3>1. i - 1 \in 0 .. RingSize - 1 /\ rr + i - 1 = rr + (i - 1) /\ i - 1 < Waiting /\ Waiting \in Nat
      <4> HIDE DEF Waiting
      <4> QED
        BY <3>0, Sizes
    <3> DEFINE s == (rr + (i - 1)) % RingSize
    <3>2. s \in Slots /\ Gap(s, rr) = i - 1
      BY <3>1, Onward
    <3> HIDE DEF s
    <3>3. ring[s] = sent - Waiting + Gap(s, rr) + 1
      BY <3>1, <3>2
    <3>4. ring[s] = sent - Waiting + i
      BY <3>1, <3>2, <3>3
    <3> QED
      BY <3>1, <3>4 DEF s
  <2>2. got' = [i \in 1 .. cn |-> sent - Waiting + i]
    BY <1>3, <2>1 DEF ReadCopy
  <2> QED
    BY <1>3, <2>2 DEF ReadCopy, shared, indices, link
<1>4. CASE ReadRelease
  <2>1. /\ cn \in 0 .. RingSize - 1 /\ cn <= Waiting /\ Waiting \in Nat
        /\ rr' = (rr + cn) % RingSize /\ cn' = 0 /\ cpc' \in {"short", "idle"}
        /\ UNCHANGED <<ring, rw, ppc, left, sent>>
    BY <1>4, GapIn, Sizes DEF ReadRelease
  <2>2. rr' \in Slots /\ \A s \in Slots : Gap(s, rr') = IF Gap(s, rr) >= cn THEN Gap(s, rr) - cn ELSE Gap(s, rr) - cn + RingSize
    BY <2>1, Onward
  <2>3. Gap(rw, rr') = Waiting - cn
    BY <2>1, <2>2
  <2>4. ASSUME NEW s \in Slots, Gap(s, rr') < Gap(rw, rr')
        PROVE  Gap(s, rr) < Waiting /\ Gap(s, rr) = Gap(s, rr') + cn
    <3>1. /\ Gap(s, rr) \in 0 .. RingSize - 1 /\ Gap(rw, rr) \in 0 .. RingSize - 1
          /\ Gap(s, rr') = IF Gap(s, rr) >= cn THEN Gap(s, rr) - cn ELSE Gap(s, rr) - cn + RingSize
          /\ Gap(rw, rr') = Gap(rw, rr) - cn /\ cn \in Nat /\ RingSize \in Nat
      BY <2>1, <2>2, <2>3, GapIn, Sizes
    <3> QED
      BY <2>4, <3>1
  <2>5. \A s \in Slots : Gap(s, rr') < Gap(rw, rr') => ring[s] = sent - Gap(rw, rr') + Gap(s, rr') + 1
    <3> SUFFICES ASSUME NEW s \in Slots, Gap(s, rr') < Gap(rw, rr')
                 PROVE  ring[s] = sent - Gap(rw, rr') + Gap(s, rr') + 1
      OBVIOUS
    <3>1. Gap(s, rr) < Waiting /\ Gap(s, rr) = Gap(s, rr') + cn
      BY <2>4
    <3>2. ring[s] = sent - Waiting + Gap(s, rr) + 1
      BY <3>1
    <3>3. {Gap(s, rr'), Gap(rw, rr'), Gap(s, rr), Gap(rw, rr), sent, cn} \subseteq Nat
      BY <2>1, <2>2, GapIn, Sizes
    <3> QED
      BY <2>3, <3>1, <3>2, <3>3
  <2>6. ppc \in {"start", "repinConnect"} => rw = rr'
    BY <2>1, <2>2, <2>3, Sizes DEF Gap, Slots
  <2>7. Waiting' = Waiting - cn
    BY <2>1, <2>3
  <2>8. RoomOK'
    BY <2>1, <2>6, <2>7, Sizes
  <2>9. QueueOK'
    BY <2>1, <2>5, <2>7
  <2>10. ReadOK'
    BY <2>1
  <2> QED
    BY <2>8, <2>9, <2>10
<1>5. CASE ShortRead
  BY <1>5 DEF ShortRead, shared, indices, link
<1> QED
  BY <1>1, <1>2, <1>3, <1>4, <1>5 DEF Callback

\* In step, the worker: a burst finds room, and each sample goes behind the last.
LEMMA ProducerStep ==
  ASSUME FeedInv, Producer, ~FlushUnderCopy
  PROVE  (RoomOK /\ QueueOK /\ ReadOK)'
<1> USE DEF FeedInv, BaseInv, ValuesOK, PassOK, RoomOK, QueueOK, ReadOK, Copying, Writing, Waiting
<1>0. Waiting \in 0 .. RingSize - 1 /\ Avail = Waiting
  BY GapIn, AvailIsWaiting
<1>1. CASE StartWorker \/ LoopHead \/ ReadSome \/ ReadNone
  <2>1. UNCHANGED <<ring, rw, rr, sent, callback>>
    BY <1>1 DEF StartWorker, LoopHead, ReadSome, ReadNone, indices
  <2>2. ppc' \in {"loop", "exit", "repinGate", "read", "write", "drop"}
    BY <1>1 DEF StartWorker, LoopHead, ReadSome, ReadNone, Goto
  <2>3. ppc' = "read" => Waiting <= Half
    BY <1>0, <1>1 DEF StartWorker, LoopHead, ReadSome, ReadNone, Goto
  <2>4. ppc' = "write" => Waiting <= Half /\ left' \in Nat /\ left' <= MaxBurst
    BY <1>1, Sizes DEF StartWorker, LoopHead, ReadSome, ReadNone, Goto
  <2>5. Waiting' = Waiting
    BY <2>1
  <2>6. RoomOK'
    BY <1>0, <2>2, <2>3, <2>4, <2>5, Sizes
  <2>7. QueueOK' /\ ReadOK'
    BY <2>1 DEF callback
  <2> QED
    BY <2>6, <2>7
<1>2. CASE WriteSlot
  <2>1. /\ ppc = "write" /\ ppc' = "publish" /\ ring' = [ring EXCEPT ![rw] = sent + 1]
        /\ UNCHANGED <<rw, rr, codec, decoder, connected, left, sent, callback>>
    BY <1>2 DEF WriteSlot, link, Goto
  <2>2. ring' \in [Slots -> Nat] /\ ring'[rw] = sent + 1
    BY <2>1
  <2>3. \A s \in Slots : Gap(s, rr) < Gap(rw, rr) => ring'[s] = ring[s]
    BY <1>0, <2>1, Sizes
  <2>4. RoomOK' /\ ReadOK'
    BY <2>1 DEF callback
  <2>5. QueueOK'
    BY <2>1, <2>3
  <2> QED
    BY <2>4, <2>5
<1>3. CASE PublishWrite
  <2>1. /\ ppc = "publish" /\ ppc' = "prime" /\ rw' = (rw + 1) % RingSize /\ sent' = sent + 1 /\ left' = left - 1
        /\ UNCHANGED <<ring, rr, codec, decoder, connected, callback>>
    BY <1>3 DEF PublishWrite, link, Goto
  <2>2. rw' \in Slots /\ Gap(rw', rr) = Gap(rw, rr) + 1
    <3>1. Gap(rw, rr) + 1 < RingSize
      BY <1>0, <2>1, Sizes
    <3> QED
      BY <2>1, <3>1, NextSlot
  <2>3. ASSUME NEW s \in Slots, Gap(s, rr) < Gap(rw, rr) + 1, ~(Gap(s, rr) < Gap(rw, rr))
        PROVE  s = rw
    BY <2>3, Sizes DEF Gap, Slots
  <2>4. ASSUME NEW s \in Slots, Gap(s, rr) < Gap(rw, rr) + 1
        PROVE  ring[s] = sent - Gap(rw, rr) + Gap(s, rr) + 1
    <3>1. Gap(s, rr) \in Nat /\ Gap(rw, rr) \in Nat
      BY GapIn, Sizes
    <3>2. CASE Gap(s, rr) < Gap(rw, rr)
      BY <3>1, <3>2
    <3>3. CASE s = rw
      BY <2>1, <3>1, <3>3
    <3> QED
      BY <2>3, <2>4, <3>2, <3>3
  <2>5. left' \in Nat /\ Gap(rw', rr) + left' <= Half + MaxBurst /\ Gap(rw', rr) <= Half + MaxBurst /\ Gap(rw', rr) <= sent'
    BY <1>0, <2>1, <2>2, Sizes
  <2>6. sent' - Gap(rw', rr) = sent - Gap(rw, rr)
    <3>1. sent \in Nat /\ Gap(rw, rr) \in Nat /\ sent' = sent + 1 /\ Gap(rw', rr) = Gap(rw, rr) + 1
      BY <1>0, <2>1, <2>2
    <3> QED
      BY <3>1
  <2>7. ReadOK'
    <3>1. cpc \in {"copy", "release"} => cn <= Gap(rw', rr)
      BY <1>0, <2>2, Sizes
    <3> QED
      BY <2>1, <2>6, <3>1 DEF callback
  <2>8. QueueOK'
    <3>1. \A s \in Slots : Gap(s, rr) < Gap(rw', rr) => ring[s] = sent' - Gap(rw', rr) + Gap(s, rr) + 1
      <4> SUFFICES ASSUME NEW s \in Slots, Gap(s, rr) < Gap(rw', rr)
                   PROVE  ring[s] = sent' - Gap(rw', rr) + Gap(s, rr) + 1
        OBVIOUS
      <4>1. Gap(s, rr) < Gap(rw, rr) + 1
        BY <2>2
      <4>2. ring[s] = sent - Gap(rw, rr) + Gap(s, rr) + 1
        BY <2>4, <4>1
      <4> QED
        BY <2>6, <4>2
    <3>2. ring' = ring /\ rr' = rr
      BY <2>1
    <3> QED
      BY <2>5, <3>1, <3>2
  <2>9. RoomOK'
    BY <2>1, <2>5
  <2> QED
    BY <2>7, <2>8, <2>9
<1>4. CASE PrimeCheck \/ PrimeStore \/ DropConnection \/ RepinGate \/ RepinConnect \/ Reconnect \/ ExitWorker
  <2>1. UNCHANGED <<ring, rw, rr, left, sent, callback>>
    BY <1>4 DEF PrimeCheck, PrimeStore, DropConnection, RepinGate, RepinConnect, Reconnect, ExitWorker, indices
  <2>2. \/ ppc \in {"prime", "primed"} /\ ppc' \in {"primed", "write", "loop"}
        \/ ppc' \in {"exit", "backoff", "repinFlush", "loop", "flush", "done"}
    BY <1>4 DEF PrimeCheck, PrimeStore, DropConnection, RepinGate, RepinConnect, Reconnect, ExitWorker, AfterFrame, Goto
  <2>3. RoomOK'
    BY <2>1, <2>2
  <2>4. QueueOK' /\ ReadOK'
    BY <2>1 DEF callback
  <2> QED
    BY <2>3, <2>4
<1>5. CASE Flush \/ RepinFlush
  <2>1. ~Copying /\ rr' = rw /\ UNCHANGED <<ring, rw, left, sent, callback>>
    BY <1>5 DEF Flush, RepinFlush, FlushUnderCopy
  <2>2. ppc' \in {"loop", "exit", "repinConnect"}
    BY <1>5 DEF Flush, RepinFlush, Goto
  <2>3. Gap(rw, rw) = 0
    BY Sizes DEF Gap, Slots
  <2>4. ASSUME NEW s \in Slots PROVE ~(Gap(s, rw) < 0)
    <3>1. Gap(s, rw) \in 0 .. RingSize - 1
      BY GapIn
    <3> QED
      BY <3>1, Sizes
  <2>5. RoomOK'
    BY <2>1, <2>2, <2>3, Sizes
  <2>6. QueueOK'
    BY <2>1, <2>3, <2>4
  <2>7. ReadOK'
    BY <2>1 DEF callback
  <2> QED
    BY <2>5, <2>6, <2>7
<1> QED
  BY <1>1, <1>2, <1>3, <1>4, <1>5 DEF Producer

\* The waiting samples, counted from the read index or by their slots.
LEMMA InStepIs == ASSUME BaseInv PROVE InStep <=> RoomOK /\ QueueOK /\ ReadOK
<1>1. Avail = Waiting /\ Waiting \in 0 .. RingSize - 1 /\ rr \in Slots /\ sent \in Nat /\ {cn, left} \subseteq Nat
  BY AvailIsWaiting, GapIn DEF BaseInv, ValuesOK, Waiting
<1>2. Waiting = 0 <=> rw = rr
  BY Sizes DEF BaseInv, ValuesOK, Waiting, Gap, Slots
<1>3. (\A i \in 1 .. Avail : ring[(rr + i - 1) % RingSize] = sent - Avail + i)
      <=> (\A s \in Slots : Gap(s, rr) < Waiting => ring[s] = sent - Waiting + Gap(s, rr) + 1)
  <2>1. ASSUME \A i \in 1 .. Avail : ring[(rr + i - 1) % RingSize] = sent - Avail + i,
               NEW s \in Slots, Gap(s, rr) < Waiting
        PROVE  ring[s] = sent - Waiting + Gap(s, rr) + 1
    <3> DEFINE k == Gap(s, rr)
    <3>1. k \in 0 .. RingSize - 1 /\ k < Waiting
      BY <1>1, <2>1, GapIn
    <3>2. (rr + k) % RingSize \in Slots /\ Gap((rr + k) % RingSize, rr) = k
      BY <1>1, <3>1, Onward
    <3>3. (rr + k) % RingSize = s
      BY <1>1, <3>2, Sizes DEF Gap, Slots
    <3> HIDE DEF k
    <3>4. k + 1 \in 1 .. Avail /\ rr + (k + 1) - 1 = rr + k
      BY <1>1, <3>1, Sizes DEF Slots
    <3>5. ring[(rr + (k + 1) - 1) % RingSize] = sent - Avail + (k + 1)
      BY <2>1, <3>4
    <3>6. ring[s] = sent - Waiting + (k + 1)
      BY <1>1, <3>3, <3>4, <3>5
    <3> QED
      BY <1>1, <3>1, <3>6, Sizes DEF k
  <2>2. ASSUME \A s \in Slots : Gap(s, rr) < Waiting => ring[s] = sent - Waiting + Gap(s, rr) + 1,
               NEW i \in 1 .. Avail
        PROVE  ring[(rr + i - 1) % RingSize] = sent - Avail + i
    <3>1. i - 1 \in 0 .. RingSize - 1 /\ rr + i - 1 = rr + (i - 1) /\ i - 1 < Waiting
      BY <1>1, Sizes DEF Slots
    <3> DEFINE s == (rr + (i - 1)) % RingSize
    <3>2. s \in Slots /\ Gap(s, rr) = i - 1
      BY <1>1, <3>1, Onward
    <3> HIDE DEF s
    <3>3. ring[s] = sent - Waiting + (i - 1) + 1
      BY <2>2, <3>1, <3>2
    <3> QED
      BY <1>1, <3>1, <3>3, Sizes DEF s
  <2> QED
    BY <2>1, <2>2
<1>4. (Avail + (IF ppc \in Writing THEN left ELSE 0) <= Half + MaxBurst)
      <=> (Waiting <= Half + MaxBurst /\ (ppc \in Writing => Waiting + left <= Half + MaxBurst))
  BY <1>1, Sizes
<1> QED
  BY <1>1, <1>2, <1>3, <1>4 DEF InStep, RoomOK, QueueOK, ReadOK

\* An empty ring is in step, if nothing is being copied.
LEMMA EmptyInStep == ASSUME BaseInv, Avail = 0, ~Copying PROVE InStep
<1>1. left \in Nat /\ left <= MaxBurst /\ sent \in Nat
  BY DEF BaseInv, ValuesOK, PassOK
<1>2. cpc # "release" /\ (\A i \in 1 .. 0 : FALSE)
  BY DEF Copying
<1> QED
  BY <1>1, <1>2, Sizes DEF InStep

-----------------------------------------------------------------------------
(* Each step is one of the feed, or none. *)

\* The feed is broken while the station is away, or back and the old sound not yet dropped.
Broken == ~connected \/ decoder = "blank" \/ ppc = "flush"

LEMMA FeedInit == ASSUME Init PROVE Feed!Init
<1>1. Avail = 0
  <2>1. rw \in Slots /\ rr \in Slots /\ Waiting = 0
    BY Sizes DEF Init, Slots, Waiting, Gap
  <2> QED
    BY <2>1, AvailIsWaiting
<1> QED
  BY <1>1 DEF Init, Feed!Init

\* What waits is counted by the indices.
LEMMA Counted ==
  ASSUME FeedInv, FeedInv'
  PROVE  /\ Avail = Gap(rw, rr) /\ Avail \in 0 .. RingSize - 1 /\ Avail <= sent /\ sent \in Nat
         /\ Avail' = Gap(rw', rr') /\ Avail' \in 0 .. RingSize - 1 /\ Avail' <= sent' /\ sent' \in Nat
BY Distance, GapIn DEF FeedInv, BaseInv, ValuesOK, QueueOK, Waiting, Avail

LEMMA FeedPut ==
  ASSUME FeedInv, FeedInv', PublishWrite, decoder # "freed"
  PROVE  Feed!Put
<1>1. sent' = sent + 1 /\ out' = out /\ Broken' = FALSE /\ Broken = FALSE
  BY DEF PublishWrite, FeedInv, BaseInv, ValuesOK, LinkOK, Writing, Broken, link, callback, Goto
<1>2. Avail' = Avail + 1
  <2>1. Gap(rw, rr) + 1 < RingSize
    BY Sizes, Counted DEF PublishWrite, FeedInv, BaseInv, ValuesOK, PassOK, RoomOK, Waiting, Writing
  <2>2. rw' = (rw + 1) % RingSize /\ rr' = rr /\ rw \in Slots /\ rr \in Slots
    BY DEF PublishWrite, FeedInv, BaseInv, ValuesOK
  <2> QED
    BY <2>1, <2>2, NextSlot, Counted
<1> QED
  BY <1>1, <1>2, Counted, Sizes DEF Feed!Put, Broken

LEMMA FeedHear ==
  ASSUME FeedInv, FeedInv', ReadRelease
  PROVE  [Feed!Hear]_(Feed!vars)
<1>1. sent' = sent /\ cn \in Nat /\ cn <= Avail /\ UNCHANGED Broken
  BY Counted DEF ReadRelease, FeedInv, BaseInv, ValuesOK, ReadOK, Copying, Waiting, Broken, link
<1>2. Avail' = Avail - cn
  <2>1. rr' = (rr + cn) % RingSize /\ rw' = rw /\ rw \in Slots /\ rr \in Slots
    BY DEF ReadRelease, FeedInv, BaseInv, ValuesOK, ReadOK
  <2>2. cn \in 0 .. RingSize - 1 /\ Gap(rw, rr) >= cn
    BY <1>1, Counted, Sizes
  <2>3. Gap(rw', rr') = Gap(rw, rr) - cn
    BY <2>1, <2>2, Onward
  <2> QED
    BY <2>3, Counted
<1>3. CASE cn = 0
  <2>1. out' = out /\ Avail' = Avail
    BY <1>2, <1>3, Counted, Sizes DEF ReadRelease
  <2> QED
    BY <1>1, <2>1 DEF Feed!vars, Broken
<1>4. CASE cn # 0
  <2>1. cn \in 1 .. (sent - (sent - Avail)) /\ sent' - Avail' = (sent - Avail) + cn
    BY <1>1, <1>2, <1>4, Counted, Sizes
  <2>2. out' = [i \in 1 .. cn |-> (sent - Avail) + i]
    BY <1>4, Counted DEF ReadRelease, FeedInv, ReadOK, Waiting
  <2> QED
    BY <1>1, <2>1, <2>2 DEF Feed!Hear, Broken
<1> QED
  BY <1>3, <1>4

\* A flush, and the opening of a station, are a drop.
LEMMA FeedDrop ==
  ASSUME FeedInv, FeedInv', Flush \/ RepinFlush \/ Open
  PROVE  Feed!Drop
<1>1. Broken = TRUE
  BY DEF Flush, RepinFlush, Open, Broken, FeedInv, BaseInv, LinkOK, Offline
<1>2. rw' = rr' /\ sent' = sent /\ out' = out
  BY DEF Flush, RepinFlush, Open, callback
<1>3. Avail' = 0
  BY <1>2, Counted, Sizes DEF Gap, FeedInv, BaseInv, ValuesOK, Slots
<1>4. sent' - Avail' = sent
  BY <1>2, <1>3, Counted
<1> QED
  BY <1>1, <1>2, <1>4 DEF Feed!Drop, Broken

\* The worker begins, and the re-pin connects, with nothing left to drop.
LEMMA FeedResume ==
  ASSUME FeedInv, FeedInv', RepinConnect \/ StartWorker
  PROVE  [Feed!Resume \/ Feed!Break]_(Feed!vars)
<1>1. rw' = rw /\ rr' = rr /\ sent' = sent /\ out' = out /\ rw = rr
  BY DEF RepinConnect, StartWorker, FeedInv, RoomOK, indices, callback
<1>2. Avail = 0 /\ Avail' = 0
  BY <1>1, Counted, Sizes DEF Gap, FeedInv, BaseInv, ValuesOK, Slots
<1>3. CASE Broken /\ ~Broken'
  BY <1>1, <1>2, <1>3, Counted DEF Feed!Resume, Broken
<1>4. CASE Broken'
  BY <1>1, <1>2, <1>4 DEF Feed!Break, Broken
<1>5. CASE ~Broken /\ ~Broken'
  BY <1>1, <1>2, <1>5 DEF Feed!vars, Broken
<1> QED
  BY <1>3, <1>4, <1>5

\* Everything else leaves the feed alone, but for a connection that is lost.
LEMMA FeedBreak ==
  ASSUME FeedInv, FeedInv',
         \/ DeviceOn \/ DeviceOff \/ Freeze \/ CloseBegin \/ CloseJoin
         \/ LoopHead \/ ReadSome \/ ReadNone \/ WriteSlot \/ PrimeCheck \/ PrimeStore
         \/ DropConnection \/ Reconnect \/ RepinGate \/ ExitWorker
         \/ CallbackEnter \/ ReadSize \/ ReadCopy \/ ShortRead \/ UNCHANGED vars
  PROVE  [Feed!Break]_(Feed!vars)
<1>1. rw' = rw /\ rr' = rr /\ sent' = sent /\ out' = out
  BY DEF DeviceOn, DeviceOff, Freeze, CloseBegin, CloseJoin, LoopHead, ReadSome, ReadNone, WriteSlot,
     PrimeCheck, PrimeStore, DropConnection, Reconnect, RepinGate, ExitWorker, CallbackEnter, ReadSize, ReadCopy,
     ShortRead, vars, indices, callback
<1>2. Avail' = Avail
  BY <1>1 DEF Avail
<1>3. Broken' = TRUE \/ Broken' = Broken
  BY DEF DeviceOn, DeviceOff, Freeze, CloseBegin, CloseJoin, LoopHead, ReadSome, ReadNone, WriteSlot,
     PrimeCheck, PrimeStore, DropConnection, Reconnect, RepinGate, ExitWorker, CallbackEnter, ReadSize, ReadCopy,
     ShortRead, DecoderAfterInit, vars, link, Goto, AfterFrame, Broken, FeedInv, BaseInv, ValuesOK, LinkOK, Offline
<1> QED
  BY <1>1, <1>2, <1>3 DEF Feed!Break, Feed!vars, Broken

\* What the listener hears is what AudioFeed promises, for every ring, burst, request of the callback
\* and number of samples written during it.  Only a flush that falls between the callback's look at
\* the ring and the store of its index takes the ring out of step with that promise; and it is in
\* step again as soon as it is empty while nothing is copied.
THEOREM OnlyFlushesUnderCopy == Spec => FeedKept
<1>1. Spec => []BaseInv
  BY InitBaseInv, BaseStep, PTL DEF Spec
<1>2. BaseInv => (Avail = 0 /\ ~Copying => InStep)
  BY EmptyInStep
<1>3. BaseInv /\ BaseInv' /\ [Next]_vars =>
        [InStep /\ ~FlushUnderCopy => InStep' /\ (Feed!Next \/ UNCHANGED Feed!vars \/ FreedFrames)]_vars
  <2> SUFFICES ASSUME BaseInv, BaseInv', Next, InStep, ~FlushUnderCopy
               PROVE  InStep' /\ (Feed!Next \/ UNCHANGED Feed!vars \/ FreedFrames)
    OBVIOUS
  <2>1. FeedInv
    BY InStepIs DEF FeedInv
  <2>2. FeedInv'
    BY <2>1, UserStep, CallbackStep, ProducerStep DEF Next, FeedInv
  <2>3. InStep'
    <3>1. (RoomOK /\ QueueOK /\ ReadOK)'
      BY <2>2 DEF FeedInv
    <3>2. (InStep <=> RoomOK /\ QueueOK /\ ReadOK)'
      BY InStepIs, PTL
    <3> QED
      BY <3>1, <3>2
  <2>4. CASE PublishWrite
    BY <2>1, <2>2, <2>3, <2>4, FeedPut DEF Feed!Next, FreedFrames
  <2>5. CASE ReadRelease
    BY <2>1, <2>2, <2>3, <2>5, FeedHear DEF Feed!Next
  <2>6. CASE Flush \/ RepinFlush \/ Open
    BY <2>1, <2>2, <2>3, <2>6, FeedDrop DEF Feed!Next
  <2>7. CASE RepinConnect \/ StartWorker
    BY <2>1, <2>2, <2>3, <2>7, FeedResume DEF Feed!Next
  <2>8. CASE \/ DeviceOn \/ DeviceOff \/ Freeze \/ CloseBegin \/ CloseJoin
             \/ LoopHead \/ ReadSome \/ ReadNone \/ WriteSlot \/ PrimeCheck \/ PrimeStore
             \/ DropConnection \/ Reconnect \/ RepinGate \/ ExitWorker
             \/ CallbackEnter \/ ReadSize \/ ReadCopy \/ ShortRead
    BY <2>1, <2>2, <2>3, <2>8, FeedBreak DEF Feed!Next
  <2> QED
    BY <2>4, <2>5, <2>6, <2>7, <2>8 DEF Next, User, Producer, Callback
<1>0. Spec => Feed!Init
  BY FeedInit DEF Spec
<1>4. Spec => [](Avail = 0 /\ ~Copying => InStep)
  BY <1>1, <1>2, PTL
<1>5. Spec => [][InStep /\ ~FlushUnderCopy =>
                   InStep' /\ (Feed!Next \/ UNCHANGED Feed!vars \/ FreedFrames)]_vars
  BY <1>1, <1>3, PTL DEF Spec
<1> QED
  BY <1>0, <1>4, <1>5 DEF FeedKept

-----------------------------------------------------------------------------
(* StreamRecorder. *)

CountersOK ==
  /\ wpos \in Nat /\ rpos \in Nat /\ pushed \in Nat
  /\ avail \in Nat /\ rest \in Nat /\ holdLeft \in Nat /\ offset \in Nat
  /\ cutFrames \in Nat /\ filed \in Nat

\* What is left of the snapshot is still in the ring, which holds at most what fits; the
\* position a push will store is ahead of the one it read.
RingOK ==
  /\ avail <= wpos - rpos
  /\ wpos - rpos <= RingFrames
  /\ pushed # 0 => wpos <= pushed /\ pushed - rpos <= RingFrames

\* A chunk's tail is kept only between a roll the hold asked for and the new cut, and
\* the two places that change the cut's title have no audio under the old one.
PlacesOK ==
  /\ hold => offset > 0
  /\ rest # 0 => wpc \in {"roll", "rollAdopt", "keep"} /\ offset > 0
  /\ wpc = "adoptLock" => ~HasAudio
  /\ wpc = "rollAdopt" => ~cutOpen

IInv == CountersOK /\ RingOK /\ PlacesOK /\ FramesConserved

\* The strengthened invariant holds initially.
LEMMA InitIInv == RecInit => IInv
BY RecorderAssumption
DEF RecInit, IInv, CountersOK, RingOK, PlacesOK, FramesConserved, HasAudio

\* The user interface and the audio thread preserve it.
LEMMA OutsideStep ==
  ASSUME IInv, RecUser \/ StopJoin \/ TitleFlag \/ Audio
  PROVE  IInv'
<1> USE RecorderAssumption DEF IInv, CountersOK, RingOK, PlacesOK, FramesConserved, HasAudio,
        audio, meta, cut, held, record, opt, flags
<1>1. CASE Start
  BY <1>1 DEF Start
<1>2. CASE StopBegin \/ StopJoin
  BY <1>2 DEF StopBegin, StopJoin
<1>3. CASE TitleSet \/ TitleFlag
  BY <1>3 DEF TitleSet, TitleFlag
<1>4. CASE PushBegin
  BY <1>4 DEF PushBegin
<1>5. CASE PushEnd
  BY <1>5 DEF PushEnd
<1> QED
  BY <1>1, <1>2, <1>3, <1>4, <1>5 DEF RecUser, Audio

\* The smaller of two numbers.
LEMMA Min2Type ==
  ASSUME NEW a \in Nat, NEW b \in Nat
  PROVE  /\ Min2(a, b) \in Nat /\ Min2(a, b) <= a /\ Min2(a, b) <= b
         /\ Min2(a, b) = a \/ Min2(a, b) = b
BY DEF Min2

\* What a written block, and a failed one, do to the frames of the cuts.
LEMMA WriteBlockFiles ==
  ASSUME NEW n, WriteBlock(n)
  PROVE  cutFrames' = cutFrames + n /\ filed' = filed /\ error' = error
BY DEF WriteBlock, record

LEMMA FailCutFiles ==
  ASSUME FailCut
  PROVE  cutFrames' = 0 /\ filed' = filed + cutFrames /\ error'
BY DEF FailCut

\* Taking frames from the ring and putting them into a cut preserves it.
LEMMA DrainStep ==
  ASSUME IInv, DrainChunk \/ DrainHeld \/ KeepTail
  PROVE  IInv'
<1> USE RecorderAssumption DEF IInv, CountersOK, RingOK, PlacesOK, FramesConserved, HasAudio,
        audio, meta, cut, held, record, opt, flags
<1>1. CASE DrainChunk
  <2> DEFINE n == Min2(Chunk, avail)
  <2>1. n \in Nat /\ n <= avail
    BY Min2Type
  <2> HIDE DEF n
  <2>2. /\ wpc = "chunk" /\ rpos' = rpos + n /\ avail' = avail - n
        /\ ProcessBlock(n, "chunk")
        /\ UNCHANGED <<running, audio, meta, ui, rest, opt, cutRaw, held>>
    BY <1>1 DEF DrainChunk, n
  <2>3. CASE WriteBlock(n) /\ wpc' = "chunk"
    BY <2>1, <2>2, <2>3, WriteBlockFiles
  <2>4. CASE FailCut /\ wpc' = "exit"
    BY <2>1, <2>2, <2>4, FailCutFiles
  <2> QED
    BY <2>2, <2>3, <2>4 DEF ProcessBlock
<1>2. CASE DrainHeld
  <2> DEFINE n == Min2(Chunk, avail)
             toOld == Min2(n, holdLeft)
  <2>1. n \in Nat /\ n <= avail
    BY Min2Type
  <2>2. toOld \in Nat /\ toOld <= n /\ toOld <= holdLeft /\ (toOld = n \/ toOld = holdLeft)
    BY <2>1, Min2Type
  <2> HIDE DEF n, toOld
  <2>3. /\ wpc = "chunk" /\ hold /\ rpos' = rpos + n /\ avail' = avail - n
        /\ holdLeft' = holdLeft - toOld
        /\ \/ /\ WriteBlock(toOld)
              /\ rest' = IF toOld = holdLeft THEN n - toOld ELSE 0
              /\ wpc' = IF toOld = holdLeft THEN "roll" ELSE "chunk"
           \/ FailCut /\ rest' = 0 /\ wpc' = "exit"
        /\ UNCHANGED <<running, audio, meta, ui, opt, cutRaw, hold>>
    BY <1>2 DEF DrainHeld, n, toOld
  <2>4. CASE /\ WriteBlock(toOld)
             /\ rest' = IF toOld = holdLeft THEN n - toOld ELSE 0
             /\ wpc' = IF toOld = holdLeft THEN "roll" ELSE "chunk"
    BY <2>1, <2>2, <2>3, <2>4, WriteBlockFiles
  <2>5. CASE FailCut /\ rest' = 0 /\ wpc' = "exit"
    BY <2>1, <2>2, <2>3, <2>5, FailCutFiles
  <2> QED
    BY <2>3, <2>4, <2>5
<1>3. CASE KeepTail
  <2>1. CASE rest = 0
    BY <1>3, <2>1 DEF KeepTail
  <2>2. CASE rest # 0
    BY <1>3, <2>2 DEF KeepTail, ProcessBlock, WriteBlock, FailCut
  <2> QED
    BY <2>1, <2>2
<1> QED
  BY <1>1, <1>2, <1>3

\* The worker's other steps preserve it.
LEMMA WorkerStep ==
  ASSUME IInv, Worker
  PROVE  IInv'
<1> USE DEF IInv, CountersOK, RingOK, PlacesOK, FramesConserved, HasAudio,
        audio, meta, cut, held, record, opt, flags
<1>1. CASE Adopt \/ AdoptLock
  BY <1>1 DEF Adopt, AdoptLock
<1>2. CASE ArmHold
  BY <1>2 DEF ArmHold
<1>3. CASE Snapshot \/ SnapshotDone
  BY <1>3 DEF Snapshot, SnapshotDone
<1>4. CASE DrainChunk \/ DrainHeld \/ KeepTail
  BY <1>4, DrainStep
<1>5. CASE Roll
  BY <1>5 DEF Roll, RollCut, CloseCut
<1>6. CASE RollAdopt
  BY <1>6 DEF RollAdopt
<1>7. CASE RollNow \/ EmptyCheck \/ StopCheck
  BY <1>7 DEF RollNow, EmptyCheck, StopCheck
<1>8. CASE EndWorker
  BY <1>8 DEF EndWorker, RollCut, CloseCut
<1> QED
  BY <1>1, <1>2, <1>3, <1>4, <1>5, <1>6, <1>7, <1>8 DEF Worker

\* The strengthened invariant holds in every state.
THEOREM Inductive == RecSpec => []IInv
<1>1. IInv /\ [RecNext]_recVars => IInv'
  <2> SUFFICES ASSUME IInv, [RecNext]_recVars PROVE IInv'
    OBVIOUS
  <2>1. CASE RecNext
    BY <2>1, OutsideStep, WorkerStep DEF RecNext
  <2>2. CASE UNCHANGED recVars
    BY <2>2 DEF recVars, IInv, CountersOK, RingOK, PlacesOK, FramesConserved, HasAudio,
       audio, meta, cut, held, record, opt, flags
  <2> QED
    BY <2>1, <2>2
<1> QED
  BY <1>1, InitIInv, PTL DEF RecSpec

\* push() never accepts a block into space the worker has not released.
THEOREM RingNeverOverfilled == RecSpec => []UnreadFits
<1>1. IInv => UnreadFits
  BY DEF IInv, RingOK, UnreadFits
<1> QED
  BY <1>1, Inductive, PTL

\* Every frame taken from the ring is in exactly one cut, until an error is reported.
THEOREM EveryFrameFiled == RecSpec => []FramesConserved
<1>1. IInv => FramesConserved
  BY DEF IInv
<1> QED
  BY <1>1, Inductive, PTL

\* A title that arrives while a cut has audio never relabels it.
THEOREM CutKeepsTitle == RecSpec => NoRelabel
<1>1. IInv /\ [RecNext]_recVars
        => [HasAudio /\ cutOpen' /\ cutFrames' >= cutFrames => cutRaw' = cutRaw]_recVars
  <2> SUFFICES ASSUME IInv, RecNext, HasAudio, cutOpen', cutFrames' >= cutFrames
               PROVE  cutRaw' = cutRaw
    BY DEF recVars
  <2>1. CASE Start \/ AdoptLock \/ RollAdopt
    BY <2>1 DEF Start, AdoptLock, RollAdopt, IInv, PlacesOK, HasAudio, cut
  <2>2. CASE \/ StopBegin \/ TitleSet \/ StopJoin \/ TitleFlag \/ Audio
             \/ Adopt \/ ArmHold \/ Snapshot \/ SnapshotDone \/ DrainChunk \/ DrainHeld
    BY <2>2 DEF StopBegin, TitleSet, StopJoin, TitleFlag, Audio, PushBegin, PushEnd, Adopt,
       ArmHold, Snapshot, SnapshotDone, DrainChunk, DrainHeld, cut
  <2>3. CASE Roll \/ KeepTail \/ RollNow \/ EmptyCheck \/ StopCheck \/ EndWorker
    BY <2>3 DEF Roll, KeepTail, RollNow, EmptyCheck, StopCheck, EndWorker, cut
  <2> QED
    BY <2>1, <2>2, <2>3 DEF RecNext, RecUser, Worker
<1> QED
  BY <1>1, Inductive, PTL DEF RecSpec, NoRelabel
=============================================================================
