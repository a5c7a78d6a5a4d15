-------------------------- MODULE CDPlaybackProofs --------------------------
(***************************************************************************)
(* What CDPlayback guarantees for every disc, ring and number of keys: no  *)
(* end of a track is delivered to a disc that was closed or not started;   *)
(* and what is heard after a start or a seek is the track in order, after  *)
(* at most two rounds of the old ring.                                     *)
(***************************************************************************)
EXTENDS CDPlayback, TLAPS

Waiting == {"join", "flushW", "flushR"}
Closing == {"stop", "eject", "load"}
Opening == {"play", "seek", "rip"}
Looping == {"poll", "media", "key"}

\* Where the user-interface thread can be, and which operation it is in.
ThreadOK ==
  /\ ui \in Looping \cup Waiting \cup Closing \cup Opening \cup {"go", "deviceOff", "open"}
  /\ after \in Looping
  /\ ui \in Waiting => job \in Closing \cup Opening
  /\ ui \in Closing \cup Opening => job = ui
  /\ ui = "deviceOff" => job \in Closing

\* A closing operation has silenced the callback; the others are for an open disc.
ModeOK ==
  /\ ui \in Waiting \cup {"deviceOff"} /\ job \in Closing => current = NoTrack
  /\ ui \in Closing \cup {"open"} => current = NoTrack
  /\ ui \in Opening \cup {"go"} \/ (ui \in Waiting /\ job \in Opening) => cdMode
  /\ ui \in {"deviceOff", "open"} => ~cdMode

\* A disc that is closed or stopped has no current track, so that no callback can find the
\* track at its end, except for the moment at which a track is named and not yet started.
StoppedOK ==
  /\ ~cdMode \/ state = "Stopped" => current = NoTrack \/ ui = "go"
  /\ ended /\ (~cdMode \/ state = "Stopped") => ui \in {"go", "deviceOff", "open"}

EInv == ThreadOK /\ ModeOK /\ StoppedOK

LEMMA InitEInv == Init => EInv
BY DEF Init, EInv, ThreadOK, ModeOK, StoppedOK, Looping, Waiting, Closing, Opening

LEMMA NextEInv == EInv /\ [Next]_vars => EInv'
<1> SUFFICES ASSUME EInv, [Next]_vars PROVE EInv'
  OBVIOUS
<1> USE DEF EInv, ThreadOK, ModeOK, StoppedOK, Looping, Waiting, Closing, Opening
\* The reader can only take the current track away.
<1>1. CASE Reader \/ RipEnds \/ Tray \/ UNCHANGED vars
  <2>1. UNCHANGED <<mode, ended, uthr>> /\ current' \in {current, NoTrack}
    BY <1>1 DEF Reader, ReaderStops, ReaderEnds, ReaderReads, ReadOk, ReadError, Fetch, ReadFails,
       ReaderFlush, ReaderSilence, GiveUp, RipEnds, Tray, vars, source
  <2> QED
    BY <2>1 DEF mode, uthr
\* The callback reports an end only of a current track.
<1>2. CASE Callback
  <2>1. /\ UNCHANGED <<mode, uthr, current>>
        /\ ended' => ended \/ current # NoTrack
    <3>1. CASE EndCheck
      BY <3>1 DEF EndCheck, source
    <3>2. CASE CallbackEnter \/ LoadWrite \/ LoadRead \/ LoadAgain \/ CopyOut
      BY <3>2 DEF CallbackEnter, LoadWrite, LoadRead, LoadAgain, CopyOut, source
    <3> QED
      BY <1>2, <3>1, <3>2 DEF Callback
  <2> QED
    BY <2>1 DEF mode, uthr
<1>3. CASE Join \/ FlushWrite \/ FlushRead
  BY <1>3 DEF Join, FlushWrite, FlushRead, mode, source
<1>4. CASE PlaySet \/ PlayGo \/ SeekGo \/ RipGo
  BY <1>4 DEF PlaySet, PlayGo, SeekGo, RipGo, Back, mode, source
<1>5. CASE Close \/ DeviceOff \/ LoadOpen
  <2>1. CASE Close
    BY <2>1 DEF Close
  <2>2. CASE DeviceOff
    BY <2>2 DEF DeviceOff, Back, source
  <2>3. CASE LoadOpen
    BY <2>3 DEF LoadOpen, OpenCD, Back, source
  <2> QED
    BY <1>5, <2>1, <2>2, <2>3
<1>6. CASE PollEnd \/ PollQuiet \/ PollMedia \/ NoKey
  BY <1>6 DEF PollEnd, PollQuiet, PollMedia, NoKey, AskPlay, AskClose, Ask, mode, source, uthr
<1>7. CASE Key
  <2>1. ui = "key"
    BY <1>7 DEF Key, KeyPlay, KeyNext, KeyStop, KeyPause, KeySeek, KeyLoad, KeyRip, KeyCancel, Press
  <2>2. CASE KeyPlay \/ KeyNext \/ KeyRip
    BY <2>1, <2>2 DEF KeyPlay, KeyNext, KeyRip, Ready, NotReady, OpenCD, AskPlay, AskRip, Ask, mode, source
  <2>3. CASE KeyStop \/ KeyPause \/ KeySeek \/ KeyLoad \/ KeyCancel
    BY <2>1, <2>3 DEF KeyStop, KeyPause, KeySeek, KeyLoad, KeyCancel, AskClose, Ask, mode, source
  <2> QED
    BY <1>7, <2>2, <2>3 DEF Key
<1> QED
  BY <1>1, <1>2, <1>3, <1>4, <1>5, <1>6, <1>7 DEF Next, UI

\* The end of a track is only delivered while a disc is open and has been started: no late end
\* starts playback again after a stop, or after the disc was taken out.
THEOREM NoLateEnd == Spec => []EndNeedsDisc
<1>1. EInv => EndNeedsDisc
  BY DEF EInv, StoppedOK, EndNeedsDisc
<1> QED
  BY <1>1, InitEInv, NextEInv, PTL DEF Spec

-----------------------------------------------------------------------------
(* The ring. *)

\* How far slot w is ahead of slot r; the reader keeps half the ring full.
Dist(w, r) == IF w >= r THEN w - r ELSE w - r + RingSlots
Half == RingSlots \div 2

ValuesOK ==
  /\ {wr, rd, seenW, seenR, loaded} \subseteq Slots /\ take \in {0, 1}
  /\ ring \in [Slots -> Nat \cup {Stale}]
  /\ {lba, cursor, goal, row, odd} \subseteq Nat /\ straddled \in BOOLEAN
  /\ ui \in {"flushW", "flushR", "go"} \cup Closing \cup Opening => reader = "off"

\* The callback has settled to read a slot; the write index has since met the read index, so
\* that the whole ring will look full; the read index was moved away under the callback.
Will   == (cb = "loadR" /\ seenW # rd) \/ (cb \in {"again", "copy"} /\ take = 1)
Lapped == wr = rd /\ Will
Astray == cb = "copy" /\ seenR # rd

\* How much the callback can hear before the reader publishes another chunk.
Window == IF Lapped THEN RingSlots ELSE Dist(wr, rd)
Debt   == IF Astray THEN RingSlots ELSE Window

\* How much may be heard out of order: nothing, unless a read overlapped the flush.
Cap == IF straddled THEN 2 * RingSlots ELSE 0

\* The last p slots behind the write index hold the last p chunks that were read, all other
\* slots are discarded.
Behind(s) == IF s = wr THEN RingSlots ELSE Dist(wr, s)
Run(p) ==
  /\ p <= lba
  /\ \A s \in Slots : ring[s] = IF Behind(s) <= p THEN lba - Behind(s) ELSE Stale

\* Discarded slots the callback hears before it comes to those chunks; the position it hears
\* then, and the chunk that is out of order if that is not the next one; the chunk that is out
\* of order if the reader has filled, or is about to fill, the last slot.
Before(p) == IF Window <= p THEN 0 ELSE Window - p
Coming(p) == IF Window <= p THEN lba - Window ELSE lba - p
Jump(p)   == IF cursor = Coming(p) THEN 0 ELSE 1
Risk      == IF Lapped \/ (reader = "read" /\ Dist(wr, rd) > Half) THEN 1 ELSE 0

AstrayOK(p) ==
  /\ straddled /\ odd + take <= RingSlots
  /\ Dist(wr, rd) = p /\ cursor = lba - p
  /\ p <= Half + 1 /\ (reader = "read" => p <= Half)

Track == \E p \in 0 .. RingSlots :
  /\ Run(p)
  /\ IF Astray THEN AstrayOK(p) ELSE odd + Before(p) + Jump(p) + Risk <= Cap

\* Between the two stores of a flush: the old ring once round.
FlushingOK ==
  /\ wr = 0
  /\ IF straddled THEN odd + Debt <= RingSlots
     ELSE odd = 0 /\ cb \notin {"again", "copy"} /\ (cb = "loadR" => seenW = 0)

\* Between the flush and the start of the next reader: the discarded ring once round.
FlushedOK ==
  /\ wr = 0 /\ (\A s \in Slots : ring[s] = Stale) /\ (ui = "go" => lba = 0)
  /\ IF Astray THEN straddled /\ rd = 0 /\ odd + take <= RingSlots
     ELSE odd + Window + (IF Lapped THEN 1 ELSE 0) <= Cap

\* A reader that has given up adds nothing to what is left.
Spent == reader \notin {"loop", "read", "flush"} /\ odd + Debt <= Cap

RInv ==
  /\ ValuesOK
  /\ IF ui = "flushR" THEN FlushingOK
     ELSE IF ui \in {"go"} \cup Closing \cup Opening THEN FlushedOK
     ELSE Track \/ Spent

LEMMA RingSize == RingSlots \in Nat /\ RingSlots > 2 /\ Half \in Nat /\ Half + 1 < RingSlots /\ 0 \in Slots
BY CDAssumption DEF Half, Slots

LEMMA AvailableIsDist ==
  ASSUME NEW w \in Slots, NEW r \in Slots
  PROVE  Available(w, r) = Dist(w, r)
<1>1. RingSlots \in Nat /\ RingSlots > 2
  BY CDAssumption
<1>2. CASE w >= r
  <2>1. w - r \in 0 .. RingSlots - 1
    BY <1>1, <1>2 DEF Slots
  <2>2. (w - r) % RingSlots = w - r
    BY <1>1, <2>1
  <2> QED
    BY <1>2, <2>2 DEF Available, Dist
<1>3. CASE ~(w >= r)
  <2>1. w - r \in -RingSlots .. -1
    BY <1>1, <1>3 DEF Slots
  <2>2. (w - r) % RingSlots = w - r + RingSlots
    BY <1>1, <2>1
  <2> QED
    BY <1>3, <2>2 DEF Available, Dist
<1> QED
  BY <1>2, <1>3

LEMMA NextSlot ==
  ASSUME NEW i \in Slots
  PROVE  Up(i) = (IF i = RingSlots - 1 THEN 0 ELSE i + 1) /\ Up(i) \in Slots
<1>1. RingSlots \in Nat /\ RingSlots > 2
  BY CDAssumption
<1>2. CASE i = RingSlots - 1
  <2>1. (i + 1) % RingSlots = 0
    BY <1>1, <1>2
  <2> QED
    BY <1>1, <1>2, <2>1 DEF Up, Slots
<1>3. CASE i # RingSlots - 1
  <2>1. i + 1 \in 0 .. RingSlots - 1
    BY <1>1, <1>3 DEF Slots
  <2>2. (i + 1) % RingSlots = i + 1
    BY <1>1, <2>1
  <2> QED
    BY <1>1, <1>3, <2>1, <2>2 DEF Up, Slots
<1> QED
  BY <1>2, <1>3

\* Advancing an index by one, seen from the other and from any slot.
LEMMA Advance ==
  ASSUME NEW w \in Slots, NEW r \in Slots
  PROVE  /\ Dist(w, r) \in 0 .. RingSlots - 1 /\ (Dist(w, r) = 0 <=> w = r)
         /\ Dist(w, r) < RingSlots - 1 => Dist(Up(w), r) = Dist(w, r) + 1
         /\ w # r => Dist(w, Up(r)) = Dist(w, r) - 1
BY NextSlot, CDAssumption DEF Dist, Slots


LEMMA DebtBound == ValuesOK => Window \in 0 .. RingSlots /\ Debt \in 0 .. RingSlots /\ Cap \in Nat
BY RingSize, Advance DEF ValuesOK, Window, Debt, Cap

LEMMA InitRInv == Init => RInv
<1> SUFFICES ASSUME Init PROVE RInv
  OBVIOUS
<1>1. goal \in Nat /\ row \in Nat /\ Stale \notin Nat
  BY CDAssumption DEF Init, Tracks, Stale
<1>2. ValuesOK
  <2>1. ring \in [Slots -> Nat \cup {Stale}]
    BY DEF Init
  <2>2. {wr, rd, seenW, seenR, loaded} \subseteq Slots /\ take \in {0, 1}
    BY RingSize DEF Init
  <2>3. {lba, cursor, goal, row, odd} \subseteq Nat
    BY <1>1 DEF Init
  <2> QED
    BY <2>1, <2>2, <2>3 DEF Init, ValuesOK
<1>3. Spent
  BY RingSize DEF Init, Spent, Debt, Astray, Window, Lapped, Will, Dist, Cap
<1> QED
  BY <1>2, <1>3 DEF Init, RInv, Closing, Opening

\* What the reader and the user interface do to the ring while they leave its contents alone.
LEMMA TrackKept ==
  ASSUME ValuesOK, Track,
         UNCHANGED <<ring, wr, rd, lba, cb, seenW, seenR, take, cursor, odd, straddled>>,
         reader' = "read" => reader = "read" \/ Dist(wr, rd) <= Half
  PROVE  Track'
<1>1. PICK p \in 0 .. RingSlots :
        Run(p) /\ IF Astray THEN AstrayOK(p) ELSE odd + Before(p) + Jump(p) + Risk <= Cap
  BY DEF Track
<1>2. Run(p)' /\ Astray' = Astray /\ Window' = Window /\ Lapped' = Lapped /\ Cap' = Cap
  BY <1>1 DEF Run, Behind, Astray, Window, Lapped, Will, Cap
<1>3. CASE Astray
  BY <1>1, <1>2, <1>3 DEF Track, AstrayOK
<1>4. CASE ~Astray
  <2>1. Before(p)' = Before(p) /\ Jump(p)' = Jump(p)
    BY <1>2 DEF Before, Jump, Coming
  <2>2. Risk' \in {0, 1} /\ Risk \in {0, 1} /\ (Risk' = 1 => Risk = 1)
    BY <1>2, RingSize, Advance DEF Risk, ValuesOK
  <2>3. Before(p) \in Nat /\ Jump(p) \in Nat /\ odd \in Nat /\ Cap \in Nat
    BY DebtBound, RingSize DEF Before, Jump, ValuesOK
  <2>4. odd' + Before(p)' + Jump(p)' + Risk' <= Cap'
    BY <1>1, <1>2, <1>4, <2>1, <2>2, <2>3
  <2> QED
    BY <1>1, <1>2, <1>4, <2>4 DEF Track
<1> QED
  BY <1>3, <1>4

LEMMA SpentKept ==
  ASSUME Spent, UNCHANGED <<wr, rd, cb, seenW, seenR, take, odd, straddled>>,
         reader' \notin {"loop", "read", "flush"}
  PROVE  Spent'
BY DEF Spent, Debt, Astray, Window, Lapped, Will, Cap

\* Publishing a chunk.
LEMMA FetchTrack ==
  ASSUME ValuesOK, Track, reader = "read",
         ring' = [ring EXCEPT ![wr] = lba], wr' = Up(wr), lba' = lba + 1, reader' = "loop",
         UNCHANGED <<rd, cb, seenW, seenR, take, cursor, odd, straddled>>
  PROVE  Track'
<1>1. PICK p \in 0 .. RingSlots :
        Run(p) /\ IF Astray THEN AstrayOK(p) ELSE odd + Before(p) + Jump(p) + Risk <= Cap
  BY DEF Track
<1> DEFINE q == IF p = RingSlots THEN p ELSE p + 1
<1>2. /\ {wr, rd, wr'} \subseteq Slots /\ {lba, cursor, odd} \subseteq Nat
      /\ q \in 0 .. RingSlots /\ q <= lba'
      /\ wr' = IF wr = RingSlots - 1 THEN 0 ELSE wr + 1
  BY <1>1, NextSlot, RingSize DEF ValuesOK, Run
<1>3. Run(q)'
  <2>1. ASSUME NEW s \in Slots
        PROVE  ring'[s] = IF Behind(s)' <= q THEN lba' - Behind(s)' ELSE Stale
    <3>1. CASE s = wr
      <4>1. Behind(s)' = 1 /\ ring'[s] = lba
        BY <1>2, <3>1, RingSize DEF Behind, Dist, Slots, ValuesOK
      <4> QED
        BY <1>2, <4>1, RingSize, <1>1
    <3>2. CASE s # wr
      <4>1. Behind(s)' = Behind(s) + 1 /\ Behind(s) \in 1 .. RingSlots - 1
        BY <1>2, <3>2, RingSize DEF Behind, Dist, Slots
      <4>2. ring'[s] = ring[s] /\ ring[s] = IF Behind(s) <= p THEN lba - Behind(s) ELSE Stale
        BY <1>1, <3>2 DEF Run, ValuesOK
      <4> QED
        BY <1>1, <1>2, <4>1, <4>2, RingSize
    <3> QED
      BY <3>1, <3>2
  <2> QED
    BY <1>2, <2>1 DEF Run
<1>4. Astray' = Astray /\ Will' = Will /\ Cap' = Cap /\ odd' = odd
  BY DEF Astray, Will, Cap
<1>5. CASE Astray
  <2>1. AstrayOK(p) /\ Dist(wr, rd) = p /\ p <= Half
    BY <1>1, <1>5 DEF AstrayOK
  <2>2. Dist(wr', rd') = p + 1 /\ q = p + 1
    BY <1>1, <1>2, <2>1, RingSize DEF Dist, Slots
  <2>3. AstrayOK(q)'
    BY <1>1, <1>2, <2>1, <2>2, RingSize DEF AstrayOK
  <2> QED
    BY <1>2, <1>3, <1>4, <1>5, <2>3 DEF Track
<1>6. CASE ~Astray
  <2>1. odd + Before(p) + Jump(p) + Risk <= Cap
    BY <1>1, <1>6
  <2>2. /\ Jump(p) \in {0, 1} /\ Jump(q)' \in {0, 1} /\ Cap \in Nat
        /\ Before(p) \in Nat /\ Before(q)' \in Nat /\ Risk \in {0, 1}
    BY <1>1, <1>2, RingSize DEF Before, Jump, Risk, Window, Dist, Slots, Cap
  \* The reader has filled the last slot: what the callback has not settled to read is skipped.
  <2>3. CASE Dist(wr, rd) = RingSlots - 1
    <3>1. wr' = rd /\ wr # rd /\ Dist(rd, rd) = 0
      BY <1>2, <2>3, RingSize DEF Dist, Slots
    <3>2. Risk = 1 /\ Window = RingSlots - 1
      BY <2>3, <3>1, RingSize DEF Risk, Window, Lapped
    <3>3. CASE Will
      <4>1. Window' = RingSlots /\ Risk' = 1
        BY <1>4, <3>1, <3>3 DEF Window, Lapped, Risk
      <4>2. Before(q)' = Before(p)
        BY <1>1, <3>2, <4>1, RingSize DEF Before
      <4>3. Coming(q)' = Coming(p)
        BY <1>1, <1>2, <3>2, <4>1, RingSize DEF Coming
      <4> QED
        BY <1>2, <1>3, <1>4, <1>6, <2>1, <3>2, <4>1, <4>2, <4>3 DEF Track, Jump
    <3>4. CASE ~Will
      <4>1. Window' = 0 /\ Risk' = 0
        BY <1>4, <3>1, <3>4 DEF Window, Lapped, Risk
      <4>2. Before(q)' = 0
        BY <1>2, <4>1 DEF Before
      <4>3. odd' + Before(q)' + Jump(q)' + Risk' <= Cap'
        BY <1>2, <1>4, <2>1, <2>2, <3>2, <4>1, <4>2
      <4> QED
        BY <1>2, <1>3, <1>4, <1>6, <4>3 DEF Track
    <3> QED
      BY <3>3, <3>4
  \* The callback is about to read the only chunk of what looked like a whole ring.
  <2>4. CASE Lapped
    <3>1. Window' = 1 /\ Risk' = 0 /\ Risk = 1
      BY <1>2, <2>4, RingSize DEF Lapped, Window, Risk, Dist, Slots
    <3>2. Before(q)' = 0
      BY <1>1, <1>2, <3>1, RingSize DEF Before
    <3>3. odd' + Before(q)' + Jump(q)' + Risk' <= Cap'
      BY <1>2, <1>4, <2>1, <2>2, <3>1, <3>2
    <3> QED
      BY <1>2, <1>3, <1>4, <1>6, <3>3 DEF Track
  <2>5. CASE Dist(wr, rd) # RingSlots - 1 /\ ~Lapped
    <3>1. /\ Dist(wr', rd') = Dist(wr, rd) + 1 /\ wr' # rd
          /\ Dist(wr, rd) \in 0 .. RingSlots - 2
      BY <1>2, <2>5, RingSize DEF Dist, Slots
    <3>2. Window' = Window + 1 /\ Risk' = 0 /\ Window \in 0 .. RingSlots - 2
      BY <2>5, <3>1 DEF Window, Lapped, Risk
    <3>3. Before(q)' = Before(p)
      BY <1>1, <3>2, RingSize DEF Before
    <3>4. Coming(q)' = Coming(p)
      BY <1>1, <1>2, <3>2, RingSize DEF Coming
    <3>5. odd' + Before(q)' + Jump(q)' + Risk' <= Cap'
      BY <1>2, <1>4, <2>1, <2>2, <3>2, <3>3, <3>4 DEF Jump
    <3> QED
      BY <1>2, <1>3, <1>4, <1>6, <3>5 DEF Track
  <2> QED
    BY <2>3, <2>4, <2>5
<1> QED
  BY <1>5, <1>6

LEMMA ReaderRInv ==
  ASSUME EInv, RInv, Reader
  PROVE  RInv'
<1> USE DEF RInv
<1>1. UNCHANGED <<rd, cthr, uthr, list, cursor>>
  BY DEF Reader, ReaderStops, ReaderEnds, ReaderReads, ReadOk, ReadError, Fetch, ReadFails, ReaderFlush,
     ReaderSilence, GiveUp, buffer, past
<1> USE <1>1 DEF cthr, uthr, list
<1>2. ui \notin {"flushW", "flushR", "go"} \cup Closing \cup Opening
  BY DEF Reader, ReaderStops, ReaderEnds, ReaderReads, ReadOk, ReadError, ReadFails, ReaderFlush,
     ReaderSilence, GiveUp, ValuesOK
<1>3. CASE ReaderStops \/ ReaderEnds \/ ReaderReads \/ ReadFails \/ ReaderSilence \/ GiveUp
  <2>1. /\ UNCHANGED <<lba, buffer, past>> /\ loaded' \in {loaded, rd}
        /\ reader' = "read" => Available(wr, rd) <= Half
        /\ reader' \in {"loop", "read", "flush"} => reader \in {"loop", "read"}
    BY <1>3 DEF ReaderStops, ReaderEnds, ReaderReads, ReadFails, ReaderSilence, GiveUp, source, Half
  <2>2. ValuesOK'
    BY <1>2, <2>1 DEF ValuesOK, buffer, past
  <2>3. reader' = "read" => Dist(wr, rd) <= Half
    BY <2>1, AvailableIsDist DEF ValuesOK
  <2>4. Track' \/ Spent'
    <3>1. CASE Track
      BY <2>1, <2>3, <3>1, TrackKept DEF buffer, past
    <3>2. CASE Spent
      BY <2>1, <3>2, SpentKept DEF buffer, past, Spent
    <3> QED
      BY <1>2, <3>1, <3>2
  <2> QED
    BY <1>2, <2>2, <2>4
<1>4. CASE ReadOk \/ ReadError
  <2>1. /\ ring' = [ring EXCEPT ![wr] = lba] /\ wr' = Up(wr) /\ lba' = lba + 1
        /\ reader = "read" /\ reader' = "loop" /\ UNCHANGED <<loaded, past>>
    BY <1>4 DEF ReadOk, ReadError, Fetch
  <2>2. ValuesOK'
    BY <1>2, <2>1, NextSlot DEF ValuesOK, past
  <2>3. Track
    BY <1>2, <2>1 DEF Spent
  <2>4. Track'
    BY <2>1, <2>3, FetchTrack DEF past
  <2> QED
    BY <1>2, <2>2, <2>4
<1>5. CASE ReaderFlush
  <2>1. /\ wr' = loaded /\ loaded' = 0 /\ reader' = "silence" /\ odd' = 0
        /\ straddled' = (MidRead \/ rd # loaded) /\ UNCHANGED <<ring, lba>>
    BY <1>5 DEF ReaderFlush, source
  <2>2. ValuesOK'
    BY <1>2, <2>1, RingSize DEF ValuesOK
  <2>3. Dist(wr', rd') \in 0 .. RingSlots - 1
    <3>1. loaded \in Slots /\ rd \in Slots
      BY DEF ValuesOK
    <3> QED
      BY <2>1, <3>1, RingSize DEF Dist, Slots
  <2>4. Debt' \in 0 .. RingSlots
    BY <2>3, RingSize DEF Debt, Window
  <2>5. Cap' \in Nat /\ Debt' <= Cap'
    <3>1. CASE straddled'
      <4>1. Cap' = 2 * RingSlots
        BY <3>1 DEF Cap
      <4> QED
        BY <2>4, <4>1, RingSize
    <3>2. CASE ~straddled'
      <4>1. rd' = wr' /\ ~Will' /\ ~Astray'
        BY <2>1, <3>2 DEF MidRead, Will, Astray
      <4> QED
        BY <2>2, <3>2, <4>1, RingSize DEF Debt, Window, Lapped, Cap, ValuesOK, Dist, Slots
    <3> QED
      BY <3>1, <3>2
  <2>6. Spent'
    <3>1. \A d \in 0 .. RingSlots : 0 + d = d
      BY RingSize
    <3>2. 0 + Debt' = Debt'
      BY <2>4, <3>1
    <3> QED
      BY <2>1, <2>5, <3>2 DEF Spent
  <2> QED
    BY <1>2, <2>2, <2>6
<1> QED
  BY <1>3, <1>4, <1>5 DEF Reader

\* A step of the callback that reads nothing and settles nothing anew.
LEMMA QuietRInv ==
  ASSUME RInv, ValuesOK', ui # "flushR", ~Astray, ~Astray', Lapped' <=> Lapped,
         UNCHANGED <<ring, wr, rd, lba, reader, ui, cursor, odd, straddled>>
  PROVE  RInv'
<1>1. Window' = Window /\ Debt' = Debt /\ Cap' = Cap
  BY DEF Window, Debt, Cap
<1>2. Track => Track'
  <2> SUFFICES ASSUME NEW p \in 0 .. RingSlots, Run(p), odd + Before(p) + Jump(p) + Risk <= Cap
               PROVE  Run(p)' /\ odd' + Before(p)' + Jump(p)' + Risk' <= Cap'
    BY DEF Track
  <2>1. Run(p)'
    BY DEF Run, Behind
  <2>2. Before(p)' = Before(p) /\ Jump(p)' = Jump(p) /\ Risk' = Risk
    BY <1>1 DEF Before, Jump, Coming, Risk
  <2> QED
    BY <1>1, <2>1, <2>2
<1>3. Spent => Spent'
  BY <1>1 DEF Spent
<1>4. FlushedOK => FlushedOK'
  BY <1>1 DEF FlushedOK
<1> QED
  BY <1>2, <1>3, <1>4 DEF RInv

\* The index the callback stores, and what is ahead of it then.
LEMMA StoredIndex ==
  ASSUME ValuesOK, cb = "copy", rd' = (seenR + take) % RingSlots, wr' = wr, cb' = "check"
  PROVE  /\ rd' \in Slots /\ Dist(wr, rd') \in 0 .. RingSlots - 1
         /\ ~Astray' /\ ~Lapped' /\ Window' = Dist(wr, rd') /\ Debt' = Window'
         /\ ~Astray /\ take = 0 => rd' = rd /\ Window' = Window
         /\ ~Astray /\ take = 1 => Window' = Window - 1
<1>1. rd' = IF take = 0 THEN seenR ELSE Up(seenR)
  <2>1. seenR % RingSlots = seenR /\ seenR + 0 = seenR
    <3>1. seenR \in 0 .. RingSlots - 1
      BY DEF ValuesOK, Slots
    <3> QED
      BY <3>1, RingSize
  <2>2. take = 1 => rd' = Up(seenR)
    BY DEF Up
  <2> QED
    BY <2>1, <2>2 DEF ValuesOK
<1>2. {wr, rd, seenR, rd'} \subseteq Slots
  BY <1>1, NextSlot DEF ValuesOK
<1>3. Dist(wr, rd') \in 0 .. RingSlots - 1
  BY <1>2, RingSize DEF Dist, Slots
<1>4. ~Astray' /\ ~Lapped' /\ Window' = Dist(wr, rd') /\ Debt' = Window'
  BY DEF Astray, Lapped, Will, Window, Debt
<1>5. ASSUME ~Astray, take = 0 PROVE rd' = rd /\ Window' = Window
  BY <1>1, <1>4, <1>5 DEF Astray, Window, Lapped, Will
<1>6. ASSUME ~Astray, take = 1 PROVE Window' = Window - 1
  <2>1. seenR = rd /\ rd' = IF rd = RingSlots - 1 THEN 0 ELSE rd + 1
    BY <1>1, <1>2, <1>6, NextSlot DEF Astray
  <2>2. CASE wr = rd
    BY <1>2, <1>4, <1>6, <2>1, <2>2, RingSize DEF Window, Lapped, Will, Dist, Slots
  <2>3. CASE wr # rd
    BY <1>2, <1>4, <1>6, <2>1, <2>3, RingSize DEF Window, Lapped, Will, Dist, Slots
  <2> QED
    BY <2>2, <2>3
<1> QED
  BY <1>2, <1>3, <1>4, <1>5, <1>6

LEMMA CopyTrack ==
  ASSUME ValuesOK, ValuesOK', Track, cb = "copy", rd' = (seenR + take) % RingSlots, cb' = "check",
         IF take = 0 THEN UNCHANGED <<cursor, odd>>
         ELSE /\ odd' = IF ring[seenR] = cursor THEN odd ELSE odd + 1
              /\ cursor' = IF ring[seenR] = Stale THEN cursor ELSE ring[seenR] + 1,
         UNCHANGED <<ring, wr, lba, reader, straddled>>
  PROVE  Track'
<1>1. PICK p \in 0 .. RingSlots :
        Run(p) /\ IF Astray THEN AstrayOK(p) ELSE odd + Before(p) + Jump(p) + Risk <= Cap
  BY DEF Track
<1>2. Run(p)' /\ Cap' = Cap
  BY <1>1 DEF Run, Behind, Cap
<1>3. /\ {wr, rd, seenR} \subseteq Slots /\ {lba, cursor, odd, cursor', odd'} \subseteq Nat /\ take \in {0, 1}
      /\ p <= lba /\ Stale \notin Nat /\ Cap \in Nat
  BY <1>1, RingSize DEF ValuesOK, Run, Stale, Cap
<1>4. /\ Window' \in 0 .. RingSlots - 1 /\ ~Astray' /\ ~Lapped'
      /\ ~Astray /\ take = 0 => rd' = rd /\ Window' = Window
      /\ ~Astray /\ take = 1 => Window' = Window - 1
      /\ Window' = Dist(wr, rd')
  BY StoredIndex
<1>5. Risk \in {0, 1} /\ Risk' \in {0, 1}
  BY DEF Risk
<1>6. SUFFICES odd' + Before(p)' + Jump(p)' + Risk' <= Cap
  BY <1>1, <1>2, <1>4 DEF Track
\* A stray read hears one slot, and leaves the read index anywhere.
<1>7. CASE Astray
  <2>1. AstrayOK(p) /\ Cap = 2 * RingSlots
    BY <1>1, <1>7 DEF AstrayOK, Cap
  <2>2. odd' \in 0 .. RingSlots
    BY <1>3, <2>1, RingSize DEF AstrayOK
  <2>3. CASE p = 0
    <3>1. ring[seenR] = Stale
      <4>1. Behind(seenR) \in 1 .. RingSlots
        BY <1>3, RingSize DEF Behind, Dist, Slots
      <4> QED
        BY <1>1, <1>3, <2>3, <4>1, RingSize DEF Run
    <3>2. cursor' = cursor /\ cursor = lba
      BY <1>3, <2>1, <2>3, <3>1 DEF AstrayOK
    <3>3. Jump(p)' = 0
      BY <1>3, <1>4, <2>3, <3>2, RingSize DEF Jump, Coming
    <3>4. Before(p)' \in 0 .. RingSlots - 1
      BY <1>4, <2>3, RingSize DEF Before
    <3> QED
      BY <1>5, <2>1, <2>2, <3>3, <3>4, RingSize
  <2>4. CASE p # 0
    <3>1. Before(p)' \in 0 .. RingSlots - 2 /\ Jump(p)' \in {0, 1}
      BY <1>1, <1>4, <2>4, RingSize DEF Before, Jump
    <3> QED
      BY <1>5, <2>1, <2>2, <3>1, RingSize
  <2> QED
    BY <2>3, <2>4
<1>8. CASE ~Astray
  <2>1. odd + Before(p) + Jump(p) + Risk <= Cap
    BY <1>1, <1>8
  <2>2. Risk' <= Risk
    <3>1. CASE take = 0
      BY <1>4, <1>8, <3>1 DEF Risk, Lapped
    <3>2. CASE take = 1 /\ Lapped
      BY <1>5, <3>2 DEF Risk
    <3>3. CASE take = 1 /\ ~Lapped
      <4>1. Dist(wr, rd') = Dist(wr, rd) - 1
        BY <1>4, <1>8, <3>3 DEF Window
      <4>2. Dist(wr, rd) > Half \/ ~(Dist(wr, rd') > Half)
        BY <1>3, <4>1, RingSize DEF Dist, Slots
      <4> QED
        BY <1>4, <1>5, <3>3, <4>2 DEF Risk
    <3> QED
      BY <1>3, <3>1, <3>2, <3>3
  <2>3. Window \in 0 .. RingSlots /\ Before(p) \in Nat /\ Jump(p) \in {0, 1}
    BY <1>1, <1>3, RingSize DEF Window, Before, Jump, Dist, Slots
  <2>4. CASE take = 0
    <3>1. UNCHANGED <<cursor, odd>> /\ Window' = Window
      BY <1>4, <1>8, <2>4
    <3>2. Before(p)' = Before(p) /\ Jump(p)' = Jump(p)
      BY <3>1 DEF Before, Jump, Coming
    <3> QED
      BY <1>3, <1>5, <2>1, <2>2, <2>3, <3>1, <3>2
  <2>5. CASE take = 1
    <3>1. seenR = rd /\ Window' = Window - 1 /\ Window \in 1 .. RingSlots
      BY <1>4, <1>8, <2>3, <2>5, RingSize DEF Astray
    <3>2. Behind(rd) = Window
      BY <2>5, <1>8 DEF Behind, Window, Lapped, Will, Astray
    <3>3. ring[rd] = IF Window <= p THEN lba - Window ELSE Stale
      BY <1>1, <1>3, <3>2 DEF Run
    <3>4. CASE Window <= p
      <4>1. ring[rd] = lba - Window /\ lba - Window \in Nat /\ Coming(p) = lba - Window
        BY <1>1, <1>3, <2>3, <3>3, <3>4, RingSize DEF Coming
      <4>2. cursor' = lba - Window + 1 /\ odd' = odd + Jump(p)
        BY <1>3, <2>5, <3>1, <4>1 DEF Jump
      <4>3. Coming(p)' = lba - Window + 1 /\ Before(p)' = 0 /\ Before(p) = 0
        BY <1>1, <1>3, <2>3, <3>1, <3>4, RingSize DEF Coming, Before
      <4>4. Jump(p)' = 0
        BY <4>2, <4>3 DEF Jump
      <4> QED
        BY <1>3, <1>5, <2>1, <2>2, <2>3, <4>2, <4>3, <4>4
    <3>5. CASE ~(Window <= p)
      <4>1. ring[rd] = Stale /\ cursor' = cursor /\ odd' = odd + 1
        BY <1>3, <2>5, <3>1, <3>3, <3>5
      <4>2. Before(p)' = Before(p) - 1
        BY <1>1, <2>3, <3>1, <3>5, RingSize DEF Before
      <4>3. Coming(p)' = Coming(p)
        BY <1>1, <1>3, <2>3, <3>1, <3>5, RingSize DEF Coming
      <4>4. Jump(p)' = Jump(p)
        BY <4>1, <4>3 DEF Jump
      <4> QED
        BY <1>3, <1>5, <2>1, <2>2, <2>3, <4>1, <4>2, <4>4
    <3> QED
      BY <3>4, <3>5
  <2> QED
    BY <1>3, <2>4, <2>5
<1> QED
  BY <1>7, <1>8

LEMMA CallbackRInv ==
  ASSUME EInv, RInv, Callback
  PROVE  RInv'
<1> USE DEF RInv
<1>1. UNCHANGED <<source, ring, wr, rthr, uthr, list>>
  BY DEF Callback, CallbackEnter, LoadWrite, LoadRead, LoadAgain, CopyOut, EndCheck, buffer
<1>2. UNCHANGED <<lba, ring, wr, reader, loaded, ui, goal, row>>
  BY <1>1 DEF source, rthr, uthr, list
<1>3. 0 \in Slots /\ RingSlots \in Nat /\ RingSlots > 2
  BY RingSize
<1>4. CASE CallbackEnter \/ LoadWrite \/ LoadRead \/ LoadAgain \/ EndCheck
  <2>1. /\ UNCHANGED <<rd, cursor, odd>> /\ straddled' = (straddled \/ (cb = "loadR" /\ ui = "flushR"))
        /\ ~Astray /\ ~Astray' /\ (Will' => Will \/ wr # rd) /\ (Will => Will')
        /\ cb' \in {"again", "copy"} => cb \in {"loadR", "again"}
        /\ cb' = "copy" => cb = "again"
        /\ cb' = "loadR" => cb = "loadW" /\ seenW' = wr
        /\ {seenW', seenR'} \subseteq Slots /\ take' \in {0, 1}
    <3>1. CASE CallbackEnter
      BY <3>1 DEF CallbackEnter, buffer, past, Astray, Will, ValuesOK
    <3>2. CASE LoadWrite
      BY <3>2 DEF LoadWrite, buffer, past, Astray, Will, ValuesOK
    <3>3. CASE LoadRead
      <4>1. take' = IF seenW = rd THEN 0 ELSE 1
        BY <3>3, AvailableIsDist, Advance DEF LoadRead, ValuesOK
      <4> QED
        BY <1>3, <3>3, <4>1 DEF LoadRead, buffer, Astray, Will, ValuesOK
    <3>4. CASE LoadAgain
      BY <3>4 DEF LoadAgain, buffer, past, Astray, Will, ValuesOK
    <3>5. CASE EndCheck
      BY <3>5 DEF EndCheck, buffer, past, Astray, Will, ValuesOK
    <3> QED
      BY <1>4, <3>1, <3>2, <3>3, <3>4, <3>5
  <2>2. ValuesOK'
    <3>1. ValuesOK /\ straddled' \in BOOLEAN
      BY <2>1
    <3>2. UNCHANGED <<ring, wr, rd, loaded, lba, cursor, goal, row, odd, ui, reader>>
      BY <1>2, <2>1
    <3> QED
      BY <2>1, <3>1, <3>2 DEF ValuesOK
  <2>3. Lapped' <=> Lapped
    BY <1>2, <2>1 DEF Lapped
  <2>4. CASE ui # "flushR"
    BY <1>2, <2>1, <2>2, <2>3, <2>4, QuietRInv DEF ValuesOK
  <2>5. CASE ui = "flushR"
    <3>1. Debt' = Debt /\ Debt' \in 0 .. RingSlots
      BY <1>2, <2>1, <2>3, DebtBound DEF Debt, Window
    <3>2. FlushingOK'
      <4>1. CASE straddled
        BY <1>2, <2>1, <2>5, <3>1, <4>1 DEF FlushingOK
      <4>2. CASE ~straddled /\ straddled'
        <5>1. odd' = 0
          BY <2>1, <2>5, <4>2 DEF FlushingOK
        <5>2. 0 + Debt' <= RingSlots
          BY <3>1, RingSize
        <5> QED
          BY <1>2, <2>5, <4>2, <5>1, <5>2 DEF FlushingOK
      <4>3. CASE ~straddled'
        BY <1>2, <2>1, <2>5, <4>3 DEF FlushingOK
      <4> QED
        BY <4>1, <4>2, <4>3
    <3> QED
      BY <1>2, <2>2, <2>5, <3>2
  <2> QED
    BY <2>4, <2>5
<1>5. CASE CopyOut
  <2>1. /\ cb = "copy" /\ cb' = "check" /\ rd' = (seenR + take) % RingSlots /\ seenR' = 0 /\ take' = 0
        /\ UNCHANGED <<seenW, straddled>>
        /\ IF take = 0 THEN UNCHANGED <<cursor, odd>>
           ELSE /\ odd' = IF ring[seenR] = cursor THEN odd ELSE odd + 1
                /\ cursor' = IF ring[seenR] = Stale THEN cursor ELSE ring[seenR] + 1
    BY <1>5 DEF CopyOut
  <2>2. /\ rd' \in Slots /\ Window' \in 0 .. RingSlots - 1 /\ ~Astray' /\ ~Lapped' /\ Debt' = Window'
        /\ ~Astray /\ take = 0 => Window' = Window
        /\ ~Astray /\ take = 1 => Window' = Window - 1
    BY <1>2, <2>1, StoredIndex
  <2>3. cursor' \in Nat /\ {odd, odd'} \subseteq Nat /\ odd' <= odd + take /\ take \in {0, 1}
    <3>1. ring[seenR] \in Nat \cup {Stale} /\ {odd, cursor} \subseteq Nat /\ take \in {0, 1}
      BY DEF ValuesOK
    <3> QED
      BY <2>1, <3>1
  <2>4. ValuesOK'
    <3>1. odd' \in Nat
      BY <2>3
    <3> QED
      BY <1>2, <1>3, <2>1, <2>2, <2>3, <3>1 DEF ValuesOK
  <2>5. Cap' = Cap /\ Window \in 0 .. RingSlots
    BY <2>1, DebtBound DEF Cap
  <2>6. odd' + Debt' <= odd + Debt
    BY <2>2, <2>3, <2>5, <1>3 DEF Debt
  <2>7. Debt \in Nat /\ Debt' \in Nat /\ Cap \in Nat
    BY <2>2, <2>5, DebtBound, <1>3
  <2>8. CASE ui = "flushR"
    <3>1. FlushingOK /\ straddled
      BY <2>1, <2>8 DEF FlushingOK
    <3>2. odd' + Debt' <= RingSlots
      BY <2>3, <2>6, <2>7, <3>1, <1>3 DEF FlushingOK
    <3> QED
      BY <1>2, <2>1, <2>4, <2>8, <3>1, <3>2 DEF FlushingOK
  <2>9. CASE ui \in {"go"} \cup Closing \cup Opening
    <3>1. FlushedOK
      BY <2>9 DEF Closing, Opening
    <3>2. odd' + Window' + 0 <= Cap'
      <4>1. CASE Astray
        BY <2>2, <2>3, <2>5, <3>1, <4>1, <1>3 DEF FlushedOK, Cap
      <4>2. CASE ~Astray
        BY <2>2, <2>3, <2>5, <2>6, <2>7, <3>1, <4>2, <1>3 DEF FlushedOK, Debt
      <4> QED
        BY <4>1, <4>2
    <3>3. FlushedOK'
      BY <1>2, <2>2, <3>1, <3>2 DEF FlushedOK
    <3> QED
      BY <1>2, <2>4, <2>9, <3>3 DEF Closing, Opening
  <2>10. CASE ui \notin {"flushR", "go"} \cup Closing \cup Opening
    <3>1. CASE Track
      <4>1. Track'
        BY <1>2, <2>1, <2>4, <3>1, CopyTrack
      <4> QED
        BY <1>2, <2>4, <2>10, <4>1
    <3>2. CASE Spent
      <4>1. odd' + Debt' <= Cap'
        BY <2>3, <2>5, <2>6, <2>7, <3>2 DEF Spent
      <4>2. Spent'
        BY <1>2, <3>2, <4>1 DEF Spent
      <4> QED
        BY <1>2, <2>4, <2>10, <4>2
    <3> QED
      BY <2>10, <3>1, <3>2
  <2> QED
    BY <2>8, <2>9, <2>10
<1> QED
  BY <1>4, <1>5 DEF Callback

\* The user interface: nothing but a flush empties the ring, and nothing but a start or a seek
\* starts a reader on it.
LEMMA FlushReadRInv ==
  ASSUME EInv, RInv, FlushRead
  PROVE  RInv'
<1> USE DEF RInv
<1>1. /\ ui = "flushR" /\ ui' = job /\ rd' = 0 /\ ring' = [s \in Slots |-> Stale]
      /\ UNCHANGED <<current, lba, wr, reader, loaded, cb, seenW, seenR, take, goal, row, past>>
  BY DEF FlushRead, source, rthr, cthr, list
<1>2. ui' \in Closing \cup Opening
  BY <1>1 DEF EInv, ThreadOK, Waiting
<1>3. ValuesOK'
  BY <1>1, <1>2, RingSize DEF past, ValuesOK, Closing, Opening
<1>4. /\ wr = 0 /\ odd' = odd /\ straddled' = straddled /\ odd \in Nat /\ take \in {0, 1}
      /\ {rd, seenR, seenW} \subseteq Slots
  BY <1>1 DEF FlushingOK, past, ValuesOK
<1>5. Dist(0, 0) = 0 /\ (\A s \in Slots : s # 0 => Dist(0, s) \in 1 .. RingSlots - 1)
  BY RingSize DEF Dist, Slots
<1>6. CASE ~straddled
  <2>1. odd' = 0 /\ ~Astray' /\ ~Will'
    BY <1>1, <1>4, <1>6 DEF FlushingOK, Astray, Will
  <2>2. ~Lapped' /\ Window' = 0 /\ Cap' = 0
    BY <1>1, <1>4, <1>5, <1>6, <2>1 DEF Lapped, Window, Cap
  <2>3. FlushedOK'
    BY <1>1, <1>2, <1>4, <2>1, <2>2 DEF FlushedOK, Closing, Opening
  <2> QED
    BY <1>2, <1>3, <2>3 DEF Closing, Opening
<1>7. CASE straddled
  <2>1. odd + Debt <= RingSlots /\ Debt \in Nat /\ RingSlots \in Nat
    BY <1>1, <1>7, DebtBound, RingSize DEF FlushingOK
  <2>2. odd <= RingSlots /\ Cap' = 2 * RingSlots
    BY <1>4, <1>7, <2>1 DEF Cap
  \* Whoever is about to hear a slot, or will be now, has still to hear one of the old ring.
  <2>3. Astray' /\ take = 1 => Debt # 0
    BY <1>1, <1>4, <1>5, RingSize DEF Astray, Debt, Window, Lapped, Will
  <2>4. Lapped' => Debt # 0
    BY <1>1, <1>4, <1>5, RingSize DEF Astray, Debt, Window, Lapped, Will
  <2>5. CASE Astray'
    <3>1. odd' + take' <= RingSlots
      BY <1>1, <1>4, <2>1, <2>2, <2>3, <2>5
    <3>2. FlushedOK'
      BY <1>1, <1>2, <1>4, <1>7, <2>5, <3>1 DEF FlushedOK, Closing, Opening
    <3> QED
      BY <1>2, <1>3, <3>2 DEF Closing, Opening
  <2>6. CASE ~Astray'
    <3>1. Window' = IF Lapped' THEN RingSlots ELSE 0
      BY <1>1, <1>4, <1>5 DEF Window
    <3>2. odd' + Window' + (IF Lapped' THEN 1 ELSE 0) <= Cap'
      <4>1. CASE Lapped'
        <5>1. odd + RingSlots + 1 <= 2 * RingSlots
          BY <1>4, <2>1, <2>4, <4>1
        <5> QED
          BY <1>4, <2>2, <3>1, <4>1, <5>1
      <4>2. CASE ~Lapped'
        <5>1. odd + 0 + 0 <= 2 * RingSlots
          BY <1>4, <2>1, <2>2
        <5> QED
          BY <1>4, <2>2, <3>1, <4>2, <5>1
      <4> QED
        BY <4>1, <4>2
    <3>3. FlushedOK'
      BY <1>1, <1>2, <1>4, <2>6, <3>2 DEF FlushedOK, Closing, Opening
    <3> QED
      BY <1>2, <1>3, <3>3 DEF Closing, Opening
  <2> QED
    BY <2>5, <2>6
<1> QED
  BY <1>6, <1>7 DEF ValuesOK

LEMMA StartRInv ==
  ASSUME EInv, RInv, PlayGo \/ SeekGo
  PROVE  RInv'
<1> USE DEF RInv
<1>1. /\ ui \in {"go", "seek"} /\ ui' \in Looping /\ reader' = "loop" /\ cursor' = lba' /\ lba' \in Nat
      /\ goal' = 0 /\ UNCHANGED <<buffer, loaded, cthr, row, odd, straddled>>
  BY DEF PlayGo, SeekGo, Back, EInv, ThreadOK, ValuesOK, Opening, list, FlushedOK
<1>2. UNCHANGED <<ring, wr, rd, cb, seenW, seenR, take>>
  BY <1>1 DEF buffer, cthr
<1>3. ValuesOK'
  BY <1>1, <1>2 DEF ValuesOK, Looping, Closing, Opening
<1>4. FlushedOK
  BY <1>1 DEF Opening
<1>5. /\ wr \in Slots /\ rd \in Slots /\ 0 \in 0 .. RingSlots /\ RingSlots \in Nat /\ RingSlots > 2
      /\ Half \in Nat /\ odd \in Nat
  BY RingSize DEF ValuesOK
<1>6. Run(0)'
  <2>1. \A s \in Slots : ~(Behind(s)' <= 0)
    BY <1>2, <1>5 DEF Behind, Dist, Slots
  <2> QED
    BY <1>1, <1>2, <1>4, <2>1 DEF Run, FlushedOK
<1>7. Astray' = Astray /\ Lapped' = Lapped /\ Window' = Window /\ Cap' = Cap
  BY <1>1, <1>2 DEF Astray, Lapped, Will, Window, Cap
<1>8. (\A n \in Nat : n - 0 = n) /\ lba' - 0 = lba'
  <2>1. \A n \in Nat : n - 0 = n
    OBVIOUS
  <2> QED
    BY <1>1, <2>1
<1>9. CASE Astray
  <2>1. wr = 0 /\ rd = 0 /\ straddled /\ odd + take <= RingSlots
    BY <1>4, <1>9 DEF FlushedOK
  <2>2. Dist(wr', rd') = 0
    BY <1>2, <2>1 DEF Dist
  <2>3. cursor' = lba' - 0 /\ 0 <= Half /\ 0 <= Half + 1 /\ odd' + take' <= RingSlots /\ straddled'
    <3>1. odd' = odd /\ take' = take /\ straddled' = straddled /\ cursor' = lba'
      BY <1>1, <1>2
    <3>2. 0 <= Half /\ 0 <= Half + 1
      BY <1>5
    <3>3. odd' + take' <= RingSlots
      BY <2>1, <3>1
    <3> QED
      BY <1>8, <2>1, <3>1, <3>2, <3>3
  <2>4. AstrayOK(0)'
    BY <2>2, <2>3 DEF AstrayOK
  <2>5. Track'
    BY <1>5, <1>6, <1>7, <1>9, <2>4 DEF Track
  <2> QED
    BY <1>1, <1>3, <2>5 DEF Looping, Closing, Opening
<1>10. CASE ~Astray
  <2>1. Window \in Nat /\ odd + Window + (IF Lapped THEN 1 ELSE 0) <= Cap
    BY <1>4, <1>5, <1>10, DebtBound DEF FlushedOK
  <2>2. Before(0)' = Window
    BY <1>7, <2>1 DEF Before
  <2>3. Coming(0)' = lba'
    <3>1. Window' <= 0 => Window' = 0
      BY <1>7, <2>1
    <3> QED
      BY <1>8, <3>1 DEF Coming
  <2>4. Jump(0)' = 0
    BY <1>1, <2>3 DEF Jump
  <2>5. Risk' = IF Lapped THEN 1 ELSE 0
    BY <1>1, <1>7 DEF Risk
  <2>6. odd' + Before(0)' + Jump(0)' + Risk' <= Cap'
    <3>1. odd + Window + 0 + (IF Lapped THEN 1 ELSE 0) <= Cap
      BY <1>5, <2>1
    <3> QED
      BY <1>1, <1>7, <2>2, <2>4, <2>5, <3>1
  <2>7. Track'
    BY <1>5, <1>6, <1>7, <1>10, <2>6 DEF Track
  <2> QED
    BY <1>1, <1>3, <2>7 DEF Looping, Closing, Opening
<1> QED
  BY <1>9, <1>10

LEMMA InterfaceRInv ==
  ASSUME EInv, RInv, UI
  PROVE  RInv'
<1> USE DEF RInv
<1>1. CASE Join
  <2>1. /\ ui = "join" /\ ui' = "flushW" /\ reader \in {"off", "gone"} /\ reader' = "off"
        /\ UNCHANGED <<lba, buffer, loaded, cthr, goal, row, past>>
    BY <1>1 DEF Join, list
  <2>2. ValuesOK'
    BY <2>1 DEF buffer, cthr, past, ValuesOK, Closing, Opening
  <2>3. Track => Track'
    BY <2>1, TrackKept DEF buffer, cthr, past
  <2>4. Spent => Spent'
    BY <2>1, SpentKept DEF buffer, cthr, past
  <2> QED
    BY <2>1, <2>2, <2>3, <2>4 DEF Closing, Opening
<1>2. CASE FlushWrite
  <2>1. /\ ui = "flushW" /\ ui' = "flushR" /\ wr' = 0 /\ straddled' = MidRead /\ odd' = 0
        /\ UNCHANGED <<lba, rd, ring, reader, loaded, cthr, goal, row, cursor>>
    BY <1>2 DEF FlushWrite, source, rthr, list
  <2>2. ValuesOK'
    BY <2>1, RingSize DEF cthr, ValuesOK, MidRead, Closing, Opening
  <2>3. Dist(wr', rd') \in Nat /\ Dist(wr', rd') <= RingSlots /\ RingSlots \in Nat
    BY <2>1, RingSize DEF ValuesOK, Dist, Slots
  <2>4. 0 + Debt' <= RingSlots
    BY <2>3 DEF Debt, Window
  <2>5. FlushingOK'
    <3>1. CASE MidRead
      BY <2>1, <2>4, <3>1 DEF FlushingOK
    <3>2. CASE ~MidRead
      BY <2>1, <3>2 DEF FlushingOK, MidRead, cthr
    <3> QED
      BY <3>1, <3>2
  <2> QED
    BY <2>1, <2>2, <2>5
<1>3. CASE FlushRead
  BY <1>3, FlushReadRInv
<1>4. CASE PlaySet
  <2>1. /\ ui = "play" /\ ui' = "go" /\ lba' = 0 /\ FlushedOK
        /\ UNCHANGED <<buffer, reader, loaded, cthr, goal, row, past>>
    BY <1>4 DEF PlaySet, rthr, list, Opening
  <2>2. ValuesOK'
    BY <2>1 DEF buffer, cthr, past, ValuesOK, Closing, Opening
  <2>3. FlushedOK'
    BY <2>1 DEF FlushedOK, Astray, Window, Lapped, Will, Cap, buffer, cthr, past
  <2> QED
    BY <2>1, <2>2, <2>3
<1>5. CASE PlayGo \/ SeekGo
  BY <1>5, StartRInv
<1>6. CASE RipGo \/ Close
  <2>1. /\ UNCHANGED <<lba, buffer, reader, loaded, cthr, past>> /\ {goal', row'} \subseteq Nat
        /\ ui' \in Looping \cup {"deviceOff"} /\ reader = "off" /\ FlushedOK
    BY <1>6 DEF RipGo, Close, Back, source, rthr, list, ValuesOK, EInv, ThreadOK, Closing, Opening
  <2>2. ValuesOK'
    BY <2>1 DEF ValuesOK, buffer, cthr, past, Looping, Closing, Opening
  <2>3. odd + Debt <= Cap
    <3>1. CASE Astray
      BY <2>1, <3>1, RingSize DEF FlushedOK, Debt, Cap, ValuesOK
    <3>2. CASE ~Astray
      <4>1. odd \in Nat /\ Window \in Nat /\ Cap \in Nat
        BY DebtBound, RingSize DEF ValuesOK
      <4> QED
        BY <2>1, <3>2, <4>1 DEF FlushedOK, Debt
    <3> QED
      BY <3>1, <3>2
  <2>4. Spent'
    BY <2>1, <2>3 DEF Spent, Debt, Astray, Window, Lapped, Will, Cap, buffer, cthr, past
  <2> QED
    BY <2>1, <2>2, <2>4 DEF Looping, Closing, Opening
<1>7. CASE DeviceOff \/ LoadOpen \/ PollEnd \/ PollQuiet \/ PollMedia \/ NoKey \/ Key
  <2>1. /\ UNCHANGED <<lba, buffer, rthr, cthr, past>>
        /\ ui \in Looping \cup {"deviceOff", "open"} /\ ui' \in Looping \cup {"join", "open"}
    <3>1. CASE DeviceOff \/ LoadOpen
      BY <3>1 DEF DeviceOff, LoadOpen, Back, EInv, ThreadOK, source, Looping
    <3>2. CASE PollEnd \/ PollQuiet \/ PollMedia \/ NoKey
      BY <3>2 DEF PollEnd, PollQuiet, PollMedia, NoKey, AskPlay, AskClose, Ask, source, Looping
    <3>3. CASE KeyPlay \/ KeyNext \/ KeyRip
      BY <3>3 DEF KeyPlay, KeyNext, KeyRip, Press, Ready, NotReady, AskPlay, AskRip, Ask, source, Looping
    <3>4. CASE KeyStop \/ KeyPause \/ KeySeek \/ KeyLoad \/ KeyCancel
      BY <3>4 DEF KeyStop, KeyPause, KeySeek, KeyLoad, KeyCancel, Press, AskClose, Ask, source, Looping
    <3> QED
      BY <1>7, <3>1, <3>2, <3>3, <3>4 DEF Key
  <2>2. {goal', row'} \subseteq Nat
    <3>1. Targets \subseteq Nat /\ Tracks \subseteq Nat /\ {goal, row} \subseteq Nat
      BY CDAssumption DEF Tracks, ValuesOK
    <3>2. Following(row) \subseteq Nat /\ Successor(row) \subseteq Nat
      BY <3>1 DEF Following, Successor
    <3>3. CASE DeviceOff \/ LoadOpen
      BY <3>1, <3>3 DEF DeviceOff, LoadOpen, Back, list
    <3>4. CASE PollEnd
      <4>1. row' \in {row} \cup Successor(row) /\ goal' \in {0, goal} \cup Successor(row)
        BY <3>4 DEF PollEnd, AskPlay, AskClose, Ask
      <4> QED
        BY <3>1, <3>2, <4>1
    <3>5. CASE PollQuiet \/ PollMedia \/ NoKey
      <4>1. row' = row /\ goal' \in {0, goal}
        BY <3>5 DEF PollQuiet, PollMedia, NoKey, AskClose, Ask, list
      <4> QED
        BY <3>1, <4>1
    <3>6. CASE KeyPlay
      BY <3>1, <3>6 DEF KeyPlay, NotReady, AskPlay, Ask
    <3>7. CASE KeyNext
      <4>1. row' \in Following(row) /\ goal' \in {goal, row'}
        BY <3>7 DEF KeyNext, NotReady, AskPlay, Ask
      <4> QED
        BY <3>1, <3>2, <4>1
    <3>8. CASE KeyRip
      <4>1. row' = row /\ goal' \in {0, goal}
        BY <3>8 DEF KeyRip, NotReady, AskRip, Ask
      <4> QED
        BY <3>1, <4>1
    <3>9. CASE KeyStop \/ KeyPause \/ KeySeek \/ KeyLoad \/ KeyCancel
      <4>1. row' = row
        BY <3>9 DEF KeyStop, KeyPause, KeySeek, KeyLoad, KeyCancel, list
      <4>2. goal' \in Targets \cup {0, goal}
        BY <3>9 DEF KeyStop, KeyPause, KeySeek, KeyLoad, KeyCancel, AskClose, Ask
      <4> QED
        BY <3>1, <4>1, <4>2
    <3> QED
      BY <1>7, <3>3, <3>4, <3>5, <3>6, <3>7, <3>8, <3>9 DEF Key
  <2>3. ValuesOK'
    BY <2>1, <2>2 DEF ValuesOK, buffer, rthr, cthr, past, Looping, Closing, Opening
  <2>4. Track => Track'
    BY <2>1, TrackKept DEF buffer, rthr, cthr, past
  <2>5. Spent => Spent'
    BY <2>1, SpentKept DEF buffer, rthr, cthr, past, Spent
  <2> QED
    BY <2>1, <2>3, <2>4, <2>5 DEF Looping, Closing, Opening
<1> QED
  BY <1>1, <1>2, <1>3, <1>4, <1>5, <1>6, <1>7 DEF UI

\* What is heard after a start or a seek is that track from that position on, in order; after a
\* flush that a ring read of the callback overlapped, at most two rounds of the ring are not.
THEOREM OldSoundIsBounded == Spec => []SoundInOrder
<1>1. EInv /\ RInv /\ [Next]_vars => RInv'
  <2> SUFFICES ASSUME EInv, RInv, [Next]_vars PROVE RInv'
    OBVIOUS
  <2>1. CASE RipEnds \/ Tray \/ UNCHANGED vars
    <3>1. UNCHANGED <<lba, buffer, rthr, cthr, ui, goal, row, past>>
      BY <2>1 DEF RipEnds, Tray, vars, source, uthr, list
    <3>2. ValuesOK'
      BY <3>1 DEF RInv, ValuesOK, buffer, rthr, cthr, past
    <3>3. Track => Track'
      BY <3>1, TrackKept DEF RInv, buffer, rthr, cthr, past
    <3>4. Spent => Spent'
      BY <3>1, SpentKept DEF buffer, rthr, cthr, past, Spent
    <3>5. (FlushingOK => FlushingOK') /\ (FlushedOK => FlushedOK')
      BY <3>1 DEF FlushingOK, FlushedOK, Debt, Astray, Window, Lapped, Will, Cap, buffer, cthr, past
    <3> QED
      BY <3>1, <3>2, <3>3, <3>4, <3>5 DEF RInv
  <2> QED
    BY <2>1, ReaderRInv, CallbackRInv, InterfaceRInv DEF Next
<1>2. RInv => SoundInOrder
  <2> SUFFICES ASSUME RInv PROVE (straddled \/ odd = 0) /\ odd <= 2 * RingSlots
    BY DEF SoundInOrder
  <2>1. ValuesOK /\ odd \in Nat /\ RingSlots \in Nat /\ take \in {0, 1}
    BY RingSize DEF RInv, ValuesOK
  <2>2. Debt \in Nat /\ Window \in Nat /\ Cap \in Nat
    BY <2>1, DebtBound, RingSize
  <2>3. FlushingOK => odd = 0 \/ (straddled /\ odd <= RingSlots)
    BY <2>1, <2>2 DEF FlushingOK
  <2>4. FlushedOK => odd <= Cap \/ (straddled /\ odd <= RingSlots)
    BY <2>1, <2>2 DEF FlushedOK
  <2>5. Spent => odd <= Cap
    BY <2>1, <2>2 DEF Spent
  <2>6. Track => odd <= Cap \/ (straddled /\ odd <= RingSlots)
    <3> SUFFICES ASSUME NEW p \in 0 .. RingSlots,
                        IF Astray THEN AstrayOK(p) ELSE odd + Before(p) + Jump(p) + Risk <= Cap
                 PROVE  odd <= Cap \/ (straddled /\ odd <= RingSlots)
      BY DEF Track
    <3>1. Before(p) \in Nat /\ Jump(p) \in Nat /\ Risk \in Nat
      BY <2>1, <2>2 DEF Before, Jump, Risk
    <3> QED
      BY <2>1, <2>2, <3>1 DEF AstrayOK
  <2>7. Cap = IF straddled THEN 2 * RingSlots ELSE 0
    BY DEF Cap
  <2> QED
    BY <2>1, <2>3, <2>4, <2>5, <2>6, <2>7 DEF RInv
<1> QED
  BY <1>1, <1>2, InitEInv, NextEInv, InitRInv, PTL DEF Spec
=============================================================================
