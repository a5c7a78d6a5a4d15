------------------------------ MODULE CopyTee -------------------------------
(***************************************************************************)
(* Recording a station without re-encoding it.  The producer of the stream *)
(* copies what it receives into a ring (the tee) and never waits; the      *)
(* recorder's worker pulls from the ring, finds frames in the bytes and    *)
(* appends them to the open cut, which a new title ends.  A reader that is *)
(* too slow loses the oldest bytes.  A frame is two parts, the first with  *)
(* the header; parts are numbered as the station sends them, so that       *)
(* <<2k, 2k + 1>> is a frame, and a reconnect skips numbers.               *)
(***************************************************************************)
EXTENDS Integers, Sequences

CONSTANTS
  RingParts,           \* TEE_RING_BYTES
  Cap,                 \* parts of one pull
  MaxBurst,            \* parts the producer receives at once
  Offsets,             \* split_offset_ms in frames; 0 is an immediate split
  MaxParts,            \* bound: parts sent
  MaxGaps              \* bound: reconnects

ASSUME TeeAssumption ==
  /\ RingParts \in Nat \ {0} /\ Cap \in Nat \ {0} /\ MaxBurst \in 1 .. RingParts
  /\ Offsets \subseteq Nat
  /\ MaxParts \in Nat /\ MaxGaps \in Nat

VARIABLES
  sent, gaps,               \* next part of the station; bound
  tee, teeW, burst,         \* tee_, tee_w_, parts copied but not yet published
  was,                      \* what those parts are copied over
  teeR, teeDiscont,         \* tee_r_, tee_discont_
  place, seen, disc, got,   \* worker: where it is, the tee_w_ it loaded, discont, the bytes pulled
  buf,                      \* parse accumulator
  cutOpen, cutFrames, hold, holdLeft, offset,
  split, stopReq,           \* split_pending_, stop_req_
  ui,                       \* user interface: "idle", "join" (in stop), "done"
  torn, spoilt,             \* history: the pull was reached by an unpublished write; parts of buf up to the last such
  filed, jumps, owed        \* history: frames of the cuts, neighbours at a reconnect, what a stop must still save

source == <<sent, gaps, jumps>>
ring   == <<tee, teeW, burst, was>>
pull   == <<seen, disc, got, torn>>
cut    == <<cutOpen, cutFrames, hold, holdLeft>>
user   == <<ui, owed>>
vars == <<source, ring, teeR, teeDiscont, place, pull, buf, spoilt, cut, offset, split, stopReq,
          user, filed>>

Places == {"adopt", "flag", "load", "copy", "check", "append", "parse", "roll", "dry", "exit"}

\* The tee has just been armed in the middle of a station and the worker started.
Init ==
  /\ sent \in {0, 1} /\ gaps = 0 /\ jumps = {}
  /\ tee = [c \in 0 .. RingParts - 1 |-> 0] /\ teeW = 0 /\ burst = 0 /\ was = tee
  /\ teeR = 0 /\ teeDiscont = FALSE
  /\ place = "adopt" /\ seen = 0 /\ disc = FALSE /\ got = <<>> /\ torn = FALSE
  /\ buf = <<>> /\ spoilt = 0
  /\ cutOpen = FALSE /\ cutFrames = 0 /\ hold = FALSE /\ holdLeft = 0
  /\ offset \in Offsets
  /\ split = FALSE /\ stopReq = FALSE
  /\ ui = "idle" /\ filed = <<>> /\ owed = 0

Cell(i) == i % RingParts
Least(a, b) == IF a <= b THEN a ELSE b
Lapped(w) == w - teeR > RingParts
HasAudio == cutOpen /\ cutFrames > 0

-----------------------------------------------------------------------------
(* The producer: readAudio, teeWrite, and the start of a reconnect or a re-pin. *)

TeeCopy == \E n \in 1 .. MaxBurst :
  /\ burst = 0 /\ sent + n <= MaxParts
  /\ tee' = [c \in DOMAIN tee |->
               IF \E i \in 0 .. n - 1 : c = Cell(teeW + i)
               THEN sent + (CHOOSE i \in 0 .. n - 1 : c = Cell(teeW + i)) ELSE tee[c]]
  /\ burst' = n /\ sent' = sent + n
  /\ UNCHANGED <<gaps, jumps, teeW, was, teeR, teeDiscont, place, pull, buf, spoilt, cut, offset, split,
                 stopReq, user, filed>>

TeePublish ==
  /\ burst > 0
  /\ teeW' = teeW + burst /\ burst' = 0 /\ was' = tee
  /\ UNCHANGED <<source, tee, teeR, teeDiscont, place, pull, buf, spoilt, cut, offset, split,
                 stopReq, user, filed>>

\* What follows starts at another frame, also when nothing came since the last reconnect.
Reconnect ==
  /\ burst = 0 /\ gaps < MaxGaps
  /\ gaps' = gaps + 1 /\ teeDiscont' = TRUE
  /\ sent' = 2 * (sent \div 2) + 2
  /\ jumps' = jumps \cup {<<sent - 1, sent'>>} \cup {<<j[1], sent'>> : j \in {j \in jumps : j[2] = sent}}
  /\ UNCHANGED <<ring, teeR, place, pull, buf, spoilt, cut, offset, split, stopReq, user, filed>>

-----------------------------------------------------------------------------
(* The user interface: onTitle and stop. *)

Title ==
  /\ ui = "idle" /\ place # "exit" /\ ~split
  /\ split' = TRUE
  /\ UNCHANGED <<source, ring, teeR, teeDiscont, place, pull, buf, spoilt, cut, offset, stopReq, user, filed>>

\* The worker has pulled for the last time if it is asked to stop now.
PulledNothing == place = "exit" \/ (place \in {"append", "parse", "roll", "dry"} /\ got = <<>>)

StopBegin ==
  /\ ui = "idle"
  /\ stopReq' = TRUE /\ owed' = (IF PulledNothing THEN teeR ELSE teeW) /\ ui' = "join"
  /\ UNCHANGED <<source, ring, teeR, teeDiscont, place, pull, buf, spoilt, cut, offset, split, filed>>

StopJoin ==
  /\ ui = "join" /\ place = "exit" /\ ui' = "done"
  /\ UNCHANGED <<source, ring, teeR, teeDiscont, place, pull, buf, spoilt, cut, offset, split,
                 stopReq, owed, filed>>

-----------------------------------------------------------------------------
(* The worker: copyLoop, and readEncoded in its steps "flag" to "check". *)

\* The title is that of an empty cut, or the hold before the split of one with frames.
Adopt ==
  /\ place = "adopt" /\ place' = "flag"
  /\ \/ split /\ ~HasAudio
        /\ split' = FALSE /\ UNCHANGED <<hold, holdLeft>>
     \/ split /\ HasAudio /\ offset > 0 /\ ~hold
        /\ hold' = TRUE /\ holdLeft' = offset /\ UNCHANGED <<split>>
     \/ ~(split /\ (HasAudio => offset > 0 /\ ~hold))
        /\ UNCHANGED <<split, hold, holdLeft>>
  /\ UNCHANGED <<source, ring, teeR, teeDiscont, pull, buf, spoilt, cutOpen, cutFrames, offset,
                 stopReq, user, filed>>

TakeFlag ==
  /\ place = "flag" /\ place' = "load"
  /\ disc' = teeDiscont /\ teeDiscont' = FALSE
  /\ UNCHANGED <<source, ring, teeR, seen, got, torn, buf, spoilt, cut, offset, split, stopReq, user, filed>>

\* (wrong) a lap is made good but not reported.
Load_LapUntold ==
  /\ place = "load"
  /\ seen' = teeW /\ teeR' = (IF Lapped(teeW) THEN teeW - RingParts ELSE teeR)
  /\ got' = <<>> /\ place' = IF seen' = teeR' THEN "append" ELSE "copy"
  /\ torn' = FALSE
  /\ UNCHANGED <<source, ring, teeDiscont, disc, buf, spoilt, cut, offset, split, stopReq, user, filed>>

\* Lapped while idle: the oldest bytes are given up.
Load ==
  /\ place = "load"
  /\ seen' = teeW /\ teeR' = (IF Lapped(teeW) THEN teeW - RingParts ELSE teeR)
  /\ disc' = (disc \/ Lapped(teeW))
  /\ got' = <<>> /\ place' = IF seen' = teeR' THEN "append" ELSE "copy"
  /\ torn' = FALSE
  /\ UNCHANGED <<source, ring, teeDiscont, buf, spoilt, cut, offset, split, stopReq, user, filed>>

\* A write that is not published yet may already be in the cells that are copied: of each the
\* pull gets what was there or what is being written.
Overwritten(p) == p + RingParts < teeW + burst
Copy == \E old \in SUBSET {i \in 1 .. Cap : Overwritten(teeR + i - 1)} :
  /\ place = "copy" /\ place' = "check"
  /\ got' = [i \in 1 .. Least(Cap, seen - teeR) |->
               IF i \in old THEN was[Cell(teeR + i - 1)] ELSE tee[Cell(teeR + i - 1)]]
  /\ torn' = Lapped(teeW + burst)
  /\ UNCHANGED <<source, ring, teeR, teeDiscont, seen, disc, buf, spoilt, cut, offset, split,
                 stopReq, user, filed>>

\* Lapped during the copy: the bytes are dropped, the gap is reported now and once more.
Check ==
  /\ place = "check" /\ place' = "append"
  /\ \/ Lapped(teeW) /\ teeR' = teeW - RingParts /\ got' = <<>> /\ disc' = TRUE
        /\ teeDiscont' = (teeDiscont \/ disc)
     \/ ~Lapped(teeW) /\ teeR' = teeR + Len(got) /\ UNCHANGED <<teeDiscont, disc, got>>
  /\ seen' = 0
  /\ UNCHANGED <<source, ring, torn, buf, spoilt, cut, offset, split, stopReq, user, filed>>

Append_ ==
  /\ place = "append" /\ place' = "parse"
  /\ buf' = (IF disc THEN <<>> ELSE buf) \o got
  /\ spoilt' = (IF torn THEN Len(buf') ELSE IF disc THEN 0 ELSE spoilt)
  /\ seen' = 0 /\ disc' = FALSE /\ torn' = FALSE
  /\ UNCHANGED <<source, ring, teeR, teeDiscont, got, cut, offset, split, stopReq, user, filed>>

IsHeader(p) == p % 2 = 0
HasFrame == Len(buf) >= 2 /\ IsHeader(Head(buf))

Resync ==
  /\ place = "parse" /\ Len(buf) >= 2 /\ ~IsHeader(Head(buf))
  /\ buf' = Tail(buf) /\ spoilt' = spoilt - Least(spoilt, 1)
  /\ UNCHANGED <<source, ring, teeR, teeDiscont, place, pull, cut, offset, split, stopReq,
                 user, filed>>

\* rollAndAdopt(): the cut is closed, the next takes the title that waits; a file that
\* cannot be finalized asks for the stop.
RollAndAdopt ==
  /\ cutOpen' = FALSE /\ cutFrames' = 0
  /\ split' = FALSE /\ hold' = FALSE
  /\ stopReq' \in {stopReq, TRUE}

\* A frame goes to the open cut, or opens one; the last of a hold ends it.  The history keeps
\* those without a part of a torn pull.
ParseFrame ==
  /\ place = "parse" /\ HasFrame
  /\ filed' = (IF spoilt = 0 THEN Append(filed, <<buf[1], buf[2]>>) ELSE filed)
  /\ buf' = SubSeq(buf, 3, Len(buf)) /\ spoilt' = spoilt - Least(spoilt, 2)
  /\ holdLeft' = IF hold THEN holdLeft - 1 ELSE holdLeft
  /\ \/ hold /\ holdLeft = 1 /\ RollAndAdopt
     \/ ~(hold /\ holdLeft = 1)
        /\ cutOpen' = TRUE /\ cutFrames' = cutFrames + 1
        /\ UNCHANGED <<hold, split, stopReq>>
  /\ UNCHANGED <<source, ring, teeR, teeDiscont, place, pull, offset, user>>

\* failCopyCut(): the file cannot be opened or written; the recording ends.
ParseFails ==
  /\ place = "parse" /\ HasFrame
  /\ cutOpen' = FALSE /\ cutFrames' = 0 /\ stopReq' = TRUE /\ place' = "exit"
  /\ UNCHANGED <<source, ring, teeR, teeDiscont, pull, buf, spoilt, hold, holdLeft, offset,
                 split, user, filed>>

ParseEnds ==
  /\ place = "parse" /\ Len(buf) < 2 /\ place' = "roll"
  /\ UNCHANGED <<source, ring, teeR, teeDiscont, pull, buf, spoilt, cut, offset, split, stopReq,
                 user, filed>>

\* An immediate split needs no bytes.
Roll ==
  /\ place = "roll" /\ place' = "dry"
  /\ \/ offset = 0 /\ split /\ HasAudio
        /\ RollAndAdopt
     \/ ~(offset = 0 /\ split /\ HasAudio)
        /\ UNCHANGED <<cutOpen, cutFrames, split, hold, stopReq>>
  /\ UNCHANGED <<source, ring, teeR, teeDiscont, pull, buf, spoilt, holdLeft, offset, user, filed>>

\* (wrong) a stop does not drain.
Dry_AtOnce ==
  /\ place = "dry" /\ got' = <<>>
  /\ \/ stopReq /\ place' = "exit" /\ cutOpen' = FALSE /\ cutFrames' = 0
     \/ ~stopReq /\ place' = "adopt" /\ UNCHANGED <<cutOpen, cutFrames>>
  /\ UNCHANGED <<source, ring, teeR, teeDiscont, seen, disc, torn, buf, spoilt, hold, holdLeft, offset,
                 split, stopReq, user, filed>>

\* The first pull without bytes ends a recording that was asked to stop.
Dry ==
  /\ place = "dry" /\ got' = <<>>
  /\ \/ got = <<>> /\ stopReq /\ place' = "exit" /\ cutOpen' = FALSE /\ cutFrames' = 0
     \/ (got # <<>> \/ ~stopReq) /\ place' = "adopt" /\ UNCHANGED <<cutOpen, cutFrames>>
  /\ UNCHANGED <<source, ring, teeR, teeDiscont, seen, disc, torn, buf, spoilt, hold, holdLeft, offset,
                 split, stopReq, user, filed>>

Producer == TeeCopy \/ TeePublish \/ Reconnect
User == Title \/ StopBegin \/ StopJoin
Worker == \/ Adopt \/ TakeFlag \/ Load \/ Copy \/ Check \/ Append_ \/ Resync \/ ParseFrame
          \/ ParseFails \/ ParseEnds \/ Roll \/ Dry

Next == Producer \/ User \/ Worker

Spec == Init /\ [][Next]_vars

-----------------------------------------------------------------------------
(* Properties. *)

Joined(a, b) == b = a + 1 \/ <<a, b>> \in jumps

\* However often the ring laps the recorder and whatever writes reach into its pulls: a frame
\* without a byte of a pull that an unpublished write had reached is one the station sent, or
\* the first half of the last one before a reconnect with what follows, and none of these is
\* written twice or out of order, whatever reconnects and splits come.  Such a pull spoils
\* nothing but the frames that have bytes of it.
FramesWhole ==
  /\ \A i \in DOMAIN filed : Joined(filed[i][1], filed[i][2])
  /\ \A i, j \in DOMAIN filed : i < j => filed[i][2] < filed[j][1]

\* Torn bytes are discarded and the gap reported "instead of emitting garbage": what a pull
\* hands over is in the order of the station.
PullsInOrder ==
  place = "append" => \A i \in DOMAIN got : i + 1 \in DOMAIN got => Joined(got[i], got[i + 1])

\* A recording that ends without an error has pulled all that was in the tee at the stop,
\* unless its last pull was lapped while it copied, which leaves a full ring behind.
TailKept ==
  place = "exit" /\ ui = "join" /\ Len(buf) < 2 => teeR >= owed \/ teeW - teeR >= RingParts
=============================================================================
