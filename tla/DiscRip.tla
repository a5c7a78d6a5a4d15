------------------------------ MODULE DiscRip -------------------------------
(***************************************************************************)
(* Ripping a CD to files.  A worker reads the selected tracks one after    *)
(* the other into one file per format.  With the AccurateRip database at   *)
(* hand a track that does not match is read a second time, into temporary  *)
(* files that replace the first ones when they match; for the first track  *)
(* the known pressing offsets are probed before that.  The tracks are then *)
(* tagged and listed in a playlist and a cue sheet.  The user may cancel   *)
(* at any moment.                                                          *)
(*                                                                         *)
(* What a pass over a track reads is a take: <<"good", p>> is the track as *)
(* it is on the disc, read at pressing offset p; in a "bad" one silence    *)
(* was put in for a block that could not be read; "mute" is only silence.  *)
(* A file is a take, or "none", or "part" of a take, or "empty".           *)
(***************************************************************************)
EXTENDS Integers, FiniteSets

CONSTANTS
  LastTrack,      \* the disc's tracks are 1 .. LastTrack; 0 is the hidden one ahead of track 1
  Formats,        \* selected formats, in the order of their numbers
  Taggable,       \* those that can be tagged
  Modes,          \* rip modes the user may choose
  LastCandidate,  \* pressing offsets: 0, and 1 .. LastCandidate, the candidates this drive can read at
  Blocks,         \* reads of a track
  Silent,         \* tracks that hold nothing but silence
  PickerGuards,   \* does the user interface refuse what start() refuses
  RenameFails,    \* may a file fail to be renamed
  MaxFaults,      \* bound: failed reads, opens and writes
  MaxStarts       \* bound: rips

Tracks == 1 .. LastTrack

ASSUME RipAssumption ==
  /\ LastTrack \in Nat \ {0}
  /\ Formats \subseteq Nat /\ Formats # {} /\ IsFiniteSet(Formats) /\ Taggable \subseteq Formats
  /\ Modes \subseteq {"AccurateRip", "CUETools", "LocalVerify", "Local"}
  /\ LastCandidate \in Nat /\ Blocks \in Nat \ {0} /\ Silent \subseteq 0 .. LastTrack
  /\ {PickerGuards, RenameFails} \subseteq BOOLEAN /\ MaxFaults \in Nat /\ MaxStarts \in Nat

VARIABLES
  active, cancel, state,   \* active_, cancel_, state_
  joining,                 \* is cancel() waiting for the worker
  mode, plan, hidden,      \* what the rip was started with
  db,                      \* the offset of the database's pressing, NotLoaded or NotListed
  wpc,                     \* where the worker is
  pass, got,               \* the pass of ripTrack under way, and what the last one returned
  kept,                    \* ar, rg and ebur_kept of the current track
  todo, track,             \* tracks still to come, the current one
  probed, pressing, probe, \* pressing_offset_detected, pressing_offset, the candidate tried
  out,                     \* the output being replaced
  results,                 \* ar_results, rg_results and album_states
  anyError, hiddenWritten, \* any_error, htoa_written
  album,                   \* tracks the album figure was measured over, {} when it is not written
  disk, tagged,            \* the files, and which of them have tags
  m3u, cue,                \* tracks listed
  skipped,                 \* history: what could not be written and was passed over
  faults, starts           \* bounds

ui      == <<active, cancel, state, joining, starts>>
job     == <<mode, plan, hidden>>
current == <<kept, todo, track>>
offsets == <<probed, pressing, probe>>
lists   == <<album, m3u, cue, skipped>>
ends    == <<results, anyError, hiddenWritten, lists>>
vars == <<ui, job, db, wpc, pass, got, current, offsets, out, ends, disk, tagged, faults>>

NotLoaded == -1
NotListed == LastCandidate + 1
Least(S) == CHOOSE x \in S : \A y \in S : x <= y

\* A file of a track: its format, and "" or the suffix of a pass that is not the first.
Suffixes == {"", ".probe", ".tmp", ".det"}
Names == (0 .. LastTrack) \X Formats \X Suffixes
Outs(t, suffix) == {t} \X Formats \X {suffix}
CueFile  == <<0, 0, ".cue">>
ListFile == <<0, 0, ".m3u8">>

Take(audio, offset) == <<audio, offset>>
None == Take("none", 0)
IsWhole(take) == take[1] \in {"good", "bad", "mute"}
Stored(names, take) == [n \in Names |-> IF n \in names THEN take ELSE disk[n]]

\* crc is None for the zero checksum: nothing was ripped, or it is silent, or the mode has none.
Result(crc, rg, loud) == [crc |-> crc, rg |-> rg, loud |-> loud]
Nothing == Result(None, None, None)
NoPass == [kind |-> "first", offset |-> 0, left |-> 0, silent |-> 0, ok |-> TRUE]

IsLocal == mode \in {"LocalVerify", "Local"}
Matches(crc) == db \in 0 .. LastCandidate /\ crc = Take("good", db)
WholeDisc(chosen) == chosen = Tracks

Init ==
  /\ active = FALSE /\ cancel = FALSE /\ state = "Idle" /\ joining = FALSE /\ starts = 0
  /\ mode \in Modes /\ plan = {} /\ hidden = FALSE /\ db = NotLoaded
  /\ wpc = "idle" /\ pass = NoPass /\ got = Nothing
  /\ kept = Nothing /\ todo = {} /\ track = 1 /\ out = 0
  /\ probed = FALSE /\ pressing = 0 /\ probe = 0
  /\ results = [t \in Tracks |-> Nothing] /\ anyError = FALSE /\ hiddenWritten = FALSE
  /\ album = {} /\ m3u = {} /\ cue = {} /\ skipped = {}
  /\ disk = [n \in Names |-> None] /\ tagged = {} /\ faults = 0

Fault == faults < MaxFaults /\ faults' = faults + 1

-----------------------------------------------------------------------------
(* The user interface. *)

\* start(): CUETools needs the whole disc, and something must be selected.
Start == \E m \in Modes, chosen \in SUBSET Tracks, h \in BOOLEAN :
  LET refused == (chosen = {} /\ ~h) \/ (m = "CUETools" /\ ~WholeDisc(chosen))
  IN
  /\ ~active /\ ~joining /\ wpc = "idle" /\ starts < MaxStarts /\ starts' = starts + 1
  /\ PickerGuards => ~refused
  /\ active' = TRUE /\ cancel' = FALSE /\ state' = "Idle"
  /\ mode' = m /\ plan' = chosen /\ hidden' = h
  /\ wpc' = IF refused THEN "idle" ELSE "setup"
  /\ todo' = chosen /\ track' = 1 /\ kept' = Nothing /\ got' = Nothing /\ pass' = NoPass /\ out' = 0
  /\ db' = NotLoaded /\ probed' = FALSE /\ pressing' = 0 /\ probe' = 0
  /\ results' = [t \in Tracks |-> Nothing] /\ anyError' = FALSE /\ hiddenWritten' = FALSE
  /\ album' = {} /\ m3u' = {} /\ cue' = {} /\ skipped' = {}
  /\ UNCHANGED <<joining, disk, tagged, faults>>

Work == <<job, db, pass, got, current, offsets, out, ends, disk, tagged, faults>>

\* cancel() raises the flag and joins the thread.
Cancel ==
  /\ active /\ ~joining /\ joining' = TRUE /\ cancel' = TRUE
  /\ UNCHANGED <<active, state, starts, wpc, Work>>

Cancelled ==
  /\ joining /\ wpc = "idle" /\ joining' = FALSE /\ active' = FALSE /\ state' = "Idle"
  /\ UNCHANGED <<cancel, starts, wpc, Work>>

-----------------------------------------------------------------------------
(* ripTrack: one pass over a track. *)

\* (wrong) the second pass writes to the files of the first.
SuffixOf_InPlace(kind) == CASE kind = "probe" -> ".probe" [] kind = "check" -> ".det" [] OTHER -> ""

SuffixOf(kind) == CASE kind = "probe" -> ".probe" [] kind = "second" -> ".tmp"
                    [] kind = "check" -> ".det" [] OTHER -> ""

Target == Outs(track, SuffixOf(pass.kind))
After == CASE pass.kind = "first" -> "verify" [] pass.kind = "probe" -> "probed"
           [] pass.kind = "second" -> "compare" [] pass.kind = "check" -> "checked"
           [] OTHER -> "hiddenDone"

Begin(kind, offset) ==
  /\ pass' = [kind |-> kind, offset |-> offset, left |-> Blocks, silent |-> 0, ok |-> TRUE]
  /\ got' = Nothing /\ wpc' = "open"

Reading == <<ui, job, db, current, offsets, out, ends>>

\* Every output is created; when one cannot be, those before it stay behind, empty.
RipOpen ==
  /\ wpc = "open" /\ tagged' = tagged \ Target
  /\ \/ /\ wpc' = "blocks" /\ disk' = Stored(Target, Take("part", 0)) /\ UNCHANGED faults
     \/ \E f \in Formats :
          /\ Fault /\ wpc' = After
          /\ disk' = Stored({n \in Target : n[2] < f}, Take("empty", 0))
  /\ UNCHANGED <<Reading, pass, got>>

\* A block is read, or filled with silence, or the pass fails: a read or a write failed.
RipBlock ==
  /\ wpc = "blocks" /\ pass.left > 0 /\ pass.ok /\ ~cancel
  /\ \/ /\ pass' = [pass EXCEPT !.left = @ - 1, !.silent = IF track \in Silent THEN @ + 1 ELSE @]
        /\ UNCHANGED faults
     \/ Fault /\ pass' = [pass EXCEPT !.left = @ - 1, !.silent = @ + 1]
     \/ Fault /\ pass' = [pass EXCEPT !.ok = FALSE]
  /\ UNCHANGED <<Reading, wpc, got, disk, tagged>>

Taken == Take(IF pass.silent = 0 THEN "good" ELSE IF pass.silent = Blocks THEN "mute" ELSE "bad", pass.offset)

\* The encoders are closed, which may fail as well; the loudness is measured.
RipFlush ==
  /\ wpc = "blocks" /\ (pass.left = 0 \/ ~pass.ok \/ cancel)
  /\ \E ok \in BOOLEAN :
       /\ IF ok = pass.ok THEN UNCHANGED faults ELSE pass.ok /\ Fault
       /\ pass' = [pass EXCEPT !.ok = ok]
       /\ disk' = Stored(Target, IF ok /\ pass.left = 0 THEN Taken ELSE Take("part", 0))
       /\ got' = IF ok THEN Result(None, Taken, IF cancel THEN None ELSE Taken) ELSE Nothing
  /\ wpc' = "return"
  /\ UNCHANGED <<Reading, tagged>>

Checksum == IF IsLocal \/ Taken[1] = "mute" THEN None ELSE Taken

\* (wrong) only a failed pass removes what it wrote.
RipReturn_KeepsCancelled ==
  /\ wpc = "return" /\ wpc' = After
  /\ \/ /\ ~pass.ok
        /\ disk' = Stored(Target, None) /\ UNCHANGED got
     \/ /\ pass.ok
        /\ got' = [got EXCEPT !.crc = IF cancel THEN None ELSE Checksum] /\ UNCHANGED disk
  /\ UNCHANGED <<Reading, pass, tagged, faults>>

\* A failed or cancelled pass removes what it wrote and has no checksum.
RipReturn ==
  /\ wpc = "return" /\ wpc' = After
  /\ \/ /\ ~pass.ok \/ cancel
        /\ disk' = Stored(Target, None) /\ UNCHANGED got
     \/ /\ pass.ok /\ ~cancel
        /\ got' = [got EXCEPT !.crc = Checksum] /\ UNCHANGED disk
  /\ UNCHANGED <<Reading, pass, tagged, faults>>

RipTrack == RipOpen \/ RipBlock \/ RipFlush \/ RipReturn

-----------------------------------------------------------------------------
(* The worker around it. *)

\* No output directory or no drive: the rip ends before it began.
Setup ==
  /\ wpc = "setup"
  /\ \/ /\ wpc' = "fetch" /\ state' = "Ripping" /\ UNCHANGED faults
     \/ /\ Fault /\ wpc' = "inactive" /\ state' = "Error"
  /\ UNCHANGED <<active, cancel, joining, starts, job, db, pass, got, current, offsets, out, ends, disk, tagged>>

\* The database is asked in AccurateRip mode only; it may not answer, or not know the disc.
FetchARData ==
  /\ wpc = "fetch" /\ wpc' = "track"
  /\ db' \in IF mode = "AccurateRip" THEN {NotLoaded, NotListed} \cup 0 .. LastCandidate ELSE {NotLoaded}
  /\ UNCHANGED <<ui, job, pass, got, current, offsets, out, ends, disk, tagged, faults>>

\* The offset found on the first track is that of all later ones.
NextTrack ==
  /\ wpc = "track" /\ todo # {} /\ ~cancel
  /\ track' = Least(todo) /\ todo' = todo \ {track'} /\ kept' = Nothing
  /\ Begin("first", IF probed /\ todo # plan THEN pressing ELSE 0)
  /\ UNCHANGED <<ui, job, db, offsets, out, ends, disk, tagged, faults>>

TracksOver ==
  /\ wpc = "track" /\ (todo = {} \/ cancel) /\ wpc' = "hidden"
  /\ UNCHANGED <<ui, job, db, pass, got, current, offsets, out, ends, disk, tagged, faults>>

\* (wrong) only a file that could not be opened is noticed.
NoAudio_OnlyUnopened == ~IsLocal /\ got.crc = None /\ ~cancel /\ pass.left = Blocks

\* No checksum: the track was not ripped, and the rip ends here.
NoAudio == ~IsLocal /\ got.crc = None /\ ~cancel

Verify ==
  /\ wpc = "verify"
  /\ IF NoAudio
     THEN anyError' = TRUE /\ wpc' = "hidden" /\ UNCHANGED <<kept, probed, probe, pass, got>>
     ELSE
       /\ kept' = got /\ UNCHANGED anyError
       /\ \/ /\ db # NotLoaded /\ ~Matches(got.crc) /\ track = 1 /\ ~probed
             /\ probed' = TRUE /\ probe' = 1 /\ wpc' = "probe" /\ UNCHANGED <<pass, got>>
          \/ /\ db # NotLoaded /\ ~Matches(got.crc) /\ (track # 1 \/ probed)
             /\ Begin("second", pressing) /\ UNCHANGED <<probed, probe>>
          \/ /\ db = NotLoaded \/ Matches(got.crc)
             /\ IF mode = "LocalVerify" THEN Begin("check", pass.offset)
                ELSE wpc' = "record" /\ UNCHANGED <<pass, got>>
             /\ UNCHANGED <<probed, probe>>
  /\ UNCHANGED <<ui, job, db, todo, track, pressing, out, results, hiddenWritten, lists, disk, tagged, faults>>

Judging == <<ui, job, db, todo, track, probed, ends, tagged, faults>>

\* The candidates are tried in turn until one matches.
TryOffset ==
  /\ wpc = "probe"
  /\ IF probe <= LastCandidate /\ ~cancel THEN Begin("probe", probe) ELSE Begin("second", pressing)
  /\ UNCHANGED <<Judging, kept, pressing, probe, out, disk>>

OffsetTried ==
  /\ wpc = "probed" /\ disk' = Stored(Outs(track, ".probe"), None)
  /\ \/ /\ Matches(got.crc) /\ pressing' = probe
        /\ Begin("second", probe) /\ UNCHANGED probe
     \/ /\ ~Matches(got.crc) /\ probe' = probe + 1
        /\ wpc' = "probe" /\ UNCHANGED <<pressing, pass, got>>
  /\ UNCHANGED <<Judging, kept, out>>

\* The second pass replaces the first if it matches.
Compare ==
  /\ wpc = "compare"
  /\ \/ /\ Matches(got.crc)
        /\ out' = Least(Formats) /\ wpc' = "replace" /\ UNCHANGED disk
     \/ /\ ~Matches(got.crc)
        /\ disk' = Stored(Outs(track, ".tmp"), None) /\ wpc' = "record" /\ UNCHANGED out
  /\ UNCHANGED <<Judging, kept, pressing, probe, pass, got>>

Replace ==
  /\ wpc = "replace" /\ wpc' = "rename"
  /\ disk' = Stored({<<track, out, "">>}, None)
  /\ UNCHANGED <<Judging, kept, pressing, probe, out, pass, got>>

\* (wrong) the loudness measured in the first pass stays.
Replaced_OldLoudness == [got EXCEPT !.loud = kept.loud]
Replaced == got

Rename ==
  LET later == {f \in Formats : f > out}
      tmp == <<track, out, ".tmp">>
      moved == [disk EXCEPT ![<<track, out, "">>] = disk[tmp], ![tmp] = None]
  IN
  /\ wpc = "rename"
  /\ disk' \in {moved} \cup (IF RenameFails THEN {disk} ELSE {})
  /\ IF later = {}
     THEN kept' = Replaced /\ wpc' = "record" /\ UNCHANGED out
     ELSE out' = Least(later) /\ wpc' = "replace" /\ UNCHANGED kept
  /\ UNCHANGED <<Judging, pressing, probe, pass, got>>

\* The second reading of a local rip is compared in the log, and removed.
Checked ==
  /\ wpc = "checked" /\ wpc' = "record"
  /\ disk' = Stored(Outs(track, ".det"), None)
  /\ UNCHANGED <<Judging, kept, pressing, probe, out, pass, got>>

Record ==
  /\ wpc = "record" /\ wpc' = "track"
  /\ results' = [results EXCEPT ![track] = kept]
  /\ UNCHANGED <<ui, job, db, pass, got, current, offsets, out, anyError, hiddenWritten, lists, disk, tagged, faults>>

\* The hidden track, after the others and whatever became of them.
HiddenTrack ==
  /\ wpc = "hidden"
  /\ \/ hidden /\ ~cancel /\ track' = 0 /\ Begin("hidden", 0)
     \/ ~(hidden /\ ~cancel) /\ wpc' = "album" /\ UNCHANGED <<track, pass, got>>
  /\ UNCHANGED <<ui, job, db, kept, todo, offsets, out, ends, disk, tagged, faults>>

\* tagFile() for the files there are of a track: it does nothing to a format that it cannot
\* tag, and a failure is not told to its caller.
Untagged(t) == {n \in Outs(t, "") : n[2] \in Taggable /\ disk[n] # None}

Tag(t) ==
  \/ tagged' = tagged \cup Untagged(t) /\ UNCHANGED <<skipped, faults>>
  \/ \E n \in Untagged(t) :
       Fault /\ tagged' = tagged \cup (Untagged(t) \ {n}) /\ skipped' = skipped \cup {n}

HiddenDone ==
  /\ wpc = "hiddenDone" /\ wpc' = "album"
  /\ hiddenWritten' = ~cancel
  /\ IF cancel THEN UNCHANGED <<tagged, skipped, faults>> ELSE Tag(0)
  /\ UNCHANGED <<ui, job, db, pass, got, current, offsets, out, results, anyError, album, m3u, cue, disk>>

\* The album's loudness, over the tracks that have one; it is not written of a part of the disc.
AlbumGain ==
  /\ wpc = "album" /\ wpc' = "tag" /\ todo' = plan
  /\ album' = IF WholeDisc(plan) THEN {t \in Tracks : results[t].loud # None} ELSE {}
  /\ UNCHANGED <<ui, job, db, pass, got, kept, track, offsets, out, results, anyError, hiddenWritten, m3u, cue, skipped, disk, tagged, faults>>

TagFile ==
  /\ wpc = "tag" /\ todo # {} /\ ~cancel
  /\ todo' = todo \ {Least(todo)} /\ Tag(Least(todo))
  /\ UNCHANGED <<ui, job, db, wpc, pass, got, kept, track, offsets, out, results, anyError, hiddenWritten, album, m3u, cue, disk>>

Listing == plan \cup IF hiddenWritten THEN {0} ELSE {}

\* A list that cannot be opened is passed over.
WriteCue ==
  /\ wpc = "tag" /\ (todo = {} \/ cancel) /\ wpc' = "m3u"
  /\ \/ ~cancel /\ WholeDisc(plan) /\ cue' = Listing /\ UNCHANGED <<skipped, faults>>
     \/ ~cancel /\ WholeDisc(plan) /\ Fault /\ skipped' = skipped \cup {CueFile} /\ UNCHANGED cue
     \/ ~(~cancel /\ WholeDisc(plan)) /\ UNCHANGED <<cue, skipped, faults>>
  /\ UNCHANGED <<ui, job, db, pass, got, current, offsets, out, results, anyError, hiddenWritten, album, m3u, disk, tagged>>

WriteM3U ==
  /\ wpc = "m3u" /\ wpc' = "finish"
  /\ \/ ~cancel /\ m3u' = Listing /\ UNCHANGED <<skipped, faults>>
     \/ ~cancel /\ Fault /\ skipped' = skipped \cup {ListFile} /\ UNCHANGED m3u
     \/ cancel /\ UNCHANGED <<m3u, skipped, faults>>
  /\ UNCHANGED <<ui, job, db, pass, got, current, offsets, out, results, anyError, hiddenWritten, album, cue, disk, tagged>>

Finish ==
  /\ wpc = "finish" /\ wpc' = "inactive"
  /\ state' = IF cancel THEN "Cancelled" ELSE IF anyError THEN "Error" ELSE "Done"
  /\ UNCHANGED <<active, cancel, joining, starts, Work>>

Inactive ==
  /\ wpc = "inactive" /\ wpc' = "idle" /\ active' = FALSE
  /\ UNCHANGED <<cancel, state, joining, starts, Work>>

Worker == \/ Setup \/ FetchARData \/ NextTrack \/ TracksOver \/ RipTrack \/ Verify \/ TryOffset \/ OffsetTried
          \/ Compare \/ Replace \/ Rename \/ Checked \/ Record \/ HiddenTrack \/ HiddenDone \/ AlbumGain
          \/ TagFile \/ WriteCue \/ WriteM3U \/ Finish \/ Inactive

Next == Start \/ Cancel \/ Cancelled \/ Worker

Spec == Init /\ [][Next]_vars
FairSpec == Spec /\ WF_vars(Worker)

-----------------------------------------------------------------------------
(* Properties. *)

\* The rip holds on to a track: its checksum was taken, or a local rip measured it.
Held(result) == result.crc # None \/ (IsLocal /\ ~cancel /\ result.loud # None)

\* What was recorded of a track - the verdict, the gain, the share of the album's loudness -
\* is of the audio that is in its files, whichever pass that came from.
RecordsOfTheFile == \A t \in Tracks : Held(results[t]) =>
  /\ results[t].rg = results[t].loud /\ results[t].crc \in {results[t].rg, None}
  /\ \A n \in Outs(t, "") : disk[n] = results[t].rg

\* A rip that reports success, in a mode that has checksums, made every file of the tracks
\* selected and measured the album over all of it; what it may lack are tags, a playlist or
\* a cue sheet whose own write failed, and the lists there are name these tracks.
DoneIsComplete == state = "Done" /\ ~IsLocal =>
  /\ \A t \in plan, f \in Formats :
       IsWhole(disk[<<t, f, "">>]) /\ (f \in Taggable => <<t, f, "">> \in tagged \cup skipped)
  /\ m3u \ {0} = IF ListFile \in skipped THEN {} ELSE plan
  /\ WholeDisc(plan) => cue \ {0} = (IF CueFile \in skipped THEN {} ELSE Tracks) /\ album = Tracks

\* "The verdict and the disc ID it was checked under are written into every track's tags":
\* after a CUETools rip that reports success.  (Broken by the code.)
VerdictInEveryTag == state = "Done" /\ mode = "CUETools" =>
  \A t \in plan, f \in Formats \cap Taggable : <<t, f, "">> \in tagged

\* Once the worker is gone nothing is left of a pass that was given up: no half of a track,
\* none of the temporary files.
NothingHalfDone == wpc = "idle" => \A n \in Names :
  IF n[3] = "" THEN disk[n][1] # "part" ELSE disk[n] = None

\* A track the first pass ripped is on the disk in every format at every moment of what
\* follows, in its own file or in the one about to replace it; so also when the program ends.
FirstPassSafe ==
  wpc \in {"probe", "probed", "compare", "replace", "rename", "checked", "record"}
     \/ (wpc \in {"open", "blocks", "return"} /\ pass.kind \in {"probe", "second", "check"})
  => (Held(kept) => \A f \in Formats : IsWhole(disk[<<track, f, "">>]) \/ IsWhole(disk[<<track, f, ".tmp">>]))

\* A rip ends.  (Broken by a start that is refused, when nothing above start() refuses it.)
RipEnds == active ~> ~active

\* Once an offset was found the disc is ripped at it throughout.  (Broken by the code.)
OneOffset == state = "Done" /\ pressing # 0 /\ 1 \in plan =>
  \A t \in plan : results[t].rg[2] = pressing
=============================================================================
