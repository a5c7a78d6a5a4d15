---------------------------- MODULE DiscRipProofs ----------------------------
(***************************************************************************)
(* What DiscRip guarantees for every disc, every selection of formats and  *)
(* tracks, every rip mode and any number of failed reads, opens and writes *)
(* and of cancellations.  A file that cannot be renamed is the exception   *)
(* (RenameFails): the loss of that file then goes unnoticed.               *)
(***************************************************************************)
EXTENDS DiscRip, WellFoundedInduction, TLAPS

Kinds   == {"first", "probe", "second", "check", "hidden"}
Passing == {"open", "blocks", "return"}

\* The first pass over the current track is behind the worker, its files are still the track's;
\* or the second pass is replacing them.
Judging1  == {"probe", "probed", "compare", "checked"}
Replacing == {"replace", "rename"}

\* The current track is one of the disc's, and has no result yet.
OnTrack == (wpc \in Passing /\ pass.kind # "hidden") \/ wpc \in {"verify", "record"} \cup Judging1 \cup Replacing
Kept    == (wpc \in Passing /\ pass.kind \in {"probe", "second", "check"}) \/ wpc \in Judging1

Places == Passing \cup Judging1 \cup Replacing \cup
  {"idle", "setup", "fetch", "track", "verify", "record", "hidden", "hiddenDone", "album", "tag", "m3u", "finish", "inactive"}

PassRecords == [kind: Kinds, offset: Nat, left: Nat, silent: Nat, ok: BOOLEAN]

ShapeOK ==
  /\ wpc \in Places /\ track \in 0 .. LastTrack
  /\ pass \in PassRecords
  /\ probe \in Nat /\ pressing \in Nat
  /\ plan \subseteq Tracks /\ todo \subseteq plan
  /\ DOMAIN disk = Names /\ DOMAIN results = Tracks
  /\ OnTrack => track \in Tracks
  /\ wpc = "verify" => pass.kind = "first"
  /\ wpc = "probed" => pass.kind = "probe"
  /\ wpc \in {"compare"} \cup Replacing => pass.kind = "second"
  /\ wpc = "checked" => pass.kind = "check"
  /\ wpc = "hiddenDone" => pass.kind = "hidden"
  /\ wpc \in Passing \cup {"hiddenDone"} /\ pass.kind = "hidden" => track = 0
  /\ wpc \in Replacing => out \in Formats

\* A result that is held on to tells one take, a whole one, throughout.
Sound(result) == Held(result) =>
  /\ IsWhole(result.rg) /\ result.rg # None
  /\ result.loud = result.rg /\ result.crc \in {result.rg, None}

File(files, t, f, suffix) == files[<<t, f, suffix>>]

\* What a pass returns is what it left in its files.
PassOK ==
  /\ wpc \in {"open", "blocks"} => got = Nothing
  /\ wpc = "return" /\ ~pass.ok => got = Nothing
  /\ wpc = "return" /\ pass.ok =>
       /\ got = Result(None, Taken, got.loud)
       /\ ~cancel => got.loud = Taken /\ \A f \in Formats : File(disk, track, f, SuffixOf(pass.kind)) = Taken
  /\ wpc \in {"verify", "probed", "compare", "checked", "hiddenDone"} =>
       Sound(got) /\ (Held(got) => \A f \in Formats : File(disk, track, f, SuffixOf(pass.kind)) = got.rg)

InPlace(f, take) == File(disk, track, f, "") = take \/ (RenameFails /\ File(disk, track, f, ".tmp") = take)

\* What is kept of the current track is in its files, until the second pass replaces both.
KeptOK ==
  /\ Kept => Sound(kept) /\ (Held(kept) => \A f \in Formats : File(disk, track, f, "") = kept.rg)
  /\ wpc \in Replacing =>
       /\ Sound(got) /\ got.crc # None
       /\ \A f \in Formats : IF f < out THEN InPlace(f, got.rg) ELSE File(disk, track, f, ".tmp") = got.rg
  /\ wpc = "record" => Sound(kept) /\ (Held(kept) => \A f \in Formats : InPlace(f, kept.rg))

BeforeHidden == wpc \in {"setup", "fetch", "track"} \/ OnTrack

\* What was recorded of a track is in its files, which are not written to again.
ResultsOK ==
  /\ \A t \in Tracks :
       Sound(results[t]) /\ (Held(results[t]) /\ ~RenameFails => \A f \in Formats : File(disk, t, f, "") = results[t].rg)
  /\ BeforeHidden => \A t \in todo : results[t] = Nothing
  /\ OnTrack => results[track] = Nothing /\ track \notin todo

RecInv == ShapeOK /\ PassOK /\ KeptOK /\ ResultsOK

\* Temporary files exist only while the pass that writes them is being judged, and a part of a
\* track only until its pass returns.
Judged == {"blocks", "return", "probed", "compare", "checked"} \cup Replacing

HalfOK ==
  \A t \in 0 .. LastTrack, f \in Formats, suffix \in Suffixes :
    /\ suffix # "" /\ File(disk, t, f, suffix) # None =>
         suffix = SuffixOf(pass.kind) /\ t = track /\ wpc \in Judged /\ (wpc \in Replacing => out <= f)
    /\ suffix = "" /\ File(disk, t, f, suffix)[1] = "part" =>
         suffix = SuffixOf(pass.kind) /\ t = track /\ wpc \in {"blocks", "return"} /\ (wpc = "return" => ~pass.ok \/ cancel)

\* No track of the selection is passed over without notice.
Clean == ~IsLocal /\ ~cancel /\ ~anyError
Ripped(t) == results[t].crc # None
AfterTracks == \/ wpc \in {"hidden", "hiddenDone", "album", "tag", "m3u", "finish"}
               \/ wpc \in Passing /\ pass.kind = "hidden"

TracksDone ==
  /\ Clean /\ (Kept \/ wpc = "record") => kept.crc # None
  /\ Clean /\ BeforeHidden => \A t \in plan \ todo : Ripped(t) \/ (OnTrack /\ t = track)
  /\ Clean /\ AfterTracks => \A t \in plan : Ripped(t)

IsTagged(t) == \A f \in Taggable : <<t, f, "">> \in tagged \cup skipped

\* The lists are written at the end, once.
ListsUnwritten ==
  /\ wpc \notin {"m3u", "finish", "inactive", "idle"} => cue = {} /\ CueFile \notin skipped
  /\ wpc \notin {"finish", "inactive", "idle"} => m3u = {} /\ ListFile \notin skipped

CueDone == cue \ {0} = IF CueFile \in skipped THEN {} ELSE Tracks
ListDone == m3u \ {0} = IF ListFile \in skipped THEN {} ELSE plan

ListsDone ==
  /\ Clean /\ wpc \in {"tag", "m3u", "finish"} /\ WholeDisc(plan) => album = Tracks
  /\ Clean /\ wpc = "tag" => \A t \in plan \ todo : IsTagged(t)
  /\ Clean /\ wpc \in {"m3u", "finish"} => \A t \in plan : IsTagged(t)
  /\ Clean /\ wpc \in {"m3u", "finish"} /\ WholeDisc(plan) => CueDone
  /\ Clean /\ wpc = "finish" => ListDone

StateDone == state = "Done" => wpc \in {"inactive", "idle"} /\ DoneIsComplete

DoneOK == TracksDone /\ ListsUnwritten /\ ListsDone /\ StateDone

-----------------------------------------------------------------------------
(* Sets of numbers, and files. *)

LEMMA LeastIs ==
  ASSUME NEW S \in SUBSET Nat, S # {}
  PROVE  Least(S) \in S /\ \A y \in S : Least(S) <= y
<1> DEFINE Less == {p \in Nat \X Nat : p[1] < p[2]}
<1>1. IsWellFoundedOn(Less, Nat)
  BY NatLessThanWellFounded, Zenon DEF OpToRel
<1> HIDE DEF Less
<1>2. PICK x \in S : \A y \in S : ~ (<<y, x>> \in Less)
  BY <1>1, WFMin
<1>3. ASSUME NEW y \in S PROVE x <= y
  <2>1. y \in Nat /\ x \in Nat /\ <<y, x>> \in Nat \X Nat
    BY <1>2
  <2>2. <<y, x>> \in Less <=> y < x
    BY <2>1 DEF Less
  <2> QED
    BY <1>2, <2>1, <2>2
<1> QED
  BY <1>3 DEF Least

LEMMA LeastTrack ==
  ASSUME ShapeOK, todo # {}
  PROVE  Least(todo) \in todo
<1>1. todo \in SUBSET Nat
  BY RipAssumption DEF ShapeOK, Tracks
<1> QED
  BY <1>1, LeastIs

\* Storing one take in the outputs of a pass changes the files of that pass, and no others.
LEMMA StoredOuts ==
  ASSUME NEW u, NEW s \in Suffixes, NEW take,
         NEW t \in 0 .. LastTrack, NEW f \in Formats, NEW suffix \in Suffixes
  PROVE  File(Stored(Outs(u, s), take), t, f, suffix)
           = IF t = u /\ suffix = s THEN take ELSE File(disk, t, f, suffix)
BY DEF File, Stored, Outs, Names

LEMMA StoredIn ==
  ASSUME NEW names, NEW take,
         NEW t \in 0 .. LastTrack, NEW f \in Formats, NEW suffix \in Suffixes
  PROVE  File(Stored(names, take), t, f, suffix)
           = IF <<t, f, suffix>> \in names THEN take ELSE File(disk, t, f, suffix)
BY DEF File, Stored, Names

LEMMA StoredEither ==
  ASSUME NEW names, NEW take,
         NEW t \in 0 .. LastTrack, NEW f \in Formats, NEW suffix \in Suffixes
  PROVE  File(Stored(names, take), t, f, suffix) = take \/ File(Stored(names, take), t, f, suffix) = File(disk, t, f, suffix)
BY DEF File, Stored, Names

LEMMA StoredOne ==
  ASSUME NEW u, NEW s \in Suffixes, NEW take, NEW g,
         NEW t \in 0 .. LastTrack, NEW f \in Formats, NEW suffix \in Suffixes
  PROVE  File(Stored({<<u, g, s>>}, take), t, f, suffix)
           = IF t = u /\ suffix = s /\ f = g THEN take ELSE File(disk, t, f, suffix)
BY DEF File, Stored, Names

LEMMA Dropped ==
  ASSUME NEW u, NEW g, NEW t \in 0 .. LastTrack, NEW f \in Formats
  PROVE  /\ File(Stored(Outs(u, ".probe"), None), t, f, "") = File(disk, t, f, "")
         /\ File(Stored(Outs(u, ".tmp"), None), t, f, "") = File(disk, t, f, "")
         /\ File(Stored(Outs(u, ".det"), None), t, f, "") = File(disk, t, f, "")
         /\ File(Stored({<<u, g, "">>}, None), t, f, ".tmp") = File(disk, t, f, ".tmp")
         /\ f # g => File(Stored({<<u, g, "">>}, None), t, f, "") = File(disk, t, f, "")
BY DEF File, Stored, Outs, Names, Suffixes

LEMMA StoredNames ==
  ASSUME NEW S, NEW take
  PROVE  DOMAIN Stored(S, take) = Names
BY DEF Stored

LEMMA OutsAre ==
  ASSUME NEW u, NEW s, NEW n \in Outs(u, s)
  PROVE  \E f \in Formats : n = <<u, f, s>>
BY DEF Outs

LEMMA SuffixIs == SuffixOf(pass.kind) \in Suffixes
BY DEF SuffixOf, Suffixes

LEMMA SuffixesAre == "" \in Suffixes /\ ".probe" \in Suffixes /\ ".tmp" \in Suffixes /\ ".det" \in Suffixes
BY DEF Suffixes

LEMMA TakenIs == IsWhole(Taken) /\ Taken # None
BY DEF Taken, IsWhole, Take, None


LEMMA Bounds == LastTrack \in Nat \ {0} /\ LastCandidate \in Nat /\ Blocks \in Nat \ {0} /\ Formats \subseteq Nat
BY RipAssumption

LEMMA FormatLeast == Least(Formats) \in Formats /\ \A f \in Formats : f \in Nat /\ Least(Formats) <= f
<1>1. Formats \in SUBSET Nat /\ Formats # {}
  BY RipAssumption
<1> QED
  BY <1>1, LeastIs

LEMMA FormatLater ==
  ASSUME NEW later, later = {f \in Formats : f > out}, later # {}
  PROVE  Least(later) \in later /\ \A f \in later : Least(later) <= f
<1>1. later \in SUBSET Nat
  BY RipAssumption
<1> QED
  BY <1>1, LeastIs

-----------------------------------------------------------------------------
(* Where the worker is. *)

LEMMA InitShape == Init => ShapeOK
BY RipAssumption DEF Init, ShapeOK, PassRecords, Places, Kinds, NoPass, OnTrack, Tracks, Passing, Judging1, Replacing

LEMMA BeginIs ==
  ASSUME NEW kind \in Kinds, NEW offset \in Nat, Begin(kind, offset)
  PROVE  pass' \in PassRecords /\ pass'.kind = kind /\ pass'.offset = offset /\ wpc' = "open" /\ got' = Nothing
BY Bounds DEF Begin, PassRecords

LEMMA KindIs == ShapeOK => pass.kind \in Kinds
BY DEF ShapeOK, PassRecords

LEMMA BlockIs ==
  ASSUME ShapeOK, RipBlock
  PROVE  pass' \in PassRecords /\ pass'.kind = pass.kind /\ pass'.offset = pass.offset
<1>1. /\ pass.kind \in Kinds /\ pass.offset \in Nat /\ pass.left \in Nat /\ pass.silent \in Nat
      /\ pass = [kind |-> pass.kind, offset |-> pass.offset, left |-> pass.left, silent |-> pass.silent, ok |-> pass.ok]
      /\ pass.ok \in BOOLEAN
  BY DEF ShapeOK, PassRecords
<1>2. pass.left > 0 /\ pass.left - 1 \in Nat /\ pass.silent + 1 \in Nat
  BY <1>1 DEF RipBlock
<1>3. \/ pass' = [pass EXCEPT !.left = @ - 1, !.silent = @ + 1]
      \/ pass' = [pass EXCEPT !.left = @ - 1, !.silent = @]
      \/ pass' = [pass EXCEPT !.ok = FALSE]
  BY DEF RipBlock
<1> QED
  BY <1>1, <1>2, <1>3 DEF PassRecords

LEMMA FlushIs ==
  ASSUME ShapeOK, RipFlush
  PROVE  /\ pass' \in PassRecords /\ pass'.kind = pass.kind /\ pass'.offset = pass.offset
         /\ pass'.left = pass.left /\ pass'.silent = pass.silent
BY DEF ShapeOK, RipFlush, PassRecords

LEMMA ShapeKept == ShapeOK /\ [Next]_vars => ShapeOK'
<1> SUFFICES ASSUME ShapeOK, [Next]_vars PROVE ShapeOK'
  OBVIOUS
<1> USE Bounds, KindIs DEF ShapeOK, Places, Kinds, NoPass, OnTrack, Tracks, Passing, Judging1, Replacing, ui, job, current,
      offsets, lists, ends, Work, Reading, Judging, After
<1>1. CASE UNCHANGED vars
  BY <1>1 DEF vars
<1>2. CASE Start
  <2>1. NoPass \in PassRecords /\ wpc' \in {"idle", "setup"} /\ plan' \subseteq Tracks
    BY <1>2, Bounds DEF Start, PassRecords
  <2>2. pass' = NoPass /\ track' = 1 /\ probe' = 0 /\ pressing' = 0 /\ todo' = plan' /\ disk' = disk
        /\ DOMAIN results' = Tracks
    BY <1>2 DEF Start
  <2> QED
    BY <2>1, <2>2
<1>3. CASE Cancel
  BY <1>3 DEF Cancel
<1>4. CASE Cancelled
  BY <1>4 DEF Cancelled
<1>5. CASE Setup
  BY <1>5 DEF Setup
<1>6. CASE FetchARData
  BY <1>6 DEF FetchARData
<1>7. CASE NextTrack
  <2>1. pass' \in PassRecords /\ pass'.kind = "first" /\ wpc' = "open"
    BY <1>7, BeginIs DEF NextTrack
  <2>2. track' \in todo /\ todo' \subseteq todo
    BY <1>7, LeastTrack DEF NextTrack
  <2>3. UNCHANGED <<plan, probe, pressing, disk, results, out>>
    BY <1>7 DEF NextTrack
  <2>4. track' \in Tracks /\ todo' \subseteq plan'
    BY <2>2, <2>3
  <2>5. track' \in 0 .. LastTrack /\ OnTrack'
    BY <2>1, <2>4
  <2> QED
    BY <2>1, <2>3, <2>4, <2>5
<1>8. CASE TracksOver
  BY <1>8 DEF TracksOver
<1>9. CASE RipOpen
  BY <1>9, StoredNames DEF RipOpen
<1>10. CASE RipBlock
  BY <1>10, BlockIs DEF RipBlock
<1>11. CASE RipFlush
  BY <1>11, StoredNames, FlushIs DEF RipFlush
<1>12. CASE RipReturn
  BY <1>12, StoredNames DEF RipReturn
<1>13. CASE Verify
  <2>1. UNCHANGED <<plan, todo, track, pressing, out, results, disk>> /\ track \in Tracks /\ pass.offset \in Nat
    BY <1>13 DEF Verify, PassRecords
  <2>2. CASE UNCHANGED <<probe, pass>> /\ wpc' \in {"hidden", "record"}
    BY <2>1, <2>2
  <2>3. CASE probe' = 1 /\ wpc' = "probe" /\ UNCHANGED pass
    BY <2>1, <2>3
  <2>4. CASE Begin("second", pressing) /\ UNCHANGED probe
    BY <2>1, <2>4, BeginIs
  <2>5. CASE Begin("check", pass.offset) /\ UNCHANGED probe
    BY <2>1, <2>5, BeginIs
  <2> QED
    BY <1>13, <2>2, <2>3, <2>4, <2>5 DEF Verify
<1>14. CASE TryOffset
  BY <1>14, BeginIs DEF TryOffset
<1>15. CASE OffsetTried
  BY <1>15, StoredNames, BeginIs DEF OffsetTried
<1>16. CASE Compare
  BY <1>16, FormatLeast, StoredNames DEF Compare
<1>17. CASE Replace
  BY <1>17, StoredNames DEF Replace
<1>18. CASE Rename
  BY <1>18, FormatLater DEF Rename
<1>19. CASE Checked
  BY <1>19, StoredNames DEF Checked
<1>20. CASE Record
  BY <1>20 DEF Record
<1>21. CASE HiddenTrack
  BY <1>21, BeginIs DEF HiddenTrack
<1>22. CASE HiddenDone
  BY <1>22 DEF HiddenDone
<1>23. CASE AlbumGain
  BY <1>23 DEF AlbumGain
<1>24. CASE TagFile
  BY <1>24, LeastTrack DEF TagFile
<1>25. CASE WriteCue
  BY <1>25 DEF WriteCue
<1>26. CASE WriteM3U
  BY <1>26 DEF WriteM3U
<1>27. CASE Finish
  BY <1>27 DEF Finish
<1>28. CASE Inactive
  BY <1>28 DEF Inactive
<1> QED
  BY <1>1, <1>2, <1>3, <1>4, <1>5, <1>6, <1>7, <1>8, <1>9, <1>10, <1>11, <1>12, <1>13, <1>14, <1>15, <1>16, <1>17, <1>18, <1>19, <1>20, <1>21, <1>22, <1>23, <1>24, <1>25, <1>26, <1>27, <1>28 DEF Next, Worker, RipTrack


-----------------------------------------------------------------------------
(* What a step does to the files. *)

\* A step of a pass over a track writes the files of that pass only.
LEMMA PassWrites ==
  ASSUME ShapeOK, RipTrack,
         NEW t \in 0 .. LastTrack, NEW f \in Formats, NEW suffix \in Suffixes, t # track \/ suffix # SuffixOf(pass.kind)
  PROVE  File(disk', t, f, suffix) = File(disk, t, f, suffix)
<1> USE SuffixIs, Bounds
<1>1. CASE RipOpen
  <2>1. \/ disk' = Stored(Outs(track, SuffixOf(pass.kind)), Take("part", 0))
        \/ \E g \in Formats : disk' = Stored({n \in Outs(track, SuffixOf(pass.kind)) : n[2] < g}, Take("empty", 0))
    BY <1>1 DEF RipOpen, Target
  <2>2. <<t, f, suffix>> \notin Outs(track, SuffixOf(pass.kind))
    BY DEF Outs
  <2>3. ASSUME NEW names \in SUBSET Outs(track, SuffixOf(pass.kind)), NEW take, disk' = Stored(names, take)
        PROVE  File(disk', t, f, suffix) = File(disk, t, f, suffix)
    <3>1. File(Stored(names, take), t, f, suffix) = File(disk, t, f, suffix)
      BY <2>2, StoredIn
    <3> QED
      BY <3>1, <2>3
  <2> QED
    BY <2>1, <2>3
<1>2. CASE RipBlock
  BY <1>2 DEF RipBlock
<1>3. CASE RipFlush
  BY <1>3, StoredOuts DEF RipFlush, Target
<1>4. CASE RipReturn
  <2>1. disk' = Stored(Outs(track, SuffixOf(pass.kind)), None) \/ disk' = disk
    BY <1>4 DEF RipReturn, Target
  <2> QED
    BY <2>1, StoredOuts
<1> QED
  BY <1>1, <1>2, <1>3, <1>4 DEF RipTrack

\* Renaming moves the file the second pass wrote, or leaves all as it is.
LEMMA RenameWrites ==
  ASSUME ShapeOK, Rename, NEW t \in 0 .. LastTrack, NEW f \in Formats
  PROVE  /\ t # track \/ f # out => \A suffix \in Suffixes : File(disk', t, f, suffix) = File(disk, t, f, suffix)
         /\ t # track \/ f # out => /\ File(disk', t, f, "") = File(disk, t, f, "")
                                    /\ File(disk', t, f, ".tmp") = File(disk, t, f, ".tmp")
         /\ \A suffix \in Suffixes \ {"", ".tmp"} : File(disk', t, f, suffix) = File(disk, t, f, suffix)
         /\ \/ /\ File(disk', track, out, "") = File(disk, track, out, ".tmp")
               /\ File(disk', track, out, ".tmp") = None
            \/ RenameFails /\ disk' = disk
<1>1. out \in Formats /\ track \in 0 .. LastTrack /\ DOMAIN disk = Names
  BY DEF Rename, ShapeOK, Replacing
<1>2. CASE RenameFails /\ disk' = disk
  BY <1>2
<1>3. CASE disk' = [disk EXCEPT ![<<track, out, "">>] = disk[<<track, out, ".tmp">>], ![<<track, out, ".tmp">>] = None]
  <2>1. \A n \in Names : disk'[n] = IF n = <<track, out, ".tmp">> THEN None
                                    ELSE IF n = <<track, out, "">> THEN disk[<<track, out, ".tmp">>] ELSE disk[n]
    BY <1>1, <1>3
  <2>2. <<track, out, ".tmp">> \in Names /\ <<track, out, "">> \in Names
        /\ \A suffix \in Suffixes : <<t, f, suffix>> \in Names
    BY <1>1 DEF Names, Suffixes
  <2> QED
    BY <2>1, <2>2 DEF File, Suffixes
<1> QED
  BY <1>2, <1>3 DEF Rename

\* The files of a track are written only while it is the current one.
LEMMA OthersKept ==
  ASSUME ShapeOK, [Next]_vars,
         NEW t \in 0 .. LastTrack, NEW f \in Formats, NEW suffix \in Suffixes, t # track
  PROVE  File(disk', t, f, suffix) = File(disk, t, f, suffix)
<1> USE Bounds DEF ui, job, current, offsets, lists, ends, Work, Judging
<1>1. CASE RipTrack
  BY <1>1, PassWrites
<1>2. CASE \E s \in Suffixes : disk' = Stored(Outs(track, s), None)
  <2>1. PICK s \in Suffixes : disk' = Stored(Outs(track, s), None)
    BY <1>2
  <2>2. File(Stored(Outs(track, s), None), t, f, suffix) = File(disk, t, f, suffix)
    BY StoredOuts
  <2> QED
    BY <2>1, <2>2
<1>3. CASE OffsetTried \/ Checked \/ Compare
  <2>1. \/ disk' = disk
        \/ disk' = Stored(Outs(track, ".probe"), None)
        \/ disk' = Stored(Outs(track, ".tmp"), None)
        \/ disk' = Stored(Outs(track, ".det"), None)
    BY <1>3 DEF OffsetTried, Compare, Checked
  <2> QED
    BY <2>1, <1>2, SuffixesAre
<1>4. CASE Replace
  <2> DEFINE names == {<<track, out, "">>}
  <2>1. disk' = Stored(names, None) /\ <<t, f, suffix>> \notin names
    BY <1>4 DEF Replace
  <2> HIDE DEF names
  <2>2. File(Stored(names, None), t, f, suffix) = File(disk, t, f, suffix)
    BY <2>1, StoredIn
  <2> QED
    BY <2>1, <2>2
<1>5. CASE Rename
  BY <1>5, RenameWrites
<1>7. CASE disk' = disk
  BY <1>7
<1> QED
  BY <1>1, <1>3, <1>4, <1>5, <1>7 DEF Next, Worker, vars, Start, Cancel, Cancelled, Setup, FetchARData,
     NextTrack, TracksOver, Verify, TryOffset, Record, HiddenTrack, HiddenDone, AlbumGain, TagFile, WriteCue, WriteM3U,
     Finish, Inactive


-----------------------------------------------------------------------------
(* What a pass returns is what is in its files. *)

\* The places where what the pass under way has read, or the last one returned, matters.
Returning == Passing \cup {"verify", "probed", "compare", "checked", "hiddenDone"}

LEMMA NothingIsSound == Sound(Nothing) /\ ~Held(Nothing)
BY DEF Sound, Held, Nothing, Result

LEMMA PassKept == ShapeOK /\ PassOK /\ [Next]_vars => PassOK'
<1> SUFFICES ASSUME ShapeOK, PassOK, [Next]_vars PROVE PassOK'
  OBVIOUS
<1> USE DEF ui, job, current, offsets, lists, ends, Work, Reading, Judging, Returning, Passing
<1>1. CASE wpc' \notin Returning
  BY <1>1 DEF PassOK
<1>2. CASE wpc' = "open" /\ got' = Nothing
  BY <1>2 DEF PassOK
<1>3. CASE UNCHANGED vars
  BY <1>3 DEF vars, PassOK, Sound, Held, IsLocal, Taken
<1>4. CASE Cancel
  <2>1. UNCHANGED <<wpc, pass, got, disk, track, mode>> /\ cancel'
    BY <1>4 DEF Cancel
  <2> QED
    BY <2>1 DEF PassOK, Sound, Held, IsLocal, Taken
<1>5. CASE Setup \/ FetchARData \/ TracksOver \/ Record \/ AlbumGain \/ TagFile \/ WriteCue \/ WriteM3U \/ Finish \/ Inactive
           \/ Start \/ Cancelled \/ Replace \/ Rename \/ HiddenDone \/ Checked
  <2>1. wpc' \notin Returning
    BY <1>5 DEF Setup, FetchARData, TracksOver, Record, AlbumGain, TagFile, WriteCue, WriteM3U, Finish, Inactive,
       Start, Cancelled, Replace, Rename, HiddenDone, Checked
  <2> QED
    BY <2>1, <1>1
<1>6. CASE NextTrack \/ Verify \/ TryOffset \/ OffsetTried \/ HiddenTrack \/ Compare
  <2>1. wpc' \notin Returning \/ (wpc' = "open" /\ got' = Nothing)
    BY <1>6 DEF NextTrack, Verify, TryOffset, OffsetTried, HiddenTrack, Compare, Begin
  <2> QED
    BY <2>1, <1>1, <1>2
<1>7. CASE RipOpen
  <2>1. got' = Nothing /\ wpc' \in Returning \ {"return"}
    BY <1>7, KindIs DEF RipOpen, PassOK, After, Kinds
  <2>2. Sound(got)' /\ ~Held(got)'
    BY <2>1 DEF Sound, Held, Nothing, Result
  <2> QED
    BY <2>1, <2>2 DEF PassOK
<1>8. CASE RipBlock
  <2>1. wpc' = "blocks" /\ got' = Nothing
    BY <1>8 DEF RipBlock, PassOK
  <2> QED
    BY <2>1 DEF PassOK
<1>9. CASE RipFlush
  <2>1. /\ wpc' = "return" /\ UNCHANGED <<track, mode, cancel>>
        /\ pass'.ok \in BOOLEAN /\ pass'.kind = pass.kind /\ Taken' = Taken
    BY <1>9, FlushIs DEF RipFlush, PassRecords, Taken
  <2>2. CASE ~pass'.ok
    <3>1. got' = Nothing
      BY <1>9, <2>2 DEF RipFlush, ShapeOK, PassRecords
    <3> QED
      BY <2>1, <2>2, <3>1 DEF PassOK
  <2>3. CASE pass'.ok
    <3>1. got' = Result(None, Taken, IF cancel THEN None ELSE Taken)
      BY <1>9, <2>3 DEF RipFlush, ShapeOK, PassRecords
    <3>2. got' = Result(None, Taken, got'.loud) /\ (~cancel => got'.loud = Taken)
      BY <3>1 DEF Result
    <3>3. ASSUME ~cancel, NEW f \in Formats PROVE File(disk', track, f, SuffixOf(pass.kind)) = Taken
      <4>1. disk' = Stored(Outs(track, SuffixOf(pass.kind)), Taken)
        BY <1>9, <2>3, <3>3 DEF RipFlush, ShapeOK, PassRecords, Target
      <4>2. track \in 0 .. LastTrack
        BY DEF ShapeOK
      <4> QED
        BY <4>1, <4>2, StoredOuts, SuffixIs, Bounds
    <3> QED
      BY <2>1, <2>3, <3>2, <3>3 DEF PassOK, SuffixOf
  <2> QED
    BY <2>1, <2>2, <2>3
<1>10. CASE RipReturn
  <2>1. wpc = "return" /\ wpc' \in Returning \ Passing /\ UNCHANGED <<pass, track, mode, cancel>>
    BY <1>10, KindIs DEF RipReturn, After, Kinds
  <2>2. CASE pass.ok /\ ~cancel
    <3>1. /\ got = Result(None, Taken, Taken) /\ got' = [got EXCEPT !.crc = Checksum] /\ disk' = disk
          /\ \A f \in Formats : File(disk, track, f, SuffixOf(pass.kind)) = Taken
      BY <1>10, <2>1, <2>2 DEF RipReturn, PassOK
    <3>2. got' = Result(Checksum, Taken, Taken) /\ Checksum \in {Taken, None}
      BY <3>1 DEF Result, Checksum
    <3>3. Sound(got)' /\ got'.rg = Taken
      BY <3>2, TakenIs DEF Sound, Held, Result
    <3> QED
      BY <2>1, <3>1, <3>3 DEF PassOK, SuffixOf
  <2>3. CASE ~pass.ok \/ cancel
    <3>1. got' = got /\ got.crc = None /\ (cancel' \/ got.loud = None)
      BY <1>10, <2>1, <2>3 DEF RipReturn, PassOK, Nothing, Result
    <3>2. Sound(got)' /\ ~Held(got)'
      BY <2>1, <3>1 DEF Sound, Held
    <3> QED
      BY <2>1, <3>2 DEF PassOK
  <2> QED
    BY <2>2, <2>3
<1> QED
  BY <1>3, <1>4, <1>5, <1>6, <1>7, <1>8, <1>9, <1>10 DEF Next, Worker, RipTrack


-----------------------------------------------------------------------------
(* What is kept of the current track is in its files. *)

Keeping == Kept \/ wpc \in Replacing \cup {"record"}

LEMMA InPlaceIs ==
  ASSUME ShapeOK, NEW f \in Formats, NEW take
  PROVE  (File(disk, track, f, "") = take)' => InPlace(f, take)'
BY DEF InPlace

LEMMA MatchIs ==
  ASSUME NEW result, Matches(result.crc)
  PROVE  result.crc # None /\ Held(result)
BY DEF Matches, Take, None, Held

LEMMA KeptKept == ShapeOK /\ PassOK /\ KeptOK /\ [Next]_vars => KeptOK'
<1> SUFFICES ASSUME ShapeOK, PassOK, KeptOK, [Next]_vars PROVE KeptOK'
  OBVIOUS
<1> USE DEF ui, job, current, offsets, lists, ends, Work, Reading, Judging, Keeping, Kept, Passing, Judging1, Replacing
<1>1. CASE ~Keeping'
  BY <1>1 DEF KeptOK
<1>2. CASE UNCHANGED vars
  BY <1>2 DEF vars, KeptOK, Sound, Held, IsLocal, InPlace
<1>3. CASE Cancel
  <2>1. UNCHANGED <<wpc, pass, got, kept, disk, track, mode, out>> /\ cancel'
    BY <1>3 DEF Cancel
  <2> QED
    BY <2>1 DEF KeptOK, Sound, Held, IsLocal, InPlace
<1>4. CASE Setup \/ FetchARData \/ TracksOver \/ Record \/ AlbumGain \/ TagFile \/ WriteCue \/ WriteM3U \/ Finish \/ Inactive
           \/ Start \/ Cancelled \/ HiddenDone \/ NextTrack \/ HiddenTrack
  <2>1. ~Keeping'
    BY <1>4 DEF Setup, FetchARData, TracksOver, Record, AlbumGain, TagFile, WriteCue, WriteM3U, Finish, Inactive,
       Start, Cancelled, HiddenDone, NextTrack, HiddenTrack, Begin
  <2> QED
    BY <2>1, <1>1
<1>5. ASSUME Kept, Kept', UNCHANGED <<kept, track, mode, cancel>>,
             \A f \in Formats : File(disk', track, f, "") = File(disk, track, f, "")
      PROVE  KeptOK'
  BY <1>5 DEF KeptOK, Sound, Held, IsLocal
<1>6. CASE RipTrack
  <2>1. UNCHANGED <<kept, track, mode, cancel>> /\ wpc \in Passing /\ pass'.kind = pass.kind /\ pass.kind \in Kinds
        /\ wpc' \in Passing \cup {After}
    BY <1>6, BlockIs, FlushIs, KindIs DEF RipTrack, RipOpen, RipBlock, RipFlush, RipReturn
  <2>2. CASE pass.kind \in {"probe", "second", "check"}
    <3>1. Kept /\ Kept'
      BY <2>1, <2>2 DEF After
    <3>2. SuffixOf(pass.kind) # "" /\ track \in 0 .. LastTrack
      BY <2>2 DEF SuffixOf, ShapeOK
    <3>3. \A f \in Formats : File(disk', track, f, "") = File(disk, track, f, "")
      BY <1>6, <3>2, PassWrites, SuffixesAre
    <3> QED
      BY <2>1, <3>1, <3>3, <1>5
  <2>3. CASE pass.kind \in {"first", "hidden"}
    <3>1. ~Keeping'
      BY <2>1, <2>3 DEF After
    <3> QED
      BY <3>1, <1>1
  <2> QED
    BY <2>1, <2>2, <2>3 DEF Kinds
<1>7. CASE Verify
  <2>1. CASE NoAudio
    <3>1. ~Keeping'
      BY <1>7, <2>1 DEF Verify
    <3> QED
      BY <3>1, <1>1
  <2>2. CASE ~NoAudio
    <3>1. kept' = got /\ UNCHANGED <<track, mode, cancel, disk>> /\ wpc' \notin Replacing
      BY <1>7, <2>2 DEF Verify, Begin
    <3>2. Sound(got) /\ (Held(got) => \A f \in Formats : File(disk, track, f, "") = got.rg)
      BY <1>7 DEF Verify, PassOK, ShapeOK, SuffixOf
    <3>3. Sound(kept)' /\ (Held(kept)' => \A f \in Formats : File(disk', track, f, "") = kept'.rg)
      BY <3>1, <3>2 DEF Sound, Held, IsLocal
    <3> QED
      BY <3>1, <3>3 DEF KeptOK, InPlace
  <2> QED
    BY <2>1, <2>2
<1>8. CASE TryOffset
  <2>1. Kept /\ Kept' /\ UNCHANGED <<kept, track, mode, cancel, disk>>
    BY <1>8 DEF TryOffset, Begin
  <2> QED
    BY <2>1, <1>5
<1>9. CASE OffsetTried
  <2>1. Kept /\ Kept' /\ UNCHANGED <<kept, track, mode, cancel>> /\ disk' = Stored(Outs(track, ".probe"), None)
    BY <1>9 DEF OffsetTried, Begin
  <2>2. ASSUME NEW f \in Formats PROVE File(disk', track, f, "") = File(disk, track, f, "")
    BY <2>1, Dropped DEF ShapeOK
  <2> QED
    BY <2>1, <2>2, <1>5
<1>10. CASE Compare
  <2>1. UNCHANGED <<kept, track, mode, cancel, got, pass>> /\ wpc = "compare" /\ Kept /\ pass.kind = "second"
    BY <1>10 DEF Compare, ShapeOK
  <2>2. CASE Matches(got.crc)
    <3>1. wpc' = "replace" /\ out' = Least(Formats) /\ disk' = disk
      BY <1>10, <2>2 DEF Compare
    <3>2. Sound(got)' /\ got'.crc # None /\ \A f \in Formats : File(disk', track, f, ".tmp") = got'.rg
      BY <2>1, <2>2, <3>1, MatchIs DEF PassOK, SuffixOf, Sound, Held, IsLocal
    <3>3. \A f \in Formats : ~(f < out')
      BY <3>1, FormatLeast
    <3> QED
      BY <2>1, <3>1, <3>2, <3>3 DEF KeptOK
  <2>3. CASE ~Matches(got.crc)
    <3>1. wpc' = "record" /\ disk' = Stored(Outs(track, ".tmp"), None)
      BY <1>10, <2>3 DEF Compare
    <3>2. ASSUME NEW f \in Formats PROVE File(disk', track, f, "") = File(disk, track, f, "")
      BY <3>1, Dropped DEF ShapeOK
    <3> QED
      BY <2>1, <3>1, <3>2 DEF KeptOK, InPlace, Sound, Held, IsLocal
  <2> QED
    BY <2>2, <2>3
<1>11. CASE Checked
  <2>1. UNCHANGED <<kept, track, mode, cancel>> /\ wpc = "checked" /\ wpc' = "record" /\ disk' = Stored(Outs(track, ".det"), None)
    BY <1>11 DEF Checked
  <2>2. ASSUME NEW f \in Formats PROVE File(disk', track, f, "") = File(disk, track, f, "")
    BY <2>1, Dropped DEF ShapeOK
  <2> QED
    BY <2>1, <2>2 DEF KeptOK, InPlace, Sound, Held, IsLocal
<1>12. CASE Replace
  <2>1. UNCHANGED <<got, track, mode, cancel, out>> /\ wpc = "replace" /\ wpc' = "rename"
        /\ disk' = Stored({<<track, out, "">>}, None) /\ track \in 0 .. LastTrack /\ out \in Formats
    BY <1>12 DEF Replace, ShapeOK
  <2>2. ASSUME NEW f \in Formats PROVE File(disk', track, f, ".tmp") = File(disk, track, f, ".tmp")
                                       /\ (f < out => File(disk', track, f, "") = File(disk, track, f, ""))
    <3>1. f \in Nat /\ out \in Nat
      BY <2>1, FormatLeast
    <3>2. f < out => f # out
      BY <3>1
    <3>3. File(disk', track, f, ".tmp") = File(disk, track, f, ".tmp")
      BY <2>1, Dropped
    <3>4. ASSUME f # out PROVE File(disk', track, f, "") = File(disk, track, f, "")
      BY <2>1, <3>4, Dropped
    <3> QED
      BY <3>2, <3>3, <3>4
  <2>3. Sound(got)' /\ got'.crc # None
    BY <2>1 DEF KeptOK, Sound, Held, IsLocal
  <2>4. ASSUME NEW f \in Formats
        PROVE  IF f < out' THEN InPlace(f, got.rg)' ELSE File(disk', track', f, ".tmp") = got'.rg
    BY <2>1, <2>2 DEF KeptOK, InPlace
  <2> QED
    BY <2>1, <2>3, <2>4 DEF KeptOK
<1>13. CASE Rename
  <2> DEFINE later == {f \in Formats : f > out}
  <2>1. /\ UNCHANGED <<got, track, mode, cancel>> /\ wpc = "rename" /\ track \in 0 .. LastTrack /\ out \in Formats
        /\ \/ later = {} /\ kept' = got /\ wpc' = "record"
           \/ later # {} /\ out' = Least(later) /\ wpc' = "replace"
    BY <1>13 DEF Rename, ShapeOK, Replaced
  <2>2. Sound(got)' /\ Sound(got) /\ got.crc # None /\ Held(got)
    BY <2>1 DEF KeptOK, Sound, Held, IsLocal
  <2>3. ASSUME NEW f \in Formats, f <= out PROVE InPlace(f, got.rg)'
    <3>1. CASE f = out
      <4>1. File(disk, track, f, ".tmp") = got.rg
        BY <2>1, <3>1, Bounds DEF KeptOK
      <4>2. \/ File(disk', track, f, "") = File(disk, track, f, ".tmp")
            \/ RenameFails /\ disk' = disk
        BY <1>13, <2>1, <3>1, RenameWrites
      <4> QED
        BY <2>1, <4>1, <4>2 DEF InPlace
    <3>2. CASE f # out
      <4>1. InPlace(f, got.rg)
        BY <2>1, <2>3, <3>2, Bounds DEF KeptOK
      <4>2. File(disk', track, f, "") = File(disk, track, f, "") /\ File(disk', track, f, ".tmp") = File(disk, track, f, ".tmp")
        BY <1>13, <2>1, <3>2, RenameWrites
      <4> QED
        BY <2>1, <4>1, <4>2 DEF InPlace
    <3> QED
      BY <3>1, <3>2
  <2>4. ASSUME NEW f \in Formats, f > out PROVE File(disk', track, f, ".tmp") = got.rg
    <3>1. f # out /\ ~(f < out)
      BY <2>1, <2>4, Bounds
    <3>2. File(disk', track, f, ".tmp") = File(disk, track, f, ".tmp")
      BY <1>13, <2>1, <3>1, RenameWrites
    <3> QED
      BY <2>1, <3>1, <3>2 DEF KeptOK
  <2>5. CASE later = {} /\ kept' = got /\ wpc' = "record"
    <3>1. \A f \in Formats : InPlace(f, got.rg)'
      BY <2>1, <2>3, <2>5, Bounds
    <3> QED
      BY <2>1, <2>2, <2>5, <3>1 DEF KeptOK, Sound, Held, IsLocal
  <2>6. CASE later # {} /\ out' = Least(later) /\ wpc' = "replace"
    <3>1. out' \in later /\ \A f \in later : out' <= f
      BY <2>6, FormatLater
    <3>2. \A f \in Formats : IF f < out' THEN InPlace(f, got.rg)' ELSE File(disk', track, f, ".tmp") = got.rg
      BY <2>1, <2>3, <2>4, <3>1, Bounds
    <3> QED
      BY <2>1, <2>2, <2>6, <3>2 DEF KeptOK
  <2> QED
    BY <2>1, <2>5, <2>6
<1> QED
  BY <1>2, <1>3, <1>4, <1>6, <1>7, <1>8, <1>9, <1>10, <1>11, <1>12, <1>13 DEF Next, Worker


-----------------------------------------------------------------------------
(* What was recorded of a track is in its files. *)

\* The conjunct of ResultsOK about one track.
Recorded(t) ==
  Sound(results[t]) /\ (Held(results[t]) /\ ~RenameFails => \A f \in Formats : File(disk, t, f, "") = results[t].rg)

LEMMA NothingRecorded ==
  ASSUME NEW t \in Tracks, results'[t] = Nothing
  PROVE  Recorded(t)'
BY DEF Recorded, Sound, Held, Nothing, Result

LEMMA StaysRecorded ==
  ASSUME NEW t \in Tracks, Recorded(t), UNCHANGED <<results, mode>>, cancel => cancel',
         \A f \in Formats : File(disk', t, f, "") = File(disk, t, f, "")
  PROVE  Recorded(t)'
BY DEF Recorded, Sound, Held, IsLocal

\* Only the record step and the start of a rip change what was recorded.
LEMMA ResultsChange ==
  ASSUME ShapeOK, [Next]_vars
  PROVE  \/ UNCHANGED <<results, mode>> /\ (cancel => cancel')
         \/ Start
         \/ Record
<1> USE DEF ui, job, current, offsets, lists, ends, Work, Reading, Judging
<1> QED
  BY DEF Next, Worker, RipTrack, vars, Cancel, Cancelled, Setup, FetchARData, NextTrack, TracksOver, RipOpen, RipBlock,
     RipFlush, RipReturn, Verify, TryOffset, OffsetTried, Compare, Replace, Rename, Checked, HiddenTrack, HiddenDone,
     AlbumGain, TagFile, WriteCue, WriteM3U, Finish, Inactive

\* The worker reaches a track by taking it from those to come, and nothing is added to them before
\* the album's loudness is computed.
LEMMA TrackChange ==
  ASSUME ShapeOK, [Next]_vars
  PROVE  \/ Start
         \/ NextTrack
         \/ ~BeforeHidden'
         \/ UNCHANGED todo /\ (OnTrack' => OnTrack /\ track' = track) /\ (BeforeHidden' => BeforeHidden)
<1> USE KindIs DEF ui, job, current, offsets, lists, ends, Work, Reading, Judging, BeforeHidden, OnTrack, Passing, Judging1,
      Replacing, Kinds, After
<1>1. CASE RipOpen \/ RipReturn
  BY <1>1 DEF RipOpen, RipReturn
<1>2. CASE RipBlock \/ RipFlush
  BY <1>2, BlockIs, FlushIs DEF RipBlock, RipFlush
<1>3. CASE Verify
  BY <1>3 DEF Verify, Begin, ShapeOK
<1>4. CASE TryOffset \/ OffsetTried
  BY <1>4 DEF TryOffset, OffsetTried, Begin
<1>5. CASE Compare \/ Replace \/ Rename \/ Checked \/ Record
  BY <1>5 DEF Compare, Replace, Rename, Checked, Record, ShapeOK
<1>6. CASE HiddenTrack
  BY <1>6 DEF HiddenTrack, Begin
<1>7. CASE Cancel \/ Cancelled \/ Setup \/ FetchARData \/ TracksOver
  BY <1>7 DEF Cancel, Cancelled, Setup, FetchARData, TracksOver
<1>8. CASE HiddenDone \/ AlbumGain \/ TagFile \/ WriteCue \/ WriteM3U \/ Finish \/ Inactive
  BY <1>8 DEF HiddenDone, AlbumGain, TagFile, WriteCue, WriteM3U, Finish, Inactive
<1>9. CASE UNCHANGED vars
  BY <1>9 DEF vars
<1> QED
  BY <1>1, <1>2, <1>3, <1>4, <1>5, <1>6, <1>7, <1>8, <1>9 DEF Next, Worker, RipTrack

LEMMA ResultsKept == RecInv /\ [Next]_vars => ResultsOK'
<1> SUFFICES ASSUME RecInv, [Next]_vars PROVE ResultsOK'
  OBVIOUS
<1> USE DEF RecInv
<1>1. ASSUME NEW t \in Tracks PROVE Recorded(t)
  BY DEF ResultsOK, Recorded
<1>2. CASE Start
  <2>1. results' = [t \in Tracks |-> Nothing] /\ todo' = plan' /\ plan' \subseteq Tracks /\ wpc' \in {"idle", "setup"}
    BY <1>2 DEF Start
  <2>2. \A t \in Tracks : results'[t] = Nothing
    BY <2>1
  <2>3. ~OnTrack'
    BY <2>1 DEF OnTrack, Passing, Judging1, Replacing
  <2> QED
    BY <2>1, <2>2, <2>3, NothingRecorded DEF ResultsOK, Recorded
<1>3. CASE Record
  <2>1. /\ results' = [results EXCEPT ![track] = kept] /\ UNCHANGED <<mode, cancel, disk, todo, track>>
        /\ wpc = "record" /\ wpc' = "track" /\ track \in Tracks /\ DOMAIN results = Tracks
    BY <1>3 DEF Record, ui, job, current, ShapeOK, OnTrack
  <2>2. results'[track] = kept /\ \A t \in Tracks : t # track => results'[t] = results[t]
    BY <2>1
  <2>3. Recorded(track)'
    BY <2>1, <2>2 DEF KeptOK, Recorded, InPlace, Sound, Held, IsLocal
  <2>4. ASSUME NEW t \in Tracks, t # track PROVE Recorded(t)'
    BY <2>1, <2>2, <2>4, <1>1 DEF Recorded, Sound, Held, IsLocal
  <2>5. \A t \in todo' : results'[t] = Nothing
    BY <2>1, <2>2 DEF ResultsOK, BeforeHidden, OnTrack, ShapeOK
  <2>6. ~OnTrack'
    BY <2>1 DEF OnTrack, Passing, Judging1, Replacing
  <2> QED
    BY <2>1, <2>3, <2>4, <2>5, <2>6 DEF ResultsOK, Recorded
<1>4. CASE UNCHANGED <<results, mode>> /\ (cancel => cancel') /\ ~Start
  <2>1. ASSUME NEW t \in Tracks PROVE Recorded(t)'
    <3>1. CASE results[t] = Nothing
      BY <1>4, <3>1, NothingRecorded
    <3>2. CASE t # track
      <4>1. \A f \in Formats : File(disk', t, f, "") = File(disk, t, f, "")
        <5>1. t \in 0 .. LastTrack
          BY Bounds DEF Tracks
        <5> QED
          BY <3>2, <5>1, OthersKept, SuffixesAre
      <4> QED
        BY <1>1, <1>4, <4>1, StaysRecorded
    <3>3. CASE \A f \in Formats : File(disk', t, f, "") = File(disk, t, f, "")
      BY <1>1, <1>4, <3>3, StaysRecorded
    <3>4. CASE t = track /\ ~OnTrack
      <4>1. CASE RipTrack
        <5>1. pass.kind = "hidden" /\ wpc \in Passing
          BY <3>4, <4>1 DEF RipTrack, RipOpen, RipBlock, RipFlush, RipReturn, OnTrack, Passing
        <5> QED
          BY <5>1, <3>4 DEF ShapeOK, Tracks
      <4>2. CASE ~RipTrack
        <5>1. disk' = disk
          BY <1>4, <3>4, <4>2 DEF OnTrack, Judging1, Replacing, Next, Worker, vars, Start, Cancel, Cancelled, Setup, FetchARData,
             NextTrack, TracksOver, Verify, TryOffset, OffsetTried, Compare, Replace, Rename, Checked, Record, HiddenTrack,
             HiddenDone, AlbumGain, TagFile, WriteCue, WriteM3U, Finish, Inactive, Work
        <5> QED
          BY <5>1, <3>3
      <4> QED
        BY <4>1, <4>2
    <3> QED
      BY <3>1, <3>2, <3>4 DEF ResultsOK
  <2>2. CASE NextTrack
    <3>1. track' \in todo /\ todo' = todo \ {track'} /\ wpc = "track"
      BY <2>2, LeastTrack DEF NextTrack
    <3>2. \A t \in todo : results[t] = Nothing
      BY <3>1 DEF ResultsOK, BeforeHidden
    <3> QED
      BY <1>4, <2>1, <3>1, <3>2 DEF ResultsOK, Recorded
  <2>3. CASE ~BeforeHidden'
    BY <2>1, <2>3 DEF ResultsOK, Recorded, BeforeHidden
  <2>4. CASE UNCHANGED todo /\ (OnTrack' => OnTrack /\ track' = track) /\ (BeforeHidden' => BeforeHidden)
    BY <1>4, <2>1, <2>4 DEF ResultsOK, Recorded
  <2> QED
    BY <1>4, <2>2, <2>3, <2>4, TrackChange
<1> QED
  BY <1>2, <1>3, <1>4, ResultsChange

LEMMA InitRec == Init => RecInv
<1> SUFFICES ASSUME Init PROVE RecInv
  OBVIOUS
<1>1. ShapeOK
  BY InitShape
<1>2. wpc = "idle" /\ results = [t \in Tracks |-> Nothing]
  BY DEF Init
<1>3. ~BeforeHidden /\ ~OnTrack /\ ~Kept
  BY <1>2 DEF BeforeHidden, OnTrack, Kept, Passing, Judging1, Replacing
<1>4. PassOK /\ KeptOK
  BY <1>2, <1>3 DEF PassOK, KeptOK, Replacing
<1>5. ResultsOK
  BY <1>2, <1>3, NothingIsSound DEF ResultsOK
<1> QED
  BY <1>1, <1>4, <1>5 DEF RecInv

LEMMA RecKept == RecInv /\ [Next]_vars => RecInv'
BY ShapeKept, PassKept, KeptKept, ResultsKept DEF RecInv

\* What the rip recorded of a track - its verdict, its gain, its share of the album's loudness - is
\* of the audio in the track's files, whichever pass, offset and cancellation it took to get there.
THEOREM RecordsAreTrue == ASSUME ~RenameFails PROVE Spec => []RecordsOfTheFile
<1>1. RecInv => RecordsOfTheFile
  <2> SUFFICES ASSUME RecInv, NEW t \in Tracks, Held(results[t])
               PROVE  /\ results[t].rg = results[t].loud /\ results[t].crc \in {results[t].rg, None}
                      /\ \A n \in Outs(t, "") : disk[n] = results[t].rg
    BY DEF RecordsOfTheFile
  <2>1. Sound(results[t]) /\ \A f \in Formats : disk[<<t, f, "">>] = results[t].rg
    BY DEF RecInv, ResultsOK, File
  <2>2. \A n \in Outs(t, "") : \E f \in Formats : n = <<t, f, "">>
    BY OutsAre
  <2> QED
    BY <2>1, <2>2 DEF Sound
<1> QED
  BY InitRec, RecKept, <1>1, PTL DEF Spec

\* A track that was ripped is on the disk in every format at every moment of what follows, in its own
\* file or in the one about to replace it.
THEOREM RipSurvives == Spec => []FirstPassSafe
<1>1. RecInv => FirstPassSafe
  <2> SUFFICES ASSUME RecInv, Kept \/ wpc \in Replacing \cup {"record"}, Held(kept), NEW f \in Formats
               PROVE  IsWhole(disk[<<track, f, "">>]) \/ IsWhole(disk[<<track, f, ".tmp">>])
    BY DEF FirstPassSafe, Kept, Replacing, Judging1, Passing
  <2> QED
    BY DEF RecInv, KeptOK, File, Sound, InPlace, Held
<1> QED
  BY InitRec, RecKept, <1>1, PTL DEF Spec


-----------------------------------------------------------------------------
(* Nothing half done is left behind. *)

\* A file as it may be at any moment: no part of a track, and no temporary file.
Tidy(files, t, f, suffix) == IF suffix = "" THEN File(files, t, f, suffix)[1] # "part" ELSE File(files, t, f, suffix) = None

LEMMA NoneIsNoPart == None[1] # "part"
BY DEF None, Take

LEMMA HalfKept == ASSUME ~RenameFails PROVE RecInv /\ HalfOK /\ [Next]_vars => HalfOK'
<1> SUFFICES ASSUME RecInv, HalfOK, [Next]_vars PROVE HalfOK'
  OBVIOUS
<1> USE DEF ui, job, current, offsets, lists, ends, Work, Reading, Judging, Judged, Replacing
<1>a. ShapeOK /\ track \in 0 .. LastTrack /\ pass.kind \in Kinds
  BY KindIs DEF RecInv, ShapeOK
<1>1. CASE \A t \in 0 .. LastTrack, f \in Formats, suffix \in Suffixes : Tidy(disk', t, f, suffix)
  BY <1>1 DEF HalfOK, Tidy
<1>2. CASE wpc \notin Judged /\ disk' = disk
  <2>1. \A t \in 0 .. LastTrack, f \in Formats, suffix \in Suffixes : Tidy(disk', t, f, suffix)
    BY <1>2 DEF HalfOK, Tidy
  <2> QED
    BY <2>1, <1>1
<1>3. CASE wpc \in Judged /\ disk' = Stored(Outs(track, SuffixOf(pass.kind)), None)
  <2>1. ASSUME NEW t \in 0 .. LastTrack, NEW f \in Formats, NEW suffix \in Suffixes
        PROVE  Tidy(disk', t, f, suffix)
    <3>1. File(disk', t, f, suffix) = IF t = track /\ suffix = SuffixOf(pass.kind) THEN None ELSE File(disk, t, f, suffix)
      BY <1>3, StoredOuts, SuffixIs, Bounds
    <3> QED
      BY <3>1, NoneIsNoPart DEF HalfOK, Tidy
  <2> QED
    BY <2>1, <1>1
<1>4. CASE UNCHANGED vars
  BY <1>4 DEF vars, HalfOK
<1>5. CASE Cancel
  <2>1. UNCHANGED <<disk, pass, track, wpc, out>> /\ cancel'
    BY <1>5 DEF Cancel
  <2> QED
    BY <2>1 DEF HalfOK
<1>6. CASE Start \/ Cancelled \/ Setup \/ FetchARData \/ NextTrack \/ TracksOver \/ Verify \/ TryOffset \/ Record \/ HiddenTrack
           \/ HiddenDone \/ AlbumGain \/ TagFile \/ WriteCue \/ WriteM3U \/ Finish \/ Inactive
  <2>1. wpc \notin Judged /\ disk' = disk
    BY <1>6 DEF Start, Cancelled, Setup, FetchARData, NextTrack, TracksOver, Verify, TryOffset, Record, HiddenTrack, HiddenDone,
       AlbumGain, TagFile, WriteCue, WriteM3U, Finish, Inactive
  <2> QED
    BY <2>1, <1>2
<1>7. CASE RipOpen
  <2>1. UNCHANGED <<track, pass>> /\ wpc = "open" /\ wpc' \in {"blocks", After}
    BY <1>7 DEF RipOpen
  <2>2. \A t \in 0 .. LastTrack, f \in Formats, suffix \in Suffixes : Tidy(disk, t, f, suffix)
    BY <2>1 DEF HalfOK, Tidy
  <2>3. ASSUME NEW t \in 0 .. LastTrack, NEW f \in Formats, NEW suffix \in Suffixes, t # track \/ suffix # SuffixOf(pass.kind)
        PROVE  Tidy(disk', t, f, suffix)
    <3>1. File(disk', t, f, suffix) = File(disk, t, f, suffix)
      BY <1>7, <1>a, <2>3, PassWrites DEF RipTrack
    <3> QED
      BY <2>2, <3>1 DEF Tidy
  <2>4. SuffixOf(pass.kind) # "" => wpc' \in Judged \ Replacing
    BY <1>a, <2>1 DEF After, SuffixOf, Kinds
  <2>5. ASSUME NEW f \in Formats, SuffixOf(pass.kind) = "", wpc' # "blocks" PROVE Tidy(disk', track, f, "")
    <3>1. PICK g : disk' = Stored({n \in Target : n[2] < g}, Take("empty", 0))
      BY <1>7, <2>5 DEF RipOpen
    <3> DEFINE names == {n \in Target : n[2] < g}
    <3>2. disk' = Stored(names, Take("empty", 0))
      BY <3>1
    <3> HIDE DEF names
    <3>3. ASSUME NEW suffix \in Suffixes
          PROVE  File(disk', track, f, suffix) = Take("empty", 0) \/ File(disk', track, f, suffix) = File(disk, track, f, suffix)
      <4>1. \/ File(Stored(names, Take("empty", 0)), track, f, suffix) = Take("empty", 0)
            \/ File(Stored(names, Take("empty", 0)), track, f, suffix) = File(disk, track, f, suffix)
        BY <1>a, StoredEither
      <4> QED
        BY <4>1, <3>2
    <3>4. Take("empty", 0)[1] # "part"
      BY DEF Take
    <3>5. "" \in Suffixes
      BY SuffixesAre
    <3> QED
      BY <2>2, <3>3, <3>4, <3>5, <1>a DEF Tidy
  <2> QED
    BY <2>1, <2>3, <2>4, <2>5, <1>a DEF HalfOK, Tidy, SuffixOf
<1>8. CASE RipBlock
  <2>1. UNCHANGED <<disk, track, wpc, out>> /\ wpc = "blocks" /\ pass'.kind = pass.kind
    BY <1>8, <1>a, BlockIs DEF RipBlock
  <2> QED
    BY <2>1 DEF HalfOK, SuffixOf
<1>9. CASE RipFlush
  <2>1. /\ UNCHANGED <<track, out, cancel>> /\ wpc = "blocks" /\ wpc' = "return" /\ pass'.kind = pass.kind
        /\ disk' = Stored(Target, IF pass'.ok /\ pass.left = 0 THEN Taken ELSE Take("part", 0))
        /\ (pass'.ok => pass.ok) /\ (pass.left = 0 \/ ~pass.ok \/ cancel)
    BY <1>9, <1>a, FlushIs DEF RipFlush, ShapeOK, PassRecords
  <2>2. ASSUME NEW t \in 0 .. LastTrack, NEW f \in Formats, NEW suffix \in Suffixes, t # track \/ suffix # SuffixOf(pass.kind)
        PROVE  Tidy(disk', t, f, suffix)
    <3>1. File(disk', t, f, suffix) = File(disk, t, f, suffix)
      BY <1>9, <1>a, <2>2, PassWrites DEF RipTrack
    <3> QED
      BY <2>2, <3>1 DEF Tidy, HalfOK
  <2>3. ASSUME NEW f \in Formats, pass'.ok, ~cancel
        PROVE  File(disk', track, f, SuffixOf(pass.kind))[1] # "part"
    <3>1. disk' = Stored(Outs(track, SuffixOf(pass.kind)), Taken)
      BY <2>1, <2>3 DEF Target
    <3>2. File(disk', track, f, SuffixOf(pass.kind)) = Taken
      BY <3>1, <1>a, StoredOuts, SuffixIs, Bounds
    <3> QED
      BY <3>2, TakenIs DEF IsWhole
  <2>4. SuffixOf(pass'.kind) = SuffixOf(pass.kind)
    BY <2>1 DEF SuffixOf
  <2> QED
    BY <2>1, <2>2, <2>3, <2>4 DEF HalfOK, Tidy
<1>10. CASE RipReturn
  <2>1. UNCHANGED <<track, pass, cancel>> /\ wpc = "return" /\ wpc' = After
    BY <1>10 DEF RipReturn
  <2>2. CASE ~pass.ok \/ cancel
    BY <1>10, <2>1, <2>2, <1>3 DEF RipReturn, Target
  <2>3. CASE pass.ok /\ ~cancel
    <3>1. disk' = disk
      BY <1>10, <2>3 DEF RipReturn
    <3>2. SuffixOf(pass.kind) # "" => wpc' \in Judged \ Replacing
      BY <1>a, <2>1 DEF After, SuffixOf, Kinds
    <3> QED
      BY <2>1, <2>3, <3>1, <3>2 DEF HalfOK
  <2> QED
    BY <2>2, <2>3
<1>11. CASE OffsetTried
  <2>1. SuffixOf(pass.kind) = ".probe" /\ wpc = "probed"
    BY <1>11, <1>a DEF OffsetTried, ShapeOK, SuffixOf
  <2> QED
    BY <1>11, <2>1, <1>3 DEF OffsetTried
<1>12. CASE Checked
  <2>1. SuffixOf(pass.kind) = ".det" /\ wpc = "checked"
    BY <1>12, <1>a DEF Checked, ShapeOK, SuffixOf
  <2> QED
    BY <1>12, <2>1, <1>3 DEF Checked
<1>13. CASE Compare
  <2>1. SuffixOf(pass.kind) = ".tmp" /\ wpc = "compare" /\ UNCHANGED <<pass, track>>
    BY <1>13, <1>a DEF Compare, ShapeOK, SuffixOf
  <2>2. CASE Matches(got.crc)
    <3>1. disk' = disk /\ wpc' = "replace" /\ \A f \in Formats : out' <= f
      BY <1>13, <2>2, FormatLeast DEF Compare
    <3> QED
      BY <2>1, <3>1 DEF HalfOK
  <2>3. CASE ~Matches(got.crc)
    BY <1>13, <2>1, <2>3, <1>3 DEF Compare
  <2> QED
    BY <2>2, <2>3
<1>14. CASE Replace
  <2> DEFINE names == {<<track, out, "">>}
  <2>1. disk' = Stored(names, None) /\ wpc = "replace" /\ wpc' = "rename" /\ UNCHANGED <<pass, track, out>>
    BY <1>14 DEF Replace
  <2> HIDE DEF names
  <2>2. ASSUME NEW t \in 0 .. LastTrack, NEW f \in Formats, NEW suffix \in Suffixes
        PROVE  File(disk', t, f, suffix) = None \/ File(disk', t, f, suffix) = File(disk, t, f, suffix)
    <3>1. \/ File(Stored(names, None), t, f, suffix) = None
          \/ File(Stored(names, None), t, f, suffix) = File(disk, t, f, suffix)
      BY StoredEither
    <3> QED
      BY <3>1, <2>1
  <2>3. ASSUME NEW t \in 0 .. LastTrack, NEW f \in Formats, NEW suffix \in Suffixes
        PROVE  /\ suffix # "" /\ File(disk', t, f, suffix) # None =>
                    suffix = SuffixOf(pass.kind) /\ t = track /\ out <= f
               /\ suffix = "" => File(disk', t, f, suffix)[1] # "part"
    <3>1. CASE File(disk', t, f, suffix) = None
      BY <3>1, NoneIsNoPart
    <3>2. CASE File(disk', t, f, suffix) = File(disk, t, f, suffix)
      BY <3>2, <2>1 DEF HalfOK
    <3> QED
      BY <2>2, <3>1, <3>2
  <2> QED
    BY <2>1, <2>3 DEF HalfOK
<1>15. CASE Rename
  <2> DEFINE later == {f \in Formats : f > out}
  <2>1. /\ UNCHANGED <<track, pass>> /\ wpc = "rename" /\ out \in Formats /\ pass.kind = "second"
        /\ \/ later = {} /\ wpc' = "record"
           \/ later # {} /\ out' = Least(later) /\ wpc' = "replace"
    BY <1>15, <1>a DEF Rename, ShapeOK
  <2>2. ASSUME NEW t \in 0 .. LastTrack, NEW f \in Formats, NEW suffix \in Suffixes, t # track \/ f # out
        PROVE  File(disk', t, f, suffix) = File(disk, t, f, suffix)
    BY <1>15, <1>a, <2>2, RenameWrites
  <2>3. ASSUME NEW suffix \in Suffixes PROVE Tidy(disk', track, out, suffix)
    <3>1. File(disk', track, out, "") = File(disk, track, out, ".tmp") /\ File(disk', track, out, ".tmp") = None
      BY <1>15, <1>a, <2>1, RenameWrites
    <3>2. File(disk, track, out, ".tmp")[1] # "part"
      <4>1. File(disk, track, out, ".tmp") = got.rg
        <5>1. ~(out < out)
          BY <2>1, FormatLeast
        <5> QED
          BY <2>1, <5>1 DEF RecInv, KeptOK
      <4>2. IsWhole(got.rg)
        BY <2>1 DEF RecInv, KeptOK, Sound, Held
      <4> QED
        BY <4>1, <4>2 DEF IsWhole
    <3>3. ASSUME suffix # "", suffix # ".tmp" PROVE File(disk', track, out, suffix) = None
      <4>1. File(disk', track, out, suffix) = File(disk, track, out, suffix)
        BY <1>15, <1>a, <2>1, <3>3, RenameWrites
      <4> QED
        BY <4>1, <2>1, <1>a, <3>3 DEF HalfOK, SuffixOf
    <3> QED
      BY <3>1, <3>2, <3>3 DEF Tidy
  <2>4. CASE later = {} /\ wpc' = "record"
    <3>1. ASSUME NEW t \in 0 .. LastTrack, NEW f \in Formats, NEW suffix \in Suffixes, t # track \/ f # out
          PROVE  Tidy(disk', t, f, suffix)
      <4>1. ~(f > out) /\ (f # out => ~(out <= f))
        BY <2>1, <2>4, FormatLeast
      <4> QED
        <5>1. File(disk', t, f, suffix) = File(disk, t, f, suffix)
          BY <2>2, <3>1
        <5>2. CASE suffix = ""
          BY <5>1, <5>2, <2>1 DEF HalfOK, Tidy
        <5>3. CASE suffix # ""
          BY <5>1, <5>3, <4>1, <2>1, <3>1 DEF HalfOK, Tidy
        <5> QED
          BY <5>2, <5>3
    <3> QED
      BY <2>3, <3>1, <1>1
  <2>5. CASE later # {} /\ out' = Least(later) /\ wpc' = "replace"
    <3>1. \A f \in Formats : f > out => out' <= f
      BY <2>5, FormatLater
    <3>2. \A f \in Formats : f # out /\ out <= f => out' <= f
      BY <2>1, <3>1, FormatLeast
    <3>3. ASSUME NEW t \in 0 .. LastTrack, NEW f \in Formats, NEW suffix \in Suffixes, t # track \/ f # out
          PROVE  /\ suffix # "" /\ File(disk', t, f, suffix) # None =>
                      suffix = SuffixOf(pass.kind) /\ t = track /\ out' <= f
                 /\ suffix = "" => File(disk', t, f, suffix)[1] # "part"
      <4>1. File(disk', t, f, suffix) = File(disk, t, f, suffix)
        BY <2>2, <3>3
      <4> QED
        BY <4>1, <3>2, <3>3, <2>1 DEF HalfOK
    <3>4. SuffixOf(pass'.kind) = SuffixOf(pass.kind)
      BY <2>1
    <3> QED
      BY <2>1, <2>3, <2>5, <3>3, <3>4 DEF HalfOK, Tidy
  <2> QED
    BY <2>1, <2>4, <2>5
<1> QED
  BY <1>4, <1>5, <1>6, <1>7, <1>8, <1>9, <1>10, <1>11, <1>12, <1>13, <1>14, <1>15 DEF Next, Worker, RipTrack

\* Once the worker is gone no half of a track and no temporary file is left, whatever failed and
\* whenever the user gave up.
THEOREM NothingLeftBehind == ASSUME ~RenameFails PROVE Spec => []NothingHalfDone
<1>1. Init => HalfOK
  <2> SUFFICES ASSUME Init, NEW t \in 0 .. LastTrack, NEW f \in Formats, NEW suffix \in Suffixes
               PROVE  Tidy(disk, t, f, suffix)
    BY DEF HalfOK, Tidy
  <2>1. File(disk, t, f, suffix) = None
    BY DEF Init, File, Names
  <2> QED
    BY <2>1, NoneIsNoPart DEF Tidy
<1>2. RecInv /\ HalfOK => NothingHalfDone
  <2> SUFFICES ASSUME HalfOK, wpc = "idle", NEW n \in Names
               PROVE  IF n[3] = "" THEN disk[n][1] # "part" ELSE disk[n] = None
    BY DEF NothingHalfDone
  <2>1. PICK t \in 0 .. LastTrack, f \in Formats, suffix \in Suffixes : n = <<t, f, suffix>>
    BY DEF Names
  <2>2. n[3] = suffix /\ disk[n] = File(disk, t, f, suffix)
    BY <2>1 DEF File
  <2> QED
    BY <2>2 DEF HalfOK, Judged, Replacing
<1> QED
  BY InitRec, RecKept, HalfKept, <1>1, <1>2, PTL DEF Spec


-----------------------------------------------------------------------------
(* A rip that reports success is complete. *)

LEMMA RippedIs ==
  ASSUME ResultsOK, ~RenameFails, NEW t \in Tracks, Ripped(t)
  PROVE  results[t].loud # None /\ \A f \in Formats : File(disk, t, f, "") # None /\ IsWhole(File(disk, t, f, ""))
BY DEF ResultsOK, Ripped, Sound, Held

\* Nothing that went wrong is forgotten before the next rip.
LEMMA CleanBefore ==
  ASSUME ShapeOK, [Next]_vars, ~Start, Clean'
  PROVE  Clean /\ UNCHANGED <<mode, cancel>>
<1>1. anyError => anyError'
  BY DEF Next, Worker, RipTrack, vars, Cancel, Cancelled, Setup, FetchARData, NextTrack, TracksOver, RipOpen, RipBlock,
     RipFlush, RipReturn, Verify, TryOffset, OffsetTried, Compare, Replace, Rename, Checked, Record, HiddenTrack, HiddenDone,
     AlbumGain, TagFile, WriteCue, WriteM3U, Finish, Inactive, ui, job, current, offsets, lists, ends, Work, Reading, Judging
<1>2. mode' = mode /\ (cancel => cancel')
  BY ResultsChange DEF Record, ui, job
<1>3. UNCHANGED cancel \/ cancel'
  BY DEF Next, Worker, RipTrack, vars, Cancel, Cancelled, Setup, FetchARData, NextTrack, TracksOver, RipOpen, RipBlock,
     RipFlush, RipReturn, Verify, TryOffset, OffsetTried, Compare, Replace, Rename, Checked, Record, HiddenTrack, HiddenDone,
     AlbumGain, TagFile, WriteCue, WriteM3U, Finish, Inactive, ui, Work, Reading, Judging
<1> QED
  BY <1>1, <1>2, <1>3 DEF Clean, IsLocal

LEMMA TracksDoneKept == RecInv /\ TracksDone /\ [Next]_vars => TracksDone'
<1> SUFFICES ASSUME RecInv, TracksDone, [Next]_vars PROVE TracksDone'
  OBVIOUS
<1> USE DEF ui, job, current, offsets, lists, ends, Work, Reading, Judging, Kept, BeforeHidden, OnTrack, AfterTracks, Passing,
      Judging1, Replacing
<1>1. CASE Start
  <2>1. todo' = plan' /\ wpc' \in {"idle", "setup"}
    BY <1>1 DEF Start
  <2> QED
    BY <2>1 DEF TracksDone
<1>2. CASE ~Clean'
  BY <1>2 DEF TracksDone
<1> SUFFICES ASSUME ~Start, Clean' PROVE TracksDone'
  BY <1>1, <1>2
<1>a. Clean /\ UNCHANGED <<mode, cancel>> /\ ShapeOK /\ pass.kind \in Kinds
  BY CleanBefore, KindIs DEF RecInv
<1>4. CASE UNCHANGED vars \/ Cancel \/ Cancelled \/ TryOffset \/ OffsetTried \/ Checked \/ HiddenDone \/ TagFile
           \/ WriteCue \/ WriteM3U \/ Finish \/ Inactive \/ Setup \/ FetchARData
  BY <1>4, <1>a DEF vars, Cancel, Cancelled, TryOffset, OffsetTried, Checked, HiddenDone, TagFile, WriteCue, WriteM3U, Finish,
     Inactive, Setup, FetchARData, Begin, TracksDone, Ripped, ShapeOK
<1>5. CASE RipTrack
  BY <1>5, <1>a, BlockIs, FlushIs DEF RipTrack, RipOpen, RipBlock, RipFlush, RipReturn, After, Kinds, TracksDone, Ripped
<1>6. CASE NextTrack
  <2>1. /\ wpc = "track" /\ wpc' = "open" /\ pass'.kind = "first" /\ UNCHANGED <<plan, results>>
        /\ track' \in todo /\ todo' = todo \ {track'}
    BY <1>6, <1>a, LeastTrack DEF NextTrack, Begin
  <2> QED
    BY <2>1, <1>a DEF TracksDone, Ripped
<1>7. CASE TracksOver
  <2>1. wpc = "track" /\ wpc' = "hidden" /\ todo = {} /\ UNCHANGED <<plan, results>>
    BY <1>7, <1>a DEF TracksOver, Clean
  <2> QED
    BY <2>1, <1>a DEF TracksDone, Ripped
<1>8. CASE Verify
  <2>1. wpc = "verify" /\ ~NoAudio /\ kept' = got /\ got.crc # None /\ UNCHANGED <<plan, todo, track, results>>
    BY <1>8, <1>a DEF Verify, NoAudio, Clean
  <2>2. wpc' \in {"probe", "record"} \/ (wpc' = "open" /\ pass'.kind \in {"second", "check"})
    BY <1>8, <2>1 DEF Verify, Begin
  <2> QED
    BY <2>1, <2>2, <1>a DEF TracksDone, Ripped
<1>9. CASE Compare \/ Replace
  BY <1>9, <1>a DEF Compare, Replace, TracksDone, Ripped
<1>10. CASE Rename
  <2>1. /\ wpc = "rename" /\ wpc' \in {"record", "replace"} /\ (wpc' = "record" => kept' = got)
        /\ got.crc # None /\ UNCHANGED <<plan, todo, track, results>>
    BY <1>10 DEF Rename, RecInv, KeptOK, Replaced
  <2> QED
    BY <2>1, <1>a DEF TracksDone, Ripped
<1>11. CASE Record
  <2>1. /\ wpc = "record" /\ wpc' = "track" /\ results' = [results EXCEPT ![track] = kept] /\ UNCHANGED <<plan, todo, track>>
        /\ DOMAIN results = Tracks /\ plan \subseteq Tracks
    BY <1>11, <1>a DEF Record, ShapeOK
  <2>2. \A t \in Tracks : results'[t] = IF t = track THEN kept ELSE results[t]
    BY <2>1
  <2> QED
    BY <2>1, <2>2, <1>a DEF TracksDone, Ripped
<1>12. CASE HiddenTrack \/ AlbumGain
  BY <1>12, <1>a DEF HiddenTrack, AlbumGain, Begin, TracksDone, Ripped
<1> QED
  BY <1>4, <1>5, <1>6, <1>7, <1>8, <1>9, <1>10, <1>11, <1>12 DEF Next, Worker


\* What tagging a track may change.
LEMMA TagIs ==
  ASSUME NEW t, Tag(t)
  PROVE  /\ tagged \subseteq tagged' /\ skipped \subseteq skipped'
         /\ Untagged(t) \subseteq tagged' \cup skipped'
         /\ CueFile \in skipped' => CueFile \in skipped
         /\ ListFile \in skipped' => ListFile \in skipped
<1>1. \A n \in Untagged(t) : n[3] = ""
  BY DEF Untagged, Outs
<1>2. CueFile[3] # "" /\ ListFile[3] # ""
  BY DEF CueFile, ListFile
<1>3. CASE tagged' = tagged \cup Untagged(t) /\ UNCHANGED skipped
  BY <1>3
<1>4. CASE \E n \in Untagged(t) : tagged' = tagged \cup (Untagged(t) \ {n}) /\ skipped' = skipped \cup {n}
  BY <1>1, <1>2, <1>4
<1> QED
  BY <1>3, <1>4 DEF Tag

LEMMA ListsUnwrittenKept == ListsUnwritten /\ [Next]_vars => ListsUnwritten'
<1> SUFFICES ASSUME ListsUnwritten, [Next]_vars PROVE ListsUnwritten'
  OBVIOUS
<1> USE DEF ui, job, current, offsets, lists, ends, Work, Reading, Judging
<1>1. CASE UNCHANGED vars \/ Cancel \/ Cancelled \/ Start
  BY <1>1 DEF vars, Cancel, Cancelled, Start, ListsUnwritten
<1>2. CASE HiddenDone
  <2>1. wpc = "hiddenDone" /\ wpc' = "album" /\ UNCHANGED <<cue, m3u>> /\ (UNCHANGED skipped \/ Tag(0))
    BY <1>2 DEF HiddenDone
  <2> QED
    BY <2>1, TagIs DEF ListsUnwritten
<1>3. CASE TagFile
  <2>1. wpc = "tag" /\ wpc' = "tag" /\ UNCHANGED <<cue, m3u>> /\ Tag(Least(todo))
    BY <1>3 DEF TagFile
  <2> QED
    BY <2>1, TagIs DEF ListsUnwritten
<1>4. CASE WriteCue
  <2>1. CueFile # ListFile
    BY DEF CueFile, ListFile
  <2>2. wpc = "tag" /\ wpc' = "m3u" /\ UNCHANGED m3u /\ skipped' \subseteq skipped \cup {CueFile}
    BY <1>4 DEF WriteCue
  <2> QED
    BY <2>1, <2>2 DEF ListsUnwritten
<1>5. CASE WriteM3U \/ Finish \/ Inactive
  BY <1>5 DEF WriteM3U, Finish, Inactive, ListsUnwritten
<1>6. CASE Setup \/ FetchARData \/ NextTrack \/ TracksOver \/ RipTrack \/ Verify \/ TryOffset \/ OffsetTried \/ Compare \/ Replace
           \/ Rename \/ Checked \/ Record \/ HiddenTrack \/ AlbumGain
  <2>1. /\ wpc \notin {"m3u", "finish", "idle"} /\ UNCHANGED <<cue, m3u, skipped>>
        /\ wpc = "inactive" => wpc' = "inactive"
    BY <1>6 DEF Setup, FetchARData, NextTrack, TracksOver, RipTrack, RipOpen, RipBlock, RipFlush, RipReturn, After, Verify, TryOffset,
       OffsetTried, Compare, Replace, Rename, Checked, Record, HiddenTrack, AlbumGain, Begin
  <2> QED
    BY <2>1 DEF ListsUnwritten
<1> QED
  BY <1>1, <1>2, <1>3, <1>4, <1>5, <1>6 DEF Next, Worker

LEMMA ListsDoneKept ==
  ASSUME ~RenameFails PROVE RecInv /\ TracksDone /\ ListsUnwritten /\ ListsDone /\ [Next]_vars => ListsDone'
<1> SUFFICES ASSUME RecInv, TracksDone, ListsUnwritten, ListsDone, [Next]_vars PROVE ListsDone'
  OBVIOUS
<1> USE DEF ui, job, current, offsets, lists, ends, Work, Reading, Judging
<1> DEFINE Listed == {"tag", "m3u", "finish"}
<1>1. CASE wpc' \notin Listed \/ ~Clean'
  BY <1>1 DEF ListsDone
<1>2. CASE Start
  BY <1>1, <1>2 DEF Start
<1> SUFFICES ASSUME wpc' \in Listed, Clean', ~Start PROVE ListsDone'
  BY <1>1, <1>2
<1>a. Clean /\ UNCHANGED cancel /\ ~cancel /\ plan \subseteq Tracks /\ todo \subseteq plan /\ 0 \notin Tracks /\ Taggable \subseteq Formats
  BY CleanBefore, RipAssumption DEF RecInv, ShapeOK, Clean, Tracks
<1>b. ASSUME NEW t \in Tracks, Ripped(t), Tag(t)
      PROVE  IsTagged(t)'
  <2>1. ASSUME NEW f \in Taggable PROVE <<t, f, "">> \in Untagged(t)
    <3>1. disk[<<t, f, "">>] # None
      BY <1>a, <1>b, RippedIs DEF RecInv, File
    <3> QED
      BY <1>a, <3>1 DEF Untagged, Outs
  <2> QED
    BY <1>b, <2>1, TagIs DEF IsTagged
<1>3. CASE UNCHANGED vars \/ Cancel \/ Cancelled
  BY <1>3, <1>a DEF vars, Cancel, Cancelled, ListsDone, IsTagged, CueDone, ListDone
<1>4. CASE AlbumGain
  <2>1. /\ wpc = "album" /\ wpc' = "tag" /\ todo' = plan /\ plan' = plan
        /\ (WholeDisc(plan) => album' = {t \in Tracks : results[t].loud # None})
    BY <1>4 DEF AlbumGain
  <2>2. \A t \in plan : results[t].loud # None
    BY <1>a, <2>1, RippedIs DEF TracksDone, AfterTracks, RecInv
  <2>3. WholeDisc(plan) => album' = Tracks
    BY <2>1, <2>2 DEF WholeDisc
  <2> QED
    BY <2>1, <2>3 DEF ListsDone, WholeDisc
<1>5. CASE TagFile
  <2>0. PICK u \in todo : u = Least(todo)
    BY <1>5, LeastTrack DEF TagFile, RecInv
  <2>1. wpc = "tag" /\ wpc' = "tag" /\ todo' = todo \ {u} /\ Tag(u) /\ UNCHANGED <<plan, album>>
    BY <1>5, <2>0 DEF TagFile
  <2>2. u \in Tracks /\ Ripped(u)
    BY <1>a, <2>1 DEF TracksDone, AfterTracks
  <2>3. IsTagged(u)'
    BY <1>b, <2>1, <2>2
  <2>4. ASSUME NEW t, IsTagged(t) PROVE IsTagged(t)'
    BY <2>1, <2>4, TagIs DEF IsTagged
  <2>5. \A t \in plan \ todo' : IsTagged(t)'
    BY <1>a, <2>1, <2>3, <2>4 DEF ListsDone
  <2> QED
    BY <1>a, <2>1, <2>5 DEF ListsDone, WholeDisc
<1>6. CASE WriteCue
  <2>1. /\ wpc = "tag" /\ wpc' = "m3u" /\ todo = {} /\ UNCHANGED <<plan, album, tagged>> /\ skipped \subseteq skipped'
        /\ WholeDisc(plan) => \/ cue' = Listing /\ UNCHANGED skipped
                              \/ UNCHANGED cue /\ skipped' = skipped \cup {CueFile}
    BY <1>6, <1>a DEF WriteCue
  <2>2. WholeDisc(plan) => CueDone'
    BY <1>a, <2>1 DEF WholeDisc, Listing, CueDone, ListsUnwritten
  <2> QED
    BY <1>a, <2>1, <2>2 DEF ListsDone, WholeDisc, IsTagged
<1>7. CASE WriteM3U
  <2>1. /\ wpc = "m3u" /\ wpc' = "finish" /\ UNCHANGED <<plan, album, tagged, cue>>
        /\ \/ m3u' = Listing /\ UNCHANGED skipped
           \/ UNCHANGED m3u /\ skipped' = skipped \cup {ListFile}
    BY <1>7, <1>a DEF WriteM3U
  <2>2. ListDone'
    BY <1>a, <2>1 DEF Listing, ListDone, ListsUnwritten
  <2>3. CueDone => CueDone'
    BY <2>1 DEF CueDone, CueFile, ListFile
  <2> QED
    BY <1>a, <2>1, <2>2, <2>3 DEF ListsDone, WholeDisc, IsTagged
<1>8. CASE Setup \/ FetchARData \/ NextTrack \/ TracksOver \/ RipTrack \/ Verify \/ TryOffset \/ OffsetTried \/ Compare \/ Replace
           \/ Rename \/ Checked \/ Record \/ HiddenTrack \/ HiddenDone \/ Finish \/ Inactive
  <2>1. wpc' \notin Listed
    BY <1>8 DEF Setup, FetchARData, NextTrack, TracksOver, RipTrack, RipOpen, RipBlock, RipFlush, RipReturn, After, Verify, TryOffset,
       OffsetTried, Compare, Replace, Rename, Checked, Record, HiddenTrack, HiddenDone, Finish, Inactive, Begin
  <2> QED
    BY <2>1
<1> QED
  BY <1>2, <1>3, <1>4, <1>5, <1>6, <1>7, <1>8 DEF Next, Worker

LEMMA StateDoneKept == ASSUME ~RenameFails PROVE RecInv /\ TracksDone /\ ListsDone /\ StateDone /\ [Next]_vars => StateDone'
<1> SUFFICES ASSUME RecInv, TracksDone, ListsDone, StateDone, [Next]_vars PROVE StateDone'
  OBVIOUS
<1> USE DEF ui, job, current, offsets, lists, ends, Work, Reading, Judging
<1>1. CASE state' # "Done"
  BY <1>1 DEF StateDone
<1>2. CASE state = "Done"
  <2>1. wpc \in {"inactive", "idle"} /\ DoneIsComplete
    BY <1>2 DEF StateDone
  <2>2. CASE UNCHANGED vars \/ Cancel \/ Inactive
    BY <2>1, <2>2 DEF vars, Cancel, Inactive, StateDone, DoneIsComplete, IsLocal, IsWhole, WholeDisc
  <2>3. CASE Start \/ Cancelled
    BY <1>1, <2>3 DEF Start, Cancelled
  <2> QED
    BY <2>1, <2>2, <2>3 DEF Next, Worker, RipTrack, Setup, FetchARData, NextTrack, TracksOver, RipOpen, RipBlock, RipFlush,
       RipReturn, Verify, TryOffset, OffsetTried, Compare, Replace, Rename, Checked, Record, HiddenTrack, HiddenDone, AlbumGain,
       TagFile, WriteCue, WriteM3U, Finish
<1>3. CASE state # "Done" /\ state' = "Done"
  <2>1. Finish
    BY <1>3 DEF Next, Worker, vars, Start, Cancel, Cancelled, RipTrack, Setup, FetchARData, NextTrack, TracksOver, RipOpen, RipBlock,
       RipFlush, RipReturn, Verify, TryOffset, OffsetTried, Compare, Replace, Rename, Checked, Record, HiddenTrack, HiddenDone,
       AlbumGain, TagFile, WriteCue, WriteM3U, Inactive
  <2>2. /\ wpc = "finish" /\ wpc' = "inactive" /\ ~cancel /\ ~anyError
        /\ UNCHANGED <<mode, plan, disk, tagged, m3u, cue, album, skipped>>
    BY <2>1, <1>3 DEF Finish
  <2>3. ASSUME ~IsLocal, NEW t \in plan, NEW f \in Formats
        PROVE  IsWhole(disk[<<t, f, "">>]) /\ (f \in Taggable => <<t, f, "">> \in tagged \cup skipped)
    <3>1. Clean /\ t \in Tracks
      BY <2>2, <2>3 DEF Clean, RecInv, ShapeOK
    <3>2. Ripped(t)
      BY <2>2, <3>1 DEF TracksDone, AfterTracks
    <3>3. IsWhole(disk[<<t, f, "">>])
      BY <3>1, <3>2, RippedIs DEF RecInv, File
    <3> QED
      BY <2>2, <3>1, <3>3 DEF ListsDone, IsTagged
  <2>4. ~IsLocal => ListDone /\ (WholeDisc(plan) => CueDone /\ album = Tracks)
    BY <2>2 DEF ListsDone, Clean
  <2>5. DoneIsComplete'
    BY <2>2, <2>3, <2>4 DEF DoneIsComplete, IsLocal, WholeDisc, IsWhole, ListDone, CueDone
  <2> QED
    BY <2>2, <2>5 DEF StateDone
<1> QED
  BY <1>1, <1>2, <1>3

\* A rip that reports success, in a mode that has checksums, has made every file of the selection
\* and measured the album over all of it; tags, playlist and cue sheet are there as well, but for
\* those whose own write failed.
THEOREM SuccessIsComplete == ASSUME ~RenameFails PROVE Spec => []DoneIsComplete
<1>1. Init => DoneOK
  BY DEF Init, DoneOK, TracksDone, ListsUnwritten, ListsDone, StateDone, Kept, BeforeHidden, OnTrack, AfterTracks, Passing, Judging1,
     Replacing
<1>2. RecInv /\ DoneOK /\ [Next]_vars => DoneOK'
  BY TracksDoneKept, ListsUnwrittenKept, ListsDoneKept, StateDoneKept DEF DoneOK
<1>3. DoneOK => DoneIsComplete
  BY DEF DoneOK, StateDone, DoneIsComplete
<1> QED
  BY InitRec, RecKept, <1>1, <1>2, <1>3, PTL DEF Spec
=============================================================================
