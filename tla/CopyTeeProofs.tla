---------------------------- MODULE CopyTeeProofs ----------------------------
(***************************************************************************)
(* What CopyTee guarantees for every size of the ring, of a pull and of    *)
(* what the producer receives at once, any number of reconnects and titles *)
(* and every split offset, whatever the producer overwrites and when.      *)
(***************************************************************************)
EXTENDS CopyTee, SequenceTheorems, TLAPS

\* What the producer has done, with the parts it has not published yet.
World == [tee |-> tee, top |-> teeW + burst, sent |-> sent, jumps |-> jumps]

Part(w, p) == w.tee[Cell(p)]
InRing(w, p) == p \in Nat /\ p < w.top /\ w.top - p <= RingParts

\* The part at position p; at the top it is the one the station sends next.
PartOrNext(w, p) == IF p = w.top THEN w.sent ELSE Part(w, p)

\* b comes right after a, or did so at a reconnect.
Follows(w, a, b) == b = a + 1 \/ <<a, b>> \in w.jumps

RingOK(w) ==
  /\ w.top \in Nat /\ w.sent \in Nat
  /\ \A p \in Nat : InRing(w, p) => Part(w, p) \in Nat /\ Part(w, p) < w.sent
  /\ \A p \in Nat : InRing(w, p) => Follows(w, Part(w, p), PartOrNext(w, p + 1))
  /\ \A p, q \in Nat : InRing(w, p) /\ InRing(w, q) /\ p < q => Part(w, p) < Part(w, q)

\* Part v comes right before what is at p, and before all that follows.
Linked(w, v, p) == InRing(w, p) \/ p = w.top => Follows(w, v, PartOrNext(w, p))
Before(w, v, p) == v < w.sent /\ \A q \in Nat : InRing(w, q) /\ p <= q => v < Part(w, q)

\* The parts s are in the order of the station, after the filed frames f, and what is in the
\* ring from p on continues them.
Run(w, f, s, p) ==
  /\ \A i \in DOMAIN s : i + 1 \in DOMAIN s => Follows(w, s[i], s[i + 1])
  /\ \A i, j \in DOMAIN s : i < j => s[i] < s[j]
  /\ \A i \in DOMAIN s : Before(w, s[i], p)
  /\ s # <<>> => Linked(w, s[Len(s)], p)
  /\ \A k \in DOMAIN f : Before(w, f[k][2], p) /\ \A i \in DOMAIN s : f[k][2] < s[i]

TypeOK ==
  /\ sent \in Nat /\ teeW \in Nat /\ burst \in 0 .. RingParts /\ tee \in [0 .. RingParts - 1 -> Nat]
  /\ teeR \in Nat /\ teeR <= teeW /\ seen \in Nat /\ place \in Places
  /\ disc \in BOOLEAN /\ teeDiscont \in BOOLEAN
  /\ got \in Seq(Nat) /\ buf \in Seq(Nat) /\ filed \in Seq(Nat \X Nat)
  /\ was \in [0 .. RingParts - 1 -> Nat] /\ torn \in BOOLEAN /\ spoilt \in Nat /\ spoilt <= Len(buf)
  /\ place = "copy" => teeR < seen /\ seen <= teeW
  /\ place = "check" => got # <<>> /\ teeR + Len(got) <= teeW

\* s without its first d parts.
Drop(s, d) == [i \in 1 .. Len(s) - d |-> s[i + d]]

\* What has been pulled and not been filed, from behind the last torn pull on; a gap that was
\* noticed drops what came before it.
Clean == Drop(buf, spoilt)
Rest  == IF disc THEN <<>> ELSE Clean
Pulled == CASE place = "append" -> IF torn THEN <<>> ELSE Rest \o got
            [] place \in {"copy", "check"} -> Rest
            [] OTHER -> Clean

\* A pull that has copied is a run with what came before, if no write had reached it then and it
\* has not been lapped by now.
PullOK ==
  /\ place # "exit" => Run(World, filed, Pulled, teeR)
  /\ place = "check" /\ ~torn /\ ~Lapped(teeW) => Run(World, filed, Rest \o got, teeR + Len(got))

TeeInv == TypeOK /\ RingOK(World) /\ PullOK /\ FramesWhole

\* The worker will not pull again, or not before it has been told that it has pulled nothing.
LastPulled == \/ place \in {"append", "parse", "roll", "dry"} /\ got = <<>>
              \/ place = "exit" /\ Len(buf) < 2

Drained == teeR >= owed \/ teeW - teeR >= RingParts

TailInv ==
  /\ TypeOK
  /\ owed \in Nat /\ owed <= teeW
  /\ ui = "join" /\ LastPulled => Drained

-----------------------------------------------------------------------------
(* The cells of the ring. *)

LEMMA Bounds ==
  /\ RingParts \in Nat /\ RingParts >= 1 /\ Cap \in Nat /\ Cap >= 1
  /\ \A n \in 1 .. MaxBurst : n \in Nat /\ n >= 1 /\ n <= RingParts
BY TeeAssumption

LEMMA DivMod ==
  ASSUME NEW r \in Nat \ {0}, NEW a \in Nat
  PROVE  a = r * (a \div r) + (a % r) /\ a % r \in 0 .. r - 1 /\ a \div r \in Nat
OBVIOUS

LEMMA Times ==
  ASSUME NEW r \in Nat \ {0}, NEW d \in Int, NEW e \in Int
  PROVE  (d >= 1 => r * d >= r) /\ (d <= 0 => r * d <= 0) /\ r * d - r * e = r * (d - e)
OBVIOUS

\* Positions less than a ring apart have different cells.
LEMMA CellsDiffer ==
  ASSUME NEW p \in Nat, NEW q \in Nat, p < q, q - p < RingParts
  PROVE  Cell(p) # Cell(q)
<1> DEFINE d == (q \div RingParts) - (p \div RingParts)
<1>1. SUFFICES ASSUME p % RingParts = q % RingParts PROVE FALSE
  BY DEF Cell
<1>2. RingParts \in Nat \ {0}
  BY Bounds
<1>3. d \in Int /\ q - p = RingParts * d
  BY <1>1, <1>2, DivMod, Times
<1>4. (d >= 1 => RingParts * d >= RingParts) /\ (d <= 0 => RingParts * d <= 0)
  BY <1>2, <1>3, Times
<1> HIDE DEF d
<1> QED
  BY <1>2, <1>3, <1>4

LEMMA CellIn == ASSUME NEW p \in Nat PROVE Cell(p) \in 0 .. RingParts - 1
BY Bounds, DivMod DEF Cell

LEMMA WorldIs == World.tee = tee /\ World.top = teeW + burst /\ World.sent = sent /\ World.jumps = jumps
BY DEF World

\* The producer writes the parts of a burst above those in the ring, and overwrites only cells that
\* are then a ring behind.
LEMMA TeeCopyIs ==
  ASSUME TypeOK, TeeCopy
  PROVE  \E n \in 1 .. RingParts :
           /\ World'.top = World.top + n /\ World'.sent = World.sent + n /\ World'.jumps = World.jumps
           /\ \A p \in Nat : InRing(World', p) =>
                /\ p < World.top => InRing(World, p) /\ Part(World', p) = Part(World, p)
                /\ p >= World.top => Part(World', p) = World.sent + (p - World.top)
           /\ burst' \in 0 .. RingParts /\ tee' \in [0 .. RingParts - 1 -> Nat]
<1>1. PICK n \in 1 .. MaxBurst :
        /\ burst = 0 /\ burst' = n /\ sent' = sent + n /\ UNCHANGED <<teeW, jumps>>
        /\ tee' = [c \in DOMAIN tee |->
                     IF \E i \in 0 .. n - 1 : c = Cell(teeW + i)
                     THEN sent + (CHOOSE i \in 0 .. n - 1 : c = Cell(teeW + i)) ELSE tee[c]]
  BY DEF TeeCopy
<1>2. /\ n \in Nat /\ n >= 1 /\ n <= RingParts /\ RingParts \in Nat /\ teeW \in Nat /\ sent \in Nat
      /\ DOMAIN tee = 0 .. RingParts - 1
  BY Bounds DEF TypeOK
<1>3. World.top = teeW /\ World'.top = teeW + n /\ World'.sent = sent + n /\ World'.jumps = jumps
      /\ World'.tee = tee' /\ World.tee = tee /\ World.sent = sent /\ World.jumps = jumps
  BY <1>1, <1>2 DEF World
<1>4. ASSUME NEW p \in Nat, InRing(World', p), p < teeW
      PROVE  InRing(World, p) /\ tee'[Cell(p)] = tee[Cell(p)]
  <2>1. teeW + n - p <= RingParts
    BY <1>2, <1>3, <1>4 DEF InRing
  <2>2. \A i \in 0 .. n - 1 : Cell(p) # Cell(teeW + i)
    BY <1>2, <1>4, <2>1, CellsDiffer
  <2>3. tee'[Cell(p)] = tee[Cell(p)]
    BY <1>1, <1>2, <2>2, CellIn
  <2> QED
    BY <1>2, <1>3, <1>4, <2>1, <2>3 DEF InRing
<1>5. ASSUME NEW p \in Nat, InRing(World', p), p >= teeW
      PROVE  tee'[Cell(p)] = sent + (p - teeW)
  <2>1. p - teeW \in 0 .. n - 1 /\ p = teeW + (p - teeW)
    BY <1>2, <1>3, <1>5 DEF InRing
  <2>2. ASSUME NEW i \in 0 .. n - 1, Cell(p) = Cell(teeW + i) PROVE i = p - teeW
    <3>1. teeW + i \in Nat /\ i \in Nat
      BY <1>2
    <3>2. ~(teeW + i < p)
      BY <1>2, <2>1, <2>2, <3>1, CellsDiffer
    <3>3. ~(p < teeW + i)
      BY <1>2, <2>1, <2>2, <3>1, CellsDiffer
    <3> QED
      BY <1>2, <2>1, <3>1, <3>2, <3>3
  <2>3. (CHOOSE i \in 0 .. n - 1 : Cell(p) = Cell(teeW + i)) = p - teeW
    BY <2>1, <2>2
  <2> QED
    BY <1>1, <1>2, <2>1, <2>3, CellIn
<1>6. tee' \in [0 .. RingParts - 1 -> Nat]
  <2>1. ASSUME NEW c \in 0 .. RingParts - 1 PROVE tee'[c] \in Nat
    <3>1. CASE \E i \in 0 .. n - 1 : c = Cell(teeW + i)
      <4>1. (CHOOSE i \in 0 .. n - 1 : c = Cell(teeW + i)) \in 0 .. n - 1
        BY <3>1
      <4>2. tee'[c] = sent + (CHOOSE i \in 0 .. n - 1 : c = Cell(teeW + i))
        BY <1>1, <1>2, <3>1
      <4> QED
        BY <1>2, <4>1, <4>2
    <3>2. CASE ~ \E i \in 0 .. n - 1 : c = Cell(teeW + i)
      BY <1>1, <1>2, <3>2 DEF TypeOK
    <3> QED
      BY <3>1, <3>2
  <2>2. DOMAIN tee' = 0 .. RingParts - 1 /\ tee' = [c \in DOMAIN tee' |-> tee'[c]]
    BY <1>1, <1>2
  <2> QED
    BY <2>1, <2>2
<1>7. n \in 1 .. RingParts /\ burst' \in 0 .. RingParts
  BY <1>1, <1>2
<1>8. ASSUME NEW p \in Nat, InRing(World', p)
      PROVE  /\ p < World.top => InRing(World, p) /\ Part(World', p) = Part(World, p)
             /\ p >= World.top => Part(World', p) = World.sent + (p - World.top)
  BY <1>3, <1>4, <1>5, <1>8 DEF Part
<1>9. World'.top = World.top + n /\ World'.sent = World.sent + n /\ World'.jumps = World.jumps
  BY <1>3
<1> QED
  BY <1>6, <1>7, <1>8, <1>9


-----------------------------------------------------------------------------
(* Runs. *)

\* What the producer does later keeps every run, up to the position it had reached.
Later(w, z) ==
  /\ z.sent >= w.sent /\ z.top >= w.top
  /\ \A a, b : Follows(w, a, b) => Follows(z, a, b)
  /\ \A p \in Nat : p >= w.top /\ InRing(z, p) => Part(z, p) >= w.sent
  /\ \A p \in Nat : p < w.top /\ InRing(z, p) => InRing(w, p) /\ Part(z, p) = Part(w, p)
  /\ \A v \in Nat : Follows(w, v, w.sent) => Follows(z, v, PartOrNext(z, w.top))

LEMMA LaterRun ==
  ASSUME NEW w, NEW z, RingOK(w), RingOK(z), Later(w, z), NEW f \in Seq(Nat \X Nat), NEW s \in Seq(Nat), NEW p \in Nat, p <= w.top,
         Run(w, f, s, p)
  PROVE  Run(z, f, s, p)
<1>1. ASSUME NEW v \in Nat, Before(w, v, p) PROVE Before(z, v, p)
  <2>1. v < z.sent
    BY <1>1 DEF Before, Later, RingOK
  <2>2. ASSUME NEW q \in Nat, InRing(z, q), p <= q PROVE v < Part(z, q)
    <3>1. CASE q < w.top
      BY <1>1, <2>2, <3>1 DEF Before, Later
    <3>2. CASE q >= w.top
      BY <1>1, <2>2, <3>2 DEF Before, Later, RingOK
    <3> QED
      BY <3>1, <3>2 DEF RingOK
  <2> QED
    BY <2>1, <2>2 DEF Before
<1>2. ASSUME NEW v \in Nat, Linked(w, v, p) PROVE Linked(z, v, p)
  <2>1. CASE p = w.top
    BY <1>2, <2>1 DEF Linked, Later, PartOrNext
  <2>2. CASE p < w.top
    <3>1. ASSUME InRing(z, p) \/ p = z.top PROVE Follows(z, v, PartOrNext(z, p))
      <4>1. p # z.top /\ InRing(z, p)
        BY <2>2, <3>1 DEF Later, RingOK
      <4>2. InRing(w, p) /\ Part(z, p) = Part(w, p)
        BY <2>2, <4>1 DEF Later
      <4>3. PartOrNext(z, p) = Part(z, p) /\ PartOrNext(w, p) = Part(w, p)
        BY <2>2, <4>1 DEF PartOrNext, RingOK
      <4> QED
        BY <1>2, <4>2, <4>3 DEF Linked, Later
    <3> QED
      BY <3>1 DEF Linked
  <2> QED
    BY <2>1, <2>2 DEF RingOK
<1>3. \A i \in DOMAIN s : s[i] \in Nat
  OBVIOUS
<1>4. \A k \in DOMAIN f : f[k][2] \in Nat
  OBVIOUS
<1>5. \A i \in DOMAIN s : i + 1 \in DOMAIN s => Follows(z, s[i], s[i + 1])
  BY DEF Run, Later
<1>6. ASSUME s # <<>> PROVE Linked(z, s[Len(s)], p)
  <2>1. Len(s) \in DOMAIN s
    BY <1>6
  <2> QED
    BY <1>2, <1>3, <1>6, <2>1 DEF Run
<1>7. \A i \in DOMAIN s : Before(z, s[i], p)
  BY <1>1, <1>3 DEF Run
<1>8. \A k \in DOMAIN f : Before(z, f[k][2], p)
  BY <1>1, <1>4 DEF Run
<1> QED
  BY <1>5, <1>6, <1>7, <1>8 DEF Run

\* A reader that skips bytes keeps nothing of what it had.
LEMMA SkippedRun ==
  ASSUME NEW w, NEW f, NEW s, NEW p \in Nat, NEW q \in Nat, p <= q, Run(w, f, s, p)
  PROVE  Run(w, f, <<>>, q)
<1>1. ASSUME NEW v, Before(w, v, p) PROVE Before(w, v, q)
  BY <1>1 DEF Before
<1> QED
  BY <1>1 DEF Run

LEMMA EmptyRun ==
  ASSUME NEW w, NEW f, NEW s, NEW p \in Nat, Run(w, f, s, p)
  PROVE  Run(w, f, <<>>, p)
BY SkippedRun

\* Pulling the next parts of the ring continues a run.
LEMMA PulledRun ==
  ASSUME NEW w, RingOK(w), NEW f \in Seq(Nat \X Nat), NEW s \in Seq(Nat), NEW p \in Nat, Run(w, f, s, p),
         NEW g \in Seq(Nat), g # <<>>, \A k \in DOMAIN g : InRing(w, p + k - 1) /\ g[k] = Part(w, p + k - 1)
  PROVE  Run(w, f, s \o g, p + Len(g))
<1> DEFINE n == Len(g)
           m == Len(s)
           t == s \o g
<1>1. n \in Nat /\ n >= 1 /\ m \in Nat /\ DOMAIN g = 1 .. n /\ DOMAIN s = 1 .. m /\ DOMAIN t = 1 .. m + n /\ Len(t) = m + n
  OBVIOUS
<1>2. \A i \in 1 .. m : t[i] = s[i] /\ s[i] \in Nat
  OBVIOUS
<1> DEFINE Pos(i) == p + (i - m) - 1
<1>3. ASSUME NEW i \in m + 1 .. m + n PROVE Pos(i) \in Nat /\ InRing(w, Pos(i)) /\ t[i] = Part(w, Pos(i))
  <2>0. i - m \in 1 .. n /\ t[i] = g[i - m]
    BY <1>1
  <2>1. PICK k \in 1 .. n : k = i - m
    BY <2>0
  <2>2. t[i] = g[k] /\ InRing(w, p + k - 1) /\ g[k] = Part(w, p + k - 1)
    BY <1>1, <2>0, <2>1
  <2>3. Pos(i) = p + k - 1 /\ Pos(i) \in Nat
    BY <1>1, <2>1
  <2> QED
    BY <2>2, <2>3
<1>p. /\ Pos(m + 1) = p /\ Pos(m + n) + 1 = p + n
      /\ \A i \in m + 1 .. m + n : p <= Pos(i) /\ Pos(i) < p + n /\ Pos(i + 1) = Pos(i) + 1
      /\ \A i, j \in m + 1 .. m + n : i < j => Pos(i) < Pos(j)
  BY <1>1
<1> HIDE DEF n, m, t, Pos
<1>4. \A i \in DOMAIN t : i \in 1 .. m \/ i \in m + 1 .. m + n
  BY <1>1
<1>5. ASSUME NEW i \in DOMAIN t, i + 1 \in DOMAIN t PROVE Follows(w, t[i], t[i + 1])
  <2>1. CASE i + 1 \in 1 .. m
    BY <1>1, <1>2, <1>5, <2>1 DEF Run
  <2>2. CASE i = m
    <3>1. t[m + 1] = Part(w, p) /\ InRing(w, p)
      <4>1. m + 1 \in m + 1 .. m + n
        BY <1>1
      <4> QED
        BY <1>3, <1>p, <4>1
    <3>2. Linked(w, s[m], p) /\ t[m] = s[m]
      BY <1>1, <1>2, <1>5, <2>2 DEF Run, m
    <3>3. PartOrNext(w, p) = Part(w, p)
      BY <3>1 DEF PartOrNext, InRing, RingOK
    <3> QED
      BY <2>2, <3>1, <3>2, <3>3 DEF Linked
  <2>3. CASE i > m
    <3>1. i \in m + 1 .. m + n /\ i + 1 \in m + 1 .. m + n
      BY <1>1, <1>5, <2>3
    <3>2. Pos(i) \in Nat /\ InRing(w, Pos(i)) /\ t[i] = Part(w, Pos(i))
      BY <1>3, <3>1
    <3>3. InRing(w, Pos(i) + 1) /\ t[i + 1] = Part(w, Pos(i) + 1)
      BY <1>3, <1>p, <3>1
    <3>4. PartOrNext(w, Pos(i) + 1) = Part(w, Pos(i) + 1)
      BY <3>2, <3>3 DEF PartOrNext, InRing, RingOK
    <3> QED
      BY <3>2, <3>3, <3>4 DEF RingOK
  <2> QED
    BY <1>1, <1>5, <2>1, <2>2, <2>3
<1>6. ASSUME NEW i \in m + 1 .. m + n, NEW v, Before(w, v, p) PROVE v < t[i]
  BY <1>3, <1>6, <1>p DEF Before
<1>7. ASSUME NEW i \in DOMAIN t, NEW j \in DOMAIN t, i < j PROVE t[i] < t[j]
  <2>1. CASE j \in 1 .. m
    <3>1. i \in DOMAIN s /\ j \in DOMAIN s
      BY <1>1, <1>7, <2>1
    <3> QED
      BY <1>1, <1>2, <1>7, <3>1 DEF Run
  <2>2. CASE i \in 1 .. m /\ j \in m + 1 .. m + n
    <3>1. Before(w, s[i], p) /\ t[i] = s[i]
      BY <1>1, <1>2, <2>2 DEF Run
    <3> QED
      BY <1>6, <2>2, <3>1
  <2>3. CASE i \in m + 1 .. m + n /\ j \in m + 1 .. m + n
    <3>1. Pos(i) < Pos(j)
      BY <1>7, <1>p, <2>3
    <3> QED
      BY <1>3, <2>3, <3>1 DEF RingOK
  <2> QED
    BY <1>1, <1>4, <1>7, <2>1, <2>2, <2>3
<1>8. ASSUME NEW v, Before(w, v, p) PROVE Before(w, v, p + n)
  BY <1>1, <1>8 DEF Before
<1>9. ASSUME NEW i \in DOMAIN t PROVE Before(w, t[i], p + n)
  <2>1. CASE i \in 1 .. m
    BY <1>1, <1>2, <1>8, <2>1 DEF Run
  <2>2. CASE i \in m + 1 .. m + n
    <3>1. Pos(i) \in Nat /\ InRing(w, Pos(i)) /\ t[i] = Part(w, Pos(i)) /\ Pos(i) < p + n
      BY <1>3, <1>p, <2>2
    <3>2. t[i] < w.sent
      BY <3>1 DEF RingOK
    <3>3. ASSUME NEW r \in Nat, InRing(w, r), p + n <= r PROVE t[i] < Part(w, r)
      BY <1>1, <3>1, <3>3 DEF RingOK
    <3> QED
      BY <3>2, <3>3 DEF Before
  <2> QED
    BY <1>4, <2>1, <2>2
<1>10. Linked(w, t[m + n], p + n)
  <2>1. m + n \in m + 1 .. m + n
    BY <1>1
  <2>2. Pos(m + n) \in Nat /\ InRing(w, Pos(m + n)) /\ t[m + n] = Part(w, Pos(m + n)) /\ Pos(m + n) + 1 = p + n
    BY <1>3, <1>p, <2>1
  <2> QED
    BY <2>2 DEF RingOK, Linked
<1>11. ASSUME NEW k \in DOMAIN f
       PROVE  Before(w, f[k][2], p + n) /\ \A i \in DOMAIN t : f[k][2] < t[i]
  BY <1>1, <1>2, <1>4, <1>6, <1>8 DEF Run
<1> QED
  BY <1>1, <1>5, <1>7, <1>9, <1>10, <1>11 DEF Run, t, n


-----------------------------------------------------------------------------
(* The producer. *)

LEMMA TeeCopyLater ==
  ASSUME TypeOK, RingOK(World), TeeCopy
  PROVE  RingOK(World') /\ Later(World, World')
<1>1. PICK n \in 1 .. RingParts :
           /\ World'.top = World.top + n /\ World'.sent = World.sent + n /\ World'.jumps = World.jumps
           /\ \A p \in Nat : InRing(World', p) =>
                /\ p < World.top => InRing(World, p) /\ Part(World', p) = Part(World, p)
                /\ p >= World.top => Part(World', p) = World.sent + (p - World.top)
  BY TeeCopyIs
<1>2. PICK w, z : w = World /\ z = World'
  OBVIOUS
<1>3. RingOK(w) /\ w.top \in Nat /\ w.sent \in Nat
  BY <1>2 DEF RingOK
<1>4. z.top = w.top + n /\ z.sent = w.sent + n /\ z.jumps = w.jumps
  BY <1>1, <1>2
<1>5. ASSUME NEW p \in Nat, InRing(z, p), p < w.top PROVE InRing(w, p) /\ Part(z, p) = Part(w, p)
  BY <1>1, <1>2, <1>5
<1>6. ASSUME NEW p \in Nat, InRing(z, p), p >= w.top PROVE Part(z, p) = w.sent + (p - w.top) /\ p < w.top + n
  BY <1>1, <1>2, <1>4, <1>6 DEF InRing
<1>7. \A a, b : Follows(w, a, b) <=> Follows(z, a, b)
  BY <1>4 DEF Follows
<1>8. ASSUME NEW p \in Nat, p >= w.top, InRing(z, p) \/ p = z.top PROVE PartOrNext(z, p) = w.sent + (p - w.top)
  BY <1>3, <1>4, <1>6, <1>8 DEF PartOrNext
<1>9. Later(w, z)
  <2>1. ASSUME NEW v \in Nat, Follows(w, v, w.sent) PROVE Follows(z, v, PartOrNext(z, w.top))
    <3>1. InRing(z, w.top)
      BY <1>3, <1>4, Bounds DEF InRing
    <3>2. PartOrNext(z, w.top) = w.sent
      BY <1>3, <1>8, <3>1
    <3> QED
      BY <1>7, <2>1, <3>2
  <2> QED
    BY <1>3, <1>4, <1>5, <1>6, <1>7, <2>1 DEF Later
<1>10. RingOK(z)
  <2>1. z.top \in Nat /\ z.sent \in Nat /\ z.top > w.top /\ z.sent > w.sent
    BY <1>3, <1>4, Bounds
  <2>2. ASSUME NEW p \in Nat, InRing(z, p) PROVE Part(z, p) \in Nat /\ Part(z, p) < z.sent
    <3>1. CASE p < w.top
      BY <1>3, <1>5, <2>1, <2>2, <3>1 DEF RingOK
    <3>2. CASE p >= w.top
      BY <1>3, <1>4, <1>6, <2>2, <3>2, Bounds
    <3> QED
      BY <1>3, <3>1, <3>2
  <2>3. ASSUME NEW p \in Nat, InRing(z, p) PROVE Follows(z, Part(z, p), PartOrNext(z, p + 1))
    <3>0. InRing(z, p + 1) \/ p + 1 = z.top
      BY <2>1, <2>3, Bounds DEF InRing
    <3>1. CASE p + 1 < w.top
      <4>1. InRing(w, p) /\ Part(z, p) = Part(w, p)
        BY <1>3, <1>5, <2>3, <3>1
      <4>2. InRing(z, p + 1) /\ Part(z, p + 1) = Part(w, p + 1)
        BY <1>3, <1>5, <2>1, <3>0, <3>1
      <4>3. PartOrNext(z, p + 1) = Part(z, p + 1) /\ PartOrNext(w, p + 1) = Part(w, p + 1)
        BY <1>3, <2>1, <3>1 DEF PartOrNext
      <4> QED
        BY <1>3, <1>7, <4>1, <4>2, <4>3 DEF RingOK
    <3>2. CASE p + 1 = w.top
      <4>1. InRing(w, p) /\ Part(z, p) = Part(w, p)
        BY <1>3, <1>5, <2>3, <3>2
      <4>2. PartOrNext(z, p + 1) = w.sent + ((p + 1) - w.top)
        BY <1>3, <1>8, <3>0, <3>2
      <4>3. PartOrNext(z, p + 1) = w.sent /\ PartOrNext(w, p + 1) = w.sent
        BY <1>3, <3>2, <4>2 DEF PartOrNext
      <4> QED
        BY <1>3, <1>7, <4>1, <4>3 DEF RingOK
    <3>3. CASE p >= w.top
      <4>1. Part(z, p) = w.sent + (p - w.top)
        BY <1>6, <2>3, <3>3
      <4>2. PartOrNext(z, p + 1) = w.sent + ((p + 1) - w.top)
        BY <1>3, <1>8, <3>0, <3>3
      <4> QED
        BY <1>3, <4>1, <4>2 DEF Follows
    <3> QED
      BY <1>3, <3>1, <3>2, <3>3
  <2>4. ASSUME NEW p \in Nat, NEW q \in Nat, InRing(z, p), InRing(z, q), p < q PROVE Part(z, p) < Part(z, q)
    <3>1. CASE q < w.top
      BY <1>3, <1>5, <2>4, <3>1 DEF RingOK
    <3>2. CASE p < w.top /\ w.top <= q
      <4>1. InRing(w, p) /\ Part(z, p) = Part(w, p) /\ Part(z, q) = w.sent + (q - w.top)
        BY <1>5, <1>6, <2>4, <3>2
      <4> QED
        BY <1>3, <3>2, <4>1 DEF RingOK
    <3>3. CASE w.top <= p
      BY <1>3, <1>6, <2>4, <3>3
    <3> QED
      BY <1>3, <2>4, <3>1, <3>2, <3>3
  <2> QED
    BY <2>1, <2>2, <2>3, <2>4 DEF RingOK
<1> QED
  BY <1>2, <1>9, <1>10

LEMMA TeePublishLater ==
  ASSUME TypeOK, RingOK(World), TeePublish
  PROVE  World' = World
<1>1. UNCHANGED <<tee, sent, jumps>> /\ teeW' = teeW + burst /\ burst' = 0
  BY DEF TeePublish, source
<1>2. teeW' + burst' = teeW + burst
  BY <1>1 DEF TypeOK
<1> QED
  BY <1>1, <1>2 DEF World

LEMMA ReconnectLater ==
  ASSUME TypeOK, RingOK(World), Reconnect
  PROVE  RingOK(World') /\ Later(World, World')
<1>1. PICK w, z : w = World /\ z = World'
  OBVIOUS
<1>2. /\ z.tee = w.tee /\ z.top = w.top /\ z.sent = sent' /\ w.sent = sent
      /\ z.jumps = w.jumps \cup {<<sent - 1, sent'>>} \cup {<<j[1], sent'>> : j \in {j \in w.jumps : j[2] = sent}}
  BY <1>1 DEF World, Reconnect, ring
<1>3. sent \in Nat /\ sent' \in Nat /\ sent' > sent
  BY DEF TypeOK, Reconnect
<1>4. RingOK(w) /\ w.top \in Nat
  BY <1>1 DEF RingOK
<1>5. \A p : (InRing(w, p) <=> InRing(z, p)) /\ Part(z, p) = Part(w, p)
  BY <1>2 DEF InRing, Part
<1>6. \A a, b : Follows(w, a, b) => Follows(z, a, b)
  BY <1>2 DEF Follows
<1>7. ASSUME NEW v \in Nat, Follows(w, v, sent) PROVE Follows(z, v, sent')
  <2>1. CASE sent = v + 1
    BY <1>2, <1>3, <2>1 DEF Follows
  <2>2. CASE <<v, sent>> \in w.jumps
    <3> DEFINE j == <<v, sent>>
    <3>1. j \in {k \in w.jumps : k[2] = sent} /\ <<j[1], sent'>> = <<v, sent'>>
      BY <2>2
    <3> QED
      BY <1>2, <3>1 DEF Follows
  <2> QED
    BY <1>7, <2>1, <2>2 DEF Follows
<1>8. PartOrNext(z, w.top) = sent'
  BY <1>2 DEF PartOrNext
<1>9. Later(w, z)
  BY <1>2, <1>3, <1>4, <1>5, <1>6, <1>7, <1>8 DEF Later, InRing
<1>10. RingOK(z)
  <2>1. \A p \in Nat : InRing(z, p) => Part(z, p) \in Nat /\ Part(z, p) < z.sent
    BY <1>2, <1>3, <1>4, <1>5 DEF RingOK
  <2>2. ASSUME NEW p \in Nat, InRing(z, p) PROVE Follows(z, Part(z, p), PartOrNext(z, p + 1))
    <3>1. Part(z, p) = Part(w, p) /\ Part(w, p) \in Nat /\ Follows(w, Part(w, p), PartOrNext(w, p + 1))
      BY <1>4, <1>5, <2>2 DEF RingOK
    <3>2. CASE p + 1 = w.top
      BY <1>2, <1>7, <3>1, <3>2 DEF PartOrNext
    <3>3. CASE p + 1 # w.top
      BY <1>2, <1>5, <1>6, <3>1, <3>3 DEF PartOrNext
    <3> QED
      BY <3>2, <3>3
  <2> QED
    BY <1>2, <1>3, <1>4, <1>5, <2>1, <2>2 DEF RingOK
<1> QED
  BY <1>1, <1>9, <1>10


-----------------------------------------------------------------------------
(* What is left of a sequence. *)

LEMMA DropIs ==
  ASSUME NEW s \in Seq(Nat), NEW d \in Nat, d <= Len(s)
  PROVE  Drop(s, d) \in Seq(Nat) /\ Len(Drop(s, d)) = Len(s) - d /\ \A i \in 1 .. Len(s) - d : Drop(s, d)[i] = s[i + d]
<1> DEFINE n == Len(s) - d
<1>1. n \in Nat /\ \A i \in 1 .. n : i + d \in 1 .. Len(s)
  OBVIOUS
<1>2. Drop(s, d) = [i \in 1 .. n |-> s[i + d]]
  BY DEF Drop
<1>3. \A i \in 1 .. n : s[i + d] \in Nat
  BY <1>1
<1> HIDE DEF n
<1>4. Drop(s, d) \in [1 .. n -> Nat]
  BY <1>2, <1>3
<1>5. Drop(s, d) \in Seq(Nat) /\ Len(Drop(s, d)) = n
  BY <1>1, <1>4, SeqDef
<1> QED
  BY <1>2, <1>5 DEF n

\* Two sequences are the same if they are as long and have the same parts.
LEMMA SameSeq ==
  ASSUME NEW s \in Seq(Nat), NEW t \in Seq(Nat), Len(s) = Len(t), \A i \in 1 .. Len(s) : s[i] = t[i]
  PROVE  s = t
OBVIOUS

LEMMA DropNone == ASSUME NEW s \in Seq(Nat) PROVE Drop(s, 0) = s
<1>0. 0 \in Nat /\ 0 <= Len(s)
  OBVIOUS
<1>1. Drop(s, 0) \in Seq(Nat) /\ Len(Drop(s, 0)) = Len(s) - 0 /\ \A i \in 1 .. Len(s) - 0 : Drop(s, 0)[i] = s[i + 0]
  BY <1>0, DropIs
<1>2. Len(s) - 0 = Len(s) /\ \A i \in 1 .. Len(s) : i + 0 = i
  OBVIOUS
<1> QED
  BY <1>1, <1>2, SameSeq

LEMMA DropAll == ASSUME NEW s \in Seq(Nat) PROVE Drop(s, Len(s)) = <<>>
<1>1. Drop(s, Len(s)) \in Seq(Nat) /\ Len(Drop(s, Len(s))) = Len(s) - Len(s)
  BY DropIs
<1> QED
  BY <1>1

LEMMA DropTwo == ASSUME NEW s \in Seq(Nat), Len(s) >= 2 PROVE SubSeq(s, 3, Len(s)) = Drop(s, 2)
<1> DEFINE t == SubSeq(s, 3, Len(s))
<1>1. 3 \in Int /\ Len(s) \in Nat /\ \A i \in 3 .. Len(s) : s[i] \in Nat
  OBVIOUS
<1>2. /\ t \in Seq(Nat) /\ Len(t) = IF 3 <= Len(s) THEN Len(s) - 3 + 1 ELSE 0
      /\ \A i \in 1 .. Len(s) - 3 + 1 : t[i] = s[3 + i - 1]
  BY <1>1, SubSeqProperties
<1>3. Drop(s, 2) \in Seq(Nat) /\ Len(Drop(s, 2)) = Len(s) - 2 /\ \A i \in 1 .. Len(s) - 2 : Drop(s, 2)[i] = s[i + 2]
  BY DropIs
<1> HIDE DEF t
<1>4. PICK m \in Nat : m = Len(s) /\ m >= 2
  BY <1>1
<1>5. Len(t) = m - 2 /\ Len(Drop(s, 2)) = m - 2
  BY <1>2, <1>3, <1>4
<1>6. ASSUME NEW i \in 1 .. m - 2 PROVE t[i] = Drop(s, 2)[i]
  <2>1. i \in 1 .. m - 3 + 1 /\ 3 + i - 1 = i + 2
    BY <1>4
  <2> QED
    BY <1>2, <1>3, <1>4, <2>1
<1>7. t = Drop(s, 2)
  BY <1>2, <1>3, <1>5, <1>6, SameSeq
<1> QED
  BY <1>7 DEF t

LEMMA DropMore ==
  ASSUME NEW s \in Seq(Nat), NEW c \in Nat, NEW d \in Nat, c + d <= Len(s)
  PROVE  Drop(Drop(s, c), d) = Drop(s, c + d)
<1>0. Len(s) \in Nat /\ c <= Len(s) /\ d <= Len(s) - c /\ c + d \in Nat
  OBVIOUS
<1> DEFINE a == Drop(s, c)
<1>1. a \in Seq(Nat) /\ Len(a) = Len(s) - c /\ \A i \in 1 .. Len(s) - c : a[i] = s[i + c]
  BY <1>0, DropIs
<1> HIDE DEF a
<1>2. Drop(a, d) \in Seq(Nat) /\ Len(Drop(a, d)) = Len(a) - d /\ \A i \in 1 .. Len(a) - d : Drop(a, d)[i] = a[i + d]
  BY <1>0, <1>1, DropIs
<1>3. /\ Drop(s, c + d) \in Seq(Nat) /\ Len(Drop(s, c + d)) = Len(s) - (c + d)
      /\ \A i \in 1 .. Len(s) - (c + d) : Drop(s, c + d)[i] = s[i + (c + d)]
  BY <1>0, DropIs
<1>4. PICK m \in Nat : m = Len(s) /\ c + d <= m
  BY <1>0
<1>5. Len(Drop(a, d)) = m - (c + d) /\ Len(Drop(s, c + d)) = m - (c + d)
  <2>1. PICK n : n = Len(a) /\ Len(Drop(a, d)) = n - d /\ n = m - c
    BY <1>1, <1>2, <1>4
  <2>2. n - d = m - (c + d)
    BY <1>4, <2>1
  <2> QED
    BY <1>3, <1>4, <2>1, <2>2
<1>6. ASSUME NEW i \in 1 .. m - (c + d) PROVE Drop(a, d)[i] = Drop(s, c + d)[i]
  <2>1. i \in 1 .. (m - c) - d /\ i + d \in 1 .. m - c /\ (i + d) + c = i + (c + d)
    BY <1>4
  <2> QED
    BY <1>1, <1>2, <1>3, <1>4, <2>1
<1>7. Drop(a, d) = Drop(s, c + d)
  BY <1>2, <1>3, <1>5, <1>6, SameSeq
<1> QED
  BY <1>7 DEF a

LEMMA DropAppended ==
  ASSUME NEW s \in Seq(Nat), NEW g \in Seq(Nat), NEW d \in Nat, d <= Len(s)
  PROVE  Drop(s \o g, d) = Drop(s, d) \o g
<1> DEFINE a == Drop(s, d)
           t == s \o g
<1>1. a \in Seq(Nat) /\ Len(a) = Len(s) - d /\ \A i \in 1 .. Len(s) - d : a[i] = s[i + d]
  BY DropIs
<1>2. /\ t \in Seq(Nat) /\ Len(t) = Len(s) + Len(g)
      /\ \A i \in 1 .. Len(s) + Len(g) : t[i] = IF i <= Len(s) THEN s[i] ELSE g[i - Len(s)]
  OBVIOUS
<1> HIDE DEF a, t
<1>3. /\ a \o g \in Seq(Nat) /\ Len(a \o g) = Len(a) + Len(g)
      /\ \A i \in 1 .. Len(a) + Len(g) : (a \o g)[i] = IF i <= Len(a) THEN a[i] ELSE g[i - Len(a)]
  BY <1>1, ConcatProperties
<1>4. PICK m \in Nat, n \in Nat : m = Len(s) /\ n = Len(g) /\ d <= m
  OBVIOUS
<1>4a. Len(t) = m + n /\ Len(a) = m - d
  BY <1>1, <1>2, <1>4
<1>5. /\ Drop(t, d) \in Seq(Nat) /\ Len(Drop(t, d)) = (m + n) - d
      /\ \A i \in 1 .. (m + n) - d : Drop(t, d)[i] = t[i + d]
  <2>1. d <= Len(t)
    BY <1>4, <1>4a
  <2>2. /\ Drop(t, d) \in Seq(Nat) /\ Len(Drop(t, d)) = Len(t) - d
        /\ \A i \in 1 .. Len(t) - d : Drop(t, d)[i] = t[i + d]
    BY <1>2, <2>1, DropIs
  <2> QED
    BY <1>4a, <2>2
<1>6. ASSUME NEW i \in 1 .. (m + n) - d PROVE Drop(t, d)[i] = (a \o g)[i]
  <2>1. i + d \in 1 .. m + n /\ i \in 1 .. (m - d) + n
    BY <1>4
  <2>2. Drop(t, d)[i] = IF i + d <= m THEN s[i + d] ELSE g[(i + d) - m]
    BY <1>2, <1>4, <1>5, <2>1
  <2>3. (a \o g)[i] = IF i <= m - d THEN a[i] ELSE g[i - (m - d)]
    BY <1>3, <1>4, <1>4a, <2>1
  <2>4. CASE i <= m - d
    <3>1. i + d <= m /\ i \in 1 .. m - d
      BY <1>4, <2>4
    <3>2. a[i] = s[i + d]
      BY <1>1, <1>4, <3>1
    <3> QED
      BY <2>2, <2>3, <2>4, <3>1, <3>2
  <2>5. CASE ~(i <= m - d)
    <3>1. ~(i + d <= m) /\ (i + d) - m = i - (m - d)
      BY <1>4, <2>5
    <3> QED
      BY <2>2, <2>3, <2>5, <3>1
  <2> QED
    BY <2>4, <2>5
<1>7. Drop(t, d) = a \o g
  <2>1. Len(a \o g) = (m + n) - d
    BY <1>1, <1>3, <1>4
  <2> QED
    BY <1>3, <1>5, <1>6, <2>1, SameSeq
<1> QED
  BY <1>7 DEF a, t

-----------------------------------------------------------------------------
(* The invariant. *)

LEMMA InitInv == Init => TeeInv
<1> SUFFICES ASSUME Init PROVE TeeInv
  OBVIOUS
<1>1. TypeOK
  <2>1. tee \in [0 .. RingParts - 1 -> Nat] /\ burst \in 0 .. RingParts /\ sent \in Nat
    BY Bounds DEF Init
  <2>0. was \in [0 .. RingParts - 1 -> Nat] /\ torn \in BOOLEAN /\ spoilt \in Nat /\ spoilt <= Len(buf)
    <3>1. was = tee /\ torn = FALSE /\ spoilt = 0 /\ buf = <<>>
      BY DEF Init
    <3>2. was \in [0 .. RingParts - 1 -> Nat]
      BY <2>1, <3>1
    <3>3. torn \in BOOLEAN
      BY <3>1
    <3>4. spoilt \in Nat /\ spoilt <= Len(buf)
      BY <3>1
    <3> QED
      BY <3>2, <3>3, <3>4
  <2>2. got \in Seq(Nat) /\ buf \in Seq(Nat) /\ filed \in Seq(Nat \X Nat)
    BY DEF Init
  <2>3. teeW = 0 /\ teeR = 0 /\ seen = 0 /\ place = "adopt" /\ disc = FALSE /\ teeDiscont = FALSE
    BY DEF Init
  <2>4. /\ teeW \in Nat /\ teeR \in Nat /\ teeR <= teeW /\ seen \in Nat /\ place \in Places
        /\ disc \in BOOLEAN /\ teeDiscont \in BOOLEAN /\ place # "copy" /\ place # "check"
    <3>1. teeW \in Nat /\ teeR \in Nat /\ teeR <= teeW /\ seen \in Nat
      BY <2>3
    <3>2. disc \in BOOLEAN /\ teeDiscont \in BOOLEAN
      BY <2>3
    <3>3. place \in Places /\ place # "copy" /\ place # "check"
      BY <2>3 DEF Places
    <3> QED
      BY <3>1, <3>2, <3>3
  <2> QED
    BY <2>0, <2>1, <2>2, <2>4 DEF TypeOK
<1>2. World.top = 0 /\ World.sent \in Nat
  BY DEF Init, World
<1>3. RingOK(World)
  BY <1>2 DEF RingOK, InRing
<1>4. PullOK
  <2>1. Run(World, filed, <<>>, 0)
    BY DEF Run, Init
  <2>2. Clean = <<>> /\ teeR = 0 /\ place = "adopt"
    BY DEF Clean, Drop, Init
  <2> QED
    BY <2>1, <2>2 DEF PullOK, Pulled
<1>5. FramesWhole
  BY DEF FramesWhole, Init
<1> QED
  BY <1>1, <1>3, <1>4, <1>5 DEF TeeInv

LEMMA TypeKept == TypeOK /\ [Next]_vars => TypeOK'
<1> SUFFICES ASSUME TypeOK, [Next]_vars PROVE TypeOK'
  OBVIOUS
<1> USE Bounds DEF TypeOK, source, ring, pull, cut, user, Places
<1>1. CASE UNCHANGED vars
  BY <1>1 DEF vars
<1>2. CASE TeeCopy
  <2>1. burst' \in 0 .. RingParts /\ tee' \in [0 .. RingParts - 1 -> Nat]
    BY <1>2, TeeCopyIs
  <2>2. sent' \in Nat
    BY <1>2 DEF TeeCopy
  <2> QED
    BY <1>2, <2>1, <2>2 DEF TeeCopy
<1>3. CASE TeePublish
  BY <1>3 DEF TeePublish
<1>4. CASE Reconnect
  BY <1>4 DEF Reconnect
<1>5. CASE Title \/ StopBegin \/ StopJoin
  BY <1>5 DEF Title, StopBegin, StopJoin
<1>6. CASE Adopt
  BY <1>6 DEF Adopt
<1>7. CASE TakeFlag
  BY <1>7 DEF TakeFlag
<1>8. CASE Load
  <2>1. teeR' \in Nat /\ teeR' <= teeW
    BY <1>8 DEF Load, Lapped
  <2>2. place' \in {"append", "copy"} /\ got' = <<>> /\ seen' = teeW /\ torn' = FALSE /\ (place' = "copy" => seen' # teeR')
    BY <1>8 DEF Load
  <2>3. disc' \in BOOLEAN /\ got' \in Seq(Nat) /\ (place' = "copy" => teeR' < seen')
    BY <1>8, <2>1, <2>2 DEF Load
  <2>4. UNCHANGED <<tee, teeW, burst, was, sent, teeDiscont, buf, spoilt, filed>>
    BY <1>8 DEF Load
  <2>5. torn' \in BOOLEAN /\ seen' \in Nat /\ (place' = "copy" => seen' <= teeW')
    <3>1. torn' \in BOOLEAN
      BY <2>2
    <3>2. seen' = teeW /\ teeW' = teeW /\ teeW \in Nat
      BY <2>2, <2>4
    <3> QED
      BY <3>1, <3>2
  <2>6. place' \in Places /\ place' # "check"
    BY <2>2
  <2> QED
    BY <2>1, <2>3, <2>4, <2>5, <2>6
<1>9. CASE Copy
  <2> DEFINE n == Least(Cap, seen - teeR)
  <2>1. n \in Nat /\ n >= 1 /\ teeR + n <= seen /\ seen <= teeW
    BY <1>9 DEF Copy, Least
  <2>2. PICK old : got' = [i \in 1 .. n |-> IF i \in old THEN was[Cell(teeR + i - 1)] ELSE tee[Cell(teeR + i - 1)]]
    BY <1>9 DEF Copy
  <2> HIDE DEF n
  <2>3. \A i \in 1 .. n : tee[Cell(teeR + i - 1)] \in Nat /\ was[Cell(teeR + i - 1)] \in Nat
    <3>1. ASSUME NEW i \in 1 .. n PROVE tee[Cell(teeR + i - 1)] \in Nat /\ was[Cell(teeR + i - 1)] \in Nat
      <4>1. teeR + i - 1 \in Nat
        BY <2>1
      <4> QED
        BY <4>1, CellIn
    <3> QED
      BY <3>1
  <2>4. got' \in Seq(Nat) /\ Len(got') = n /\ got' # <<>>
    <3>1. got' \in [1 .. n -> Nat]
      BY <2>2, <2>3
    <3>2. got' \in Seq(Nat)
      BY <2>1, <3>1, SeqDef
    <3> QED
      BY <2>1, <3>1, <3>2
  <2>5. place' = "check" /\ torn' \in BOOLEAN
    BY <1>9 DEF Copy, Lapped
  <2>6. teeR + Len(got') <= teeW
    BY <2>1, <2>4
  <2> QED
    BY <1>9, <2>4, <2>5, <2>6 DEF Copy
<1>10. CASE Check
  <2>1. place' = "append" /\ teeR' \in Nat /\ teeR' <= teeW /\ disc' \in BOOLEAN /\ teeDiscont' \in BOOLEAN /\ got' \in Seq(Nat)
    <3>0. place' = "append" /\ place = "check"
      BY <1>10 DEF Check
    <3>1. CASE Lapped(teeW)
      <4>1. teeR' = teeW - RingParts /\ got' = <<>> /\ disc' = TRUE /\ teeDiscont' = (teeDiscont \/ disc)
        BY <1>10, <3>1 DEF Check
      <4>2. teeR' \in Nat /\ teeR' <= teeW
        BY <3>1, <4>1 DEF Lapped
      <4>3. got' \in Seq(Nat)
        BY <4>1
      <4> QED
        BY <3>0, <4>1, <4>2, <4>3
    <3>2. CASE ~Lapped(teeW)
      <4>1. teeR' = teeR + Len(got) /\ UNCHANGED <<teeDiscont, disc, got>>
        BY <1>10, <3>2 DEF Check
      <4>2. teeR' \in Nat /\ teeR' <= teeW
        BY <3>0, <4>1
      <4> QED
        BY <3>0, <4>1, <4>2
    <3> QED
      BY <3>1, <3>2
  <2> QED
    BY <1>10, <2>1 DEF Check
<1>11. CASE Append_
  <2>1. buf' \in Seq(Nat)
    BY <1>11 DEF Append_
  <2>2. spoilt' \in Nat /\ spoilt' <= Len(buf')
    <3>1. Len(buf') = (IF disc THEN 0 ELSE Len(buf)) + Len(got)
      BY <1>11 DEF Append_
    <3> QED
      BY <1>11, <2>1, <3>1 DEF Append_
  <2> QED
    BY <1>11, <2>1, <2>2 DEF Append_
<1>12. CASE Resync
  <2>1. buf' \in Seq(Nat) /\ Len(buf') = Len(buf) - 1 /\ Len(buf) >= 2
    BY <1>12 DEF Resync
  <2>2. spoilt' = spoilt - Least(spoilt, 1)
    BY <1>12 DEF Resync
  <2>3. spoilt' \in Nat /\ spoilt' <= Len(buf')
    BY <2>1, <2>2 DEF Least
  <2> QED
    BY <1>12, <2>1, <2>3 DEF Resync
<1>13. CASE ParseFrame
  <2>1. Len(buf) >= 2 /\ buf[1] \in Nat /\ buf[2] \in Nat
    <3>1. Len(buf) >= 2 /\ buf \in Seq(Nat)
      BY <1>13 DEF ParseFrame, HasFrame
    <3> QED
      BY <3>1
  <2>2. filed' \in Seq(Nat \X Nat)
    BY <1>13, <2>1 DEF ParseFrame
  <2>3. buf' = Drop(buf, 2) /\ buf' \in Seq(Nat) /\ Len(buf') = Len(buf) - 2
    <3>1. buf' = Drop(buf, 2)
      BY <1>13, <2>1, DropTwo DEF ParseFrame
    <3> QED
      BY <2>1, <3>1, DropIs
  <2>4. spoilt' = spoilt - Least(spoilt, 2)
    BY <1>13 DEF ParseFrame
  <2>5. spoilt' \in Nat /\ spoilt' <= Len(buf')
    BY <2>1, <2>3, <2>4 DEF Least
  <2> QED
    BY <1>13, <2>2, <2>3, <2>5 DEF ParseFrame
<1>14. CASE ParseFails \/ ParseEnds
  BY <1>14 DEF ParseFails, ParseEnds
<1>15. CASE Roll
  BY <1>15 DEF Roll
<1>16. CASE Dry
  <2>1. got' \in Seq(Nat) /\ place' \in {"exit", "adopt"}
    BY <1>16 DEF Dry
  <2> QED
    BY <1>16, <2>1 DEF Dry
<1> QED
  BY <1>1, <1>2, <1>3, <1>4, <1>5, <1>6, <1>7, <1>8, <1>9, <1>10, <1>11, <1>12, <1>13, <1>14, <1>15, <1>16
     DEF Next, Producer, User, Worker

LEMMA RingKept == TypeOK /\ RingOK(World) /\ [Next]_vars => RingOK(World)'
<1> SUFFICES ASSUME TypeOK, RingOK(World), [Next]_vars PROVE RingOK(World')
  OBVIOUS
<1>1. CASE TeeCopy
  BY <1>1, TeeCopyLater
<1>2. CASE TeePublish
  BY <1>2, TeePublishLater
<1>3. CASE Reconnect
  BY <1>3, ReconnectLater
<1>4. CASE World' = World
  BY <1>4
<1> QED
  BY <1>1, <1>2, <1>3, <1>4 DEF Next, Producer, User, Worker, vars, source, ring, Title, StopBegin, StopJoin, Adopt, TakeFlag, Load,
     Copy, Check, Append_, Resync, ParseFrame, ParseFails, ParseEnds, Roll, Dry, World

LEMMA FramesKept == TeeInv /\ [Next]_vars => FramesWhole'
<1> SUFFICES ASSUME TeeInv, [Next]_vars PROVE FramesWhole'
  OBVIOUS
<1>1. jumps \subseteq jumps'
  BY DEF Next, Producer, User, Worker, vars, source, ring, TeeCopy, TeePublish, Reconnect, Title, StopBegin, StopJoin, Adopt, TakeFlag,
     Load, Copy, Check, Append_, Resync, ParseFrame, ParseFails, ParseEnds, Roll, Dry
<1>2. CASE filed' = filed
  BY <1>1, <1>2 DEF TeeInv, FramesWhole, Joined
<1>3. CASE ParseFrame /\ spoilt = 0
  <2> DEFINE frame == <<buf[1], buf[2]>>
  <2>1. place = "parse" /\ Len(buf) >= 2 /\ filed' = Append(filed, frame) /\ jumps' = jumps /\ buf \in Seq(Nat) /\ filed \in Seq(Nat \X Nat)
    BY <1>3 DEF ParseFrame, HasFrame, source, TeeInv, TypeOK
  <2>2. Run(World, filed, buf, teeR)
    <3>1. Clean = buf
      BY <1>3, <2>1, DropNone DEF Clean
    <3> QED
      BY <2>1, <3>1 DEF TeeInv, PullOK, Pulled
  <2>3. Follows(World, buf[1], buf[2]) /\ \A k \in DOMAIN filed : filed[k][2] < buf[1]
    <3>1. 1 \in DOMAIN buf /\ 1 + 1 \in DOMAIN buf /\ 1 + 1 = 2
      BY <2>1
    <3>2. Follows(World, buf[1], buf[1 + 1])
      BY <2>2, <3>1 DEF Run
    <3>3. \A k \in DOMAIN filed : filed[k][2] < buf[1]
      BY <2>2, <3>1 DEF Run
    <3> QED
      BY <3>1, <3>2, <3>3
  <2>4. Joined(frame[1], frame[2])
    BY <2>3 DEF Follows, Joined, World
  <2>5. /\ Len(filed) \in Nat /\ DOMAIN filed = 1 .. Len(filed) /\ DOMAIN filed' = 1 .. Len(filed) + 1
        /\ filed'[Len(filed) + 1] = frame /\ \A k \in DOMAIN filed : filed'[k] = filed[k]
    BY <2>1
  <2>6. \A i \in DOMAIN filed' : filed'[i][2] = filed'[i][1] + 1 \/ <<filed'[i][1], filed'[i][2]>> \in jumps'
    <3> SUFFICES ASSUME NEW i \in DOMAIN filed'
                 PROVE  filed'[i][2] = filed'[i][1] + 1 \/ <<filed'[i][1], filed'[i][2]>> \in jumps'
      OBVIOUS
    <3>1. CASE i \in DOMAIN filed
      BY <2>1, <2>5, <3>1 DEF TeeInv, FramesWhole, Joined
    <3>2. CASE i = Len(filed) + 1
      BY <2>1, <2>4, <2>5, <3>2 DEF Joined
    <3> QED
      BY <2>5, <3>1, <3>2
  <2>7. ASSUME NEW i \in DOMAIN filed', NEW j \in DOMAIN filed', i < j PROVE filed'[i][2] < filed'[j][1]
    <3>1. CASE j \in DOMAIN filed
      <4>1. i \in DOMAIN filed
        BY <2>5, <2>7, <3>1
      <4> QED
        BY <2>5, <2>7, <3>1, <4>1 DEF TeeInv, FramesWhole
    <3>2. CASE j = Len(filed) + 1
      <4>1. i \in DOMAIN filed
        BY <2>5, <2>7, <3>2
      <4> QED
        BY <2>3, <2>5, <3>2, <4>1
    <3> QED
      BY <2>5, <3>1, <3>2
  <2> QED
    BY <2>6, <2>7 DEF FramesWhole, Joined
<1> QED
  BY <1>2, <1>3 DEF Next, Producer, User, Worker, vars, TeeCopy, TeePublish, Reconnect, Title, StopBegin, StopJoin, Adopt, TakeFlag, Load,
     Copy, Check, Append_, Resync, ParseFrame, ParseFails, ParseEnds, Roll, Dry


-----------------------------------------------------------------------------
(* The worker's pulls. *)

\* What is left of a run when its first parts are dropped is a run.
LEMMA DroppedRun ==
  ASSUME NEW w, NEW f, NEW s \in Seq(Nat), NEW p \in Nat, Run(w, f, s, p), NEW d \in Nat, d <= Len(s),
         NEW t \in Seq(Nat), Len(t) = Len(s) - d, \A i \in 1 .. Len(t) : t[i] = s[i + d]
  PROVE  Run(w, f, t, p)
<1>0. Len(s) \in Nat /\ Len(t) \in Nat /\ DOMAIN s = 1 .. Len(s) /\ DOMAIN t = 1 .. Len(t)
  OBVIOUS
<1>1. /\ Len(s) \in Nat /\ Len(t) \in Nat /\ DOMAIN s = 1 .. Len(s) /\ DOMAIN t = 1 .. Len(t)
      /\ \A i \in DOMAIN t : i \in Nat /\ i + d \in DOMAIN s /\ t[i] = s[i + d]
  <2>1. ASSUME NEW i \in DOMAIN t PROVE i \in Nat /\ i + d \in DOMAIN s /\ t[i] = s[i + d]
    <3>1. i \in 1 .. Len(t)
      BY <1>0, <2>1
    <3>2. t[i] = s[i + d]
      BY <3>1
    <3>3. i \in Nat /\ i + d \in 1 .. Len(s)
      <4>1. PICK m \in Nat, n \in Nat : m = Len(s) /\ n = Len(t)
        BY <1>0
      <4>2. n = m - d
        BY <4>1
      <4>3. i \in 1 .. n
        BY <3>1, <4>1
      <4>4. i \in Nat /\ i + d \in 1 .. m
        BY <4>2, <4>3
      <4> QED
        BY <4>1, <4>4
    <3> QED
      BY <1>0, <3>2, <3>3
  <2> QED
    BY <1>0, <2>1
<1>2. ASSUME NEW i \in DOMAIN t, i + 1 \in DOMAIN t PROVE Follows(w, t[i], t[i + 1])
  <2>1. i + d \in DOMAIN s /\ t[i] = s[i + d] /\ (i + 1) + d \in DOMAIN s /\ t[i + 1] = s[(i + 1) + d]
    BY <1>1, <1>2
  <2>2. (i + 1) + d = (i + d) + 1
    BY <1>1
  <2>3. (i + d) + 1 \in DOMAIN s /\ t[i + 1] = s[(i + d) + 1]
    BY <2>1, <2>2
  <2> QED
    BY <2>1, <2>3 DEF Run
<1>3. ASSUME NEW i \in DOMAIN t, NEW j \in DOMAIN t, i < j PROVE t[i] < t[j]
  <2>1. i + d \in DOMAIN s /\ j + d \in DOMAIN s /\ i + d < j + d /\ t[i] = s[i + d] /\ t[j] = s[j + d]
    BY <1>1, <1>3
  <2> QED
    BY <2>1 DEF Run
<1>4. \A i \in DOMAIN t : Before(w, t[i], p)
  BY <1>1 DEF Run
<1>5. t # <<>> => Linked(w, t[Len(t)], p)
  <2>1. SUFFICES ASSUME t # <<>> PROVE Linked(w, t[Len(t)], p)
    OBVIOUS
  <2>2. Len(t) \in DOMAIN t /\ Len(t) + d = Len(s)
    BY <1>0, <2>1
  <2>3. s # <<>> /\ t[Len(t)] = s[Len(s)]
    <3>1. t[Len(t)] = s[Len(t) + d] /\ Len(t) + d \in DOMAIN s
      BY <1>1, <2>2
    <3>2. s # <<>>
      BY <3>1
    <3> QED
      BY <2>2, <3>1, <3>2
  <2> QED
    BY <2>3 DEF Run
<1>6. \A k \in DOMAIN f : Before(w, f[k][2], p) /\ \A i \in DOMAIN t : f[k][2] < t[i]
  BY <1>1 DEF Run
<1> QED
  BY <1>2, <1>3, <1>4, <1>5, <1>6 DEF Run

LEMMA DropRun ==
  ASSUME NEW w, NEW f, NEW s \in Seq(Nat), NEW p \in Nat, Run(w, f, s, p), NEW d \in Nat, d <= Len(s)
  PROVE  Run(w, f, Drop(s, d), p)
<1> DEFINE t == Drop(s, d)
<1>1. t \in Seq(Nat) /\ Len(t) = Len(s) - d /\ \A i \in 1 .. Len(t) : t[i] = s[i + d]
  BY DropIs
<1> HIDE DEF t
<1>2. Run(w, f, t, p)
  BY <1>1, DroppedRun
<1> QED
  BY <1>2 DEF t

\* What appending gives, and what two parts or more begin with.
LEMMA AppendedIs ==
  ASSUME NEW S, NEW f \in Seq(S), NEW e \in S
  PROVE  /\ Len(f) \in Nat /\ DOMAIN f = 1 .. Len(f) /\ DOMAIN Append(f, e) = 1 .. Len(f) + 1
         /\ Append(f, e)[Len(f) + 1] = e /\ \A k \in DOMAIN f : Append(f, e)[k] = f[k]
OBVIOUS

LEMMA FirstTwo ==
  ASSUME NEW S, NEW s \in Seq(S), Len(s) >= 2
  PROVE  Len(s) \in Nat /\ DOMAIN s = 1 .. Len(s) /\ s[1] \in S /\ s[2] \in S
OBVIOUS

\* g is f with the first two parts of s filed, t what is left of s; n and m are the lengths.
FiledBy(f, s, g, t, n, m) ==
  /\ n \in Nat /\ m \in Nat /\ m >= 2
  /\ DOMAIN f = 1 .. n /\ DOMAIN g = 1 .. n + 1 /\ g[n + 1][2] = s[2] /\ \A k \in DOMAIN f : g[k] = f[k]
  /\ DOMAIN s = 1 .. m /\ DOMAIN t = 1 .. m - 2 /\ \A i \in 1 .. m - 2 : t[i] = s[i + 2]

\* A run with what it begins with filed, by the numbers of the elements alone.
LEMMA FiledRunByNumbers ==
  ASSUME NEW w, NEW f, NEW s, NEW p, NEW g, NEW t, NEW n, NEW m, FiledBy(f, s, g, t, n, m),
         Run(w, f, s, p), Run(w, f, t, p)
  PROVE  Run(w, g, t, p)
<1> USE DEF FiledBy
<1>1. ASSUME NEW k \in DOMAIN g PROVE Before(w, g[k][2], p) /\ \A i \in DOMAIN t : g[k][2] < t[i]
  <2>1. CASE k \in DOMAIN f
    BY <2>1 DEF Run
  <2>2. CASE k = n + 1
    <3>1. 2 \in DOMAIN s /\ Before(w, s[2], p)
      BY DEF Run
    <3>2. ASSUME NEW i \in DOMAIN t PROVE s[2] < t[i]
      <4>1. i + 2 \in DOMAIN s /\ 2 < i + 2 /\ t[i] = s[i + 2]
        OBVIOUS
      <4> QED
        BY <3>1, <4>1 DEF Run
    <3> QED
      BY <2>2, <3>1, <3>2
  <2> QED
    BY <2>1, <2>2
<1> QED
  BY <1>1 DEF Run

\* A frame that is filed was before all that is left.
LEMMA FiledRun ==
  ASSUME NEW w, NEW f \in Seq(Nat \X Nat), NEW s \in Seq(Nat), NEW p \in Nat, Run(w, f, s, p), Len(s) >= 2,
         NEW g, g = Append(f, <<s[1], s[2]>>), NEW t, t = SubSeq(s, 3, Len(s))
  PROVE  Run(w, g, t, p)
<1>1. Len(s) \in Nat /\ DOMAIN s = 1 .. Len(s) /\ s[1] \in Nat /\ s[2] \in Nat
  BY FirstTwo, Zenon
<1>2. t \in Seq(Nat) /\ Len(t) = Len(s) - 2 /\ \A i \in 1 .. Len(t) : t[i] = s[i + 2]
  <2>1. t = Drop(s, 2) /\ 2 \in Nat /\ 2 <= Len(s)
    BY DropTwo
  <2>2. /\ Drop(s, 2) \in Seq(Nat) /\ Len(Drop(s, 2)) = Len(s) - 2
        /\ \A i \in 1 .. Len(s) - 2 : Drop(s, 2)[i] = s[i + 2]
    BY <2>1, DropIs
  <2> QED
    BY <2>1, <2>2
<1>3. Run(w, f, t, p)
  BY <1>2, DroppedRun
<1>4. /\ Len(f) \in Nat /\ DOMAIN f = 1 .. Len(f) /\ DOMAIN g = 1 .. Len(f) + 1
      /\ g[Len(f) + 1] = <<s[1], s[2]>> /\ \A k \in DOMAIN f : g[k] = f[k]
  <2>1. <<s[1], s[2]>> \in Nat \X Nat
    BY <1>1, Zenon
  <2> DEFINE e == <<s[1], s[2]>>
  <2> HIDE DEF e
  <2>2. e \in Nat \X Nat /\ g = Append(f, e)
    BY <2>1 DEF e
  <2>3. /\ Len(f) \in Nat /\ DOMAIN f = 1 .. Len(f) /\ DOMAIN Append(f, e) = 1 .. Len(f) + 1
        /\ Append(f, e)[Len(f) + 1] = e /\ \A k \in DOMAIN f : Append(f, e)[k] = f[k]
    BY <2>2, AppendedIs
  <2> QED
    BY <2>2, <2>3, Zenon DEF e
<1>5. /\ DOMAIN t = 1 .. Len(s) - 2 /\ g[Len(f) + 1][2] = s[2]
      /\ \A i \in 1 .. Len(s) - 2 : t[i] = s[i + 2]
  <2>1. DOMAIN t = 1 .. Len(t)
    BY <1>2
  <2>2. g[Len(f) + 1][2] = s[2]
    BY <1>4
  <2> QED
    BY <1>2, <2>1, <2>2, Zenon
<1>6. FiledBy(f, s, g, t, Len(f), Len(s))
  BY <1>1, <1>4, <1>5 DEF FiledBy
<1> QED
  BY <1>3, <1>6, FiledRunByNumbers, SMTT(30)

LEMMA Types ==
  ASSUME TypeOK
  PROVE  /\ teeR \in Nat /\ teeR <= World.top /\ filed \in Seq(Nat \X Nat) /\ buf \in Seq(Nat)
         /\ Rest \in Seq(Nat) /\ Pulled \in Seq(Nat) /\ Rest \o got \in Seq(Nat)
         /\ place = "check" => teeR + Len(got) \in Nat /\ teeR + Len(got) <= World.top
<1>1. teeR \in Nat /\ teeW \in Nat /\ burst \in Nat /\ teeR <= teeW /\ World.top = teeW + burst
  BY Bounds DEF TypeOK, World
<1>2. filed \in Seq(Nat \X Nat) /\ buf \in Seq(Nat) /\ got \in Seq(Nat) /\ <<>> \in Seq(Nat)
  BY DEF TypeOK
<1>3. Clean \in Seq(Nat) /\ Rest \in Seq(Nat)
  <2>1. Clean \in Seq(Nat)
    BY DropIs DEF TypeOK, Clean
  <2> QED
    BY <1>2, <2>1 DEF Rest
<1>4. Rest \o got \in Seq(Nat)
  BY <1>2, <1>3
<1>5. Pulled \in Seq(Nat)
  BY <1>2, <1>3, <1>4 DEF Pulled
<1>6. place = "check" => teeR + Len(got) \in Nat /\ teeR + Len(got) <= World.top
  BY <1>1, <1>2 DEF TypeOK
<1> QED
  BY <1>1, <1>2, <1>3, <1>4, <1>5, <1>6

\* Whatever the producer does, what has been pulled stays a run.
LEMMA ProducerPulls ==
  ASSUME TypeOK, RingOK(World), PullOK, Producer
  PROVE  PullOK'
<1>1. /\ teeR' = teeR /\ place' = place /\ disc' = disc /\ got' = got /\ buf' = buf /\ filed' = filed
      /\ torn' = torn /\ spoilt' = spoilt
      /\ teeW' \in Nat /\ teeW' >= teeW
  BY Bounds DEF Producer, TeeCopy, TeePublish, Reconnect, pull, ring, TypeOK
<1>2. Rest' = Rest /\ Pulled' = Pulled
  BY <1>1 DEF Rest, Pulled, Clean
<1>3. PICK w, z : w = World /\ z = World'
  OBVIOUS
<1>4. z = w \/ (RingOK(z) /\ Later(w, z))
  BY <1>3, TeeCopyLater, TeePublishLater, ReconnectLater DEF Producer
<1>5. ASSUME NEW s \in Seq(Nat), NEW p \in Nat, p <= w.top, Run(w, filed, s, p) PROVE Run(z, filed, s, p)
  <2>1. filed \in Seq(Nat \X Nat) /\ RingOK(w)
    BY <1>3, Types
  <2> QED
    BY <1>4, <1>5, <2>1, LaterRun
<1>6. place # "exit" => Run(z, filed, Pulled, teeR)
  BY <1>3, <1>5, Types DEF PullOK
<1>7. place = "check" /\ ~torn /\ ~Lapped(teeW) => Run(z, filed, Rest \o got, teeR + Len(got))
  BY <1>3, <1>5, Types DEF PullOK
<1>9. (~Lapped(teeW))' => ~Lapped(teeW)
  <2>1. /\ teeW \in Nat /\ teeR \in Nat /\ teeW' \in Nat /\ RingParts \in Nat /\ teeR' = teeR /\ teeW' >= teeW
    BY <1>1, Bounds DEF TypeOK
  <2>2. PICK a \in Nat, b \in Nat, c \in Nat : a = teeW /\ b = teeW' /\ c = teeR
    BY <2>1
  <2>3. b >= a
    BY <2>1, <2>2
  <2>4. Lapped(teeW) <=> a - c > RingParts
    BY <2>2 DEF Lapped
  <2>5. (Lapped(teeW))' <=> b - c > RingParts
    BY <2>1, <2>2 DEF Lapped
  <2> QED
    BY <2>1, <2>3, <2>4, <2>5
<1> QED
  BY <1>1, <1>2, <1>3, <1>6, <1>7, <1>9 DEF PullOK

LEMMA CopyPulls ==
  ASSUME TypeOK, RingOK(World), PullOK, Copy
  PROVE  PullOK'
<1> DEFINE n == Least(Cap, seen - teeR)
<1>0. PICK old \in SUBSET {i \in 1 .. Cap : Overwritten(teeR + i - 1)} :
        /\ place = "copy" /\ place' = "check" /\ torn' = Lapped(teeW + burst)
        /\ got' = [i \in 1 .. n |-> IF i \in old THEN was[Cell(teeR + i - 1)] ELSE tee[Cell(teeR + i - 1)]]
        /\ UNCHANGED <<tee, teeW, burst, sent, jumps, teeR, disc, buf, spoilt, filed>>
  BY DEF Copy, source, ring
<1>1. /\ place = "copy" /\ place' = "check"
      /\ UNCHANGED <<tee, teeW, burst, sent, jumps, teeR, disc, buf, spoilt, filed>>
  BY <1>0
<1>2. teeR \in Nat /\ teeW \in Nat /\ burst \in Nat /\ n \in Nat /\ n >= 1 /\ teeR + n <= seen /\ seen <= teeW
  BY <1>1, Bounds DEF TypeOK, Least
<1> HIDE DEF n
<1>3. World' = World /\ Rest' = Rest /\ Pulled' = Pulled /\ Pulled = Rest
  BY <1>1 DEF World, Rest, Pulled, Clean
<1>4. Run(World, filed, Rest, teeR)
  BY <1>1, <1>3 DEF PullOK
<1>5. ASSUME ~torn' PROVE Run(World, filed, Rest \o got', teeR + Len(got'))
  <2>1. ASSUME NEW k \in 1 .. n PROVE InRing(World, teeR + k - 1) /\ got'[k] = Part(World, teeR + k - 1)
    <3>0. k \in Nat /\ 1 <= k /\ k <= n /\ seen \in Nat
      BY <1>2 DEF TypeOK
    <3>1. teeR + k - 1 \in Nat /\ teeR <= teeR + k - 1 /\ teeR + k - 1 < teeW
      BY <1>2, <3>0
    <3>2. teeW + burst - teeR <= RingParts
      <4>1. ~Lapped(teeW + burst)
        BY <1>0, <1>5, Zenon
      <4> QED
        BY <1>2, <4>1, Bounds DEF Lapped
    <3>3. World.top = teeW + burst /\ World.tee = tee
      BY WorldIs
    <3>4. InRing(World, teeR + k - 1)
      BY <1>2, <3>1, <3>2, <3>3, Bounds DEF InRing
    <3>5. got'[k] = tee[Cell(teeR + k - 1)]
      <4>1. ~Overwritten(teeR + k - 1)
        BY <1>2, <3>1, <3>2, Bounds DEF Overwritten
      <4>2. k \notin old
        BY <1>0, <4>1
      <4> QED
        BY <1>0, <4>2
    <3> QED
      BY <3>3, <3>4, <3>5 DEF Part
  <2>2. ASSUME NEW k \in 1 .. n PROVE got'[k] \in Nat
    <3>1. teeR + k - 1 \in Nat
      BY <1>2
    <3>2. InRing(World, teeR + k - 1) /\ got'[k] = Part(World, teeR + k - 1)
      BY <2>1
    <3> QED
      BY <3>1, <3>2 DEF RingOK
  <2>3. got' \in Seq(Nat) /\ got' # <<>> /\ DOMAIN got' = 1 .. n
    <3>1. got' \in [1 .. n -> Nat]
      BY <1>0, <2>2
    <3>2. got' \in Seq(Nat)
      BY <1>2, <3>1, SeqDef
    <3> QED
      BY <1>2, <3>1, <3>2
  <2>4. \A k \in DOMAIN got' : InRing(World, teeR + k - 1) /\ got'[k] = Part(World, teeR + k - 1)
    BY <2>1, <2>3
  <2>5. PICK w, g, r : w = World /\ g = got' /\ r = Rest
    OBVIOUS
  <2>6. filed \in Seq(Nat \X Nat) /\ r \in Seq(Nat)
    BY <2>5, Types
  <2>7. Run(w, filed, r \o g, teeR + Len(g))
    BY <1>2, <1>4, <2>3, <2>4, <2>5, <2>6, PulledRun
  <2> QED
    BY <2>5, <2>7
<1>6. Lapped(teeW)' <=> Lapped(teeW)
  BY <1>1 DEF Lapped
<1> QED
  BY <1>1, <1>3, <1>4, <1>5, <1>6 DEF PullOK


\* A lap that is found before the copy drops what was pulled and not filed.
LEMMA LoadPulls ==
  ASSUME TypeOK, RingOK(World), PullOK, Load
  PROVE  PullOK'
<1>1. /\ place = "load" /\ place' \in {"append", "copy"} /\ got' = <<>>
      /\ disc' = (disc \/ Lapped(teeW)) /\ teeR' = (IF Lapped(teeW) THEN teeW - RingParts ELSE teeR)
      /\ torn' = FALSE
      /\ UNCHANGED <<tee, teeW, burst, sent, jumps, buf, spoilt, filed>>
  BY DEF Load, source, ring
<1>2. World' = World
  BY <1>1 DEF World
<1>3. Run(World, filed, Clean, teeR)
  BY <1>1 DEF PullOK, Pulled
<1>4. Clean \in Seq(Nat) /\ Clean' = Clean /\ teeR \in Nat /\ teeW \in Nat /\ RingParts \in Nat /\ disc \in BOOLEAN
  BY <1>1, Bounds, DropIs DEF TypeOK, Clean
<1>5. Pulled' = Rest'
  <2>1. Rest' \o <<>> = Rest'
    BY <1>1, <1>4 DEF Rest
  <2> QED
    BY <1>1, <2>1 DEF Pulled
<1>6. Run(World, filed, Rest', teeR')
  <2>1. CASE Lapped(teeW)
    <3>1. teeR' \in Nat /\ teeR <= teeR'
      BY <1>1, <1>4, <2>1 DEF Lapped
    <3>2. Rest' = <<>>
      BY <1>1, <2>1 DEF Rest
    <3> QED
      BY <1>3, <1>4, <3>1, <3>2, SkippedRun
  <2>2. CASE ~Lapped(teeW) /\ disc
    <3>1. teeR' = teeR /\ Rest' = <<>>
      BY <1>1, <2>2 DEF Rest
    <3> QED
      BY <1>3, <1>4, <3>1, EmptyRun
  <2>3. CASE ~Lapped(teeW) /\ ~disc
    BY <1>1, <1>3, <1>4, <2>3 DEF Rest
  <2> QED
    BY <2>1, <2>2, <2>3
<1>7. place' # "check" /\ filed' = filed
  BY <1>1
<1> QED
  BY <1>2, <1>5, <1>6, <1>7 DEF PullOK

\* One that is found after the copy drops the copy too.
LEMMA CheckPulls ==
  ASSUME TypeOK, RingOK(World), PullOK, Check
  PROVE  PullOK'
<1>1. /\ place = "check" /\ place' = "append"
      /\ UNCHANGED <<tee, teeW, burst, sent, jumps, buf, spoilt, torn, filed>>
  BY DEF Check, source, ring
<1>2. World' = World
  BY <1>1 DEF World
<1>3. Run(World, filed, Rest, teeR)
  BY <1>1 DEF PullOK, Pulled
<1>4. Pulled' = IF torn THEN <<>> ELSE Rest' \o got'
  BY <1>1 DEF Pulled
<1>5. teeR \in Nat /\ teeW \in Nat /\ RingParts \in Nat
  BY Bounds DEF TypeOK
<1>6. Run(World, filed, Pulled', teeR')
  <2>1. CASE Lapped(teeW)
    <3>1. teeR' = teeW - RingParts /\ got' = <<>> /\ disc' = TRUE
      BY <2>1 DEF Check
    <3>2. Rest' = <<>>
      BY <3>1 DEF Rest
    <3>3. Pulled' = <<>>
      BY <1>4, <3>1, <3>2
    <3>4. teeR' \in Nat /\ teeR <= teeR'
      BY <1>5, <2>1, <3>1 DEF Lapped
    <3> QED
      BY <1>3, <1>5, <3>3, <3>4, SkippedRun
  <2>2. CASE ~Lapped(teeW)
    <3>1. teeR' = teeR + Len(got) /\ disc' = disc /\ got' = got
      BY <2>2 DEF Check
    <3>2. Rest' = Rest
      BY <1>1, <3>1 DEF Rest, Clean
    <3>3. CASE torn
      <4>1. Pulled' = <<>>
        BY <1>4, <3>3
      <4>2. teeR' \in Nat /\ teeR <= teeR'
        BY <1>5, <3>1 DEF TypeOK
      <4> QED
        BY <1>3, <1>5, <4>1, <4>2, SkippedRun
    <3>4. CASE ~torn
      BY <1>1, <1>4, <2>2, <3>1, <3>2, <3>4 DEF PullOK
    <3> QED
      BY <3>3, <3>4
  <2> QED
    BY <2>1, <2>2
<1> QED
  BY <1>1, <1>2, <1>6 DEF PullOK

\* Parsing only drops and files what is in front.
LEMMA ParsePulls ==
  ASSUME TypeOK, RingOK(World), PullOK, Append_ \/ Resync \/ ParseFrame
  PROVE  PullOK'
<1>1. /\ place' = "parse" /\ UNCHANGED <<tee, teeW, burst, sent, jumps, teeR>>
  BY DEF Append_, Resync, ParseFrame, source, ring
<1>2. World' = World /\ Pulled' = Clean'
  BY <1>1 DEF World, Pulled
<1>3. teeR \in Nat /\ buf \in Seq(Nat) /\ got \in Seq(Nat) /\ filed \in Seq(Nat \X Nat) /\ spoilt \in Nat /\ spoilt <= Len(buf)
  BY DEF TypeOK
<1>4. ASSUME NEW k \in {1, 2}, k <= Len(buf), buf' = Drop(buf, k), spoilt' = spoilt - Least(spoilt, k),
             filed' = filed, place = "parse"
      PROVE  Run(World, filed', Clean', teeR)
  <2>1. PICK m \in Nat, d \in Nat : spoilt' = m /\ k + m = spoilt + d /\ spoilt + d <= Len(buf)
    <3>1. CASE spoilt <= k
      <4>1. spoilt' = 0 /\ k - spoilt \in Nat /\ k + 0 = spoilt + (k - spoilt) /\ spoilt + (k - spoilt) <= Len(buf)
        BY <1>3, <1>4, <3>1 DEF Least
      <4> QED
        BY <4>1
    <3>2. CASE ~(spoilt <= k)
      <4>1. spoilt' = spoilt - k /\ spoilt - k \in Nat /\ k + (spoilt - k) = spoilt + 0 /\ spoilt + 0 <= Len(buf)
        BY <1>3, <1>4, <3>2 DEF Least
      <4> QED
        BY <4>1
    <3> QED
      BY <3>1, <3>2
  <2>2. Clean' = Drop(buf, k + m)
    <3>1. k \in Nat /\ k + m <= Len(buf)
      BY <1>4, <2>1
    <3>2. Drop(Drop(buf, k), m) = Drop(buf, k + m)
      BY <1>3, <2>1, <3>1, DropMore
    <3> QED
      BY <1>4, <2>1, <3>2 DEF Clean
  <2>3. Clean' = Drop(Clean, d)
    <3>1. Drop(Drop(buf, spoilt), d) = Drop(buf, spoilt + d)
      BY <1>3, <2>1, DropMore
    <3> QED
      BY <2>1, <2>2, <3>1 DEF Clean
  <2>4. Run(World, filed, Clean, teeR)
    BY <1>4 DEF PullOK, Pulled
  <2>5. Clean \in Seq(Nat) /\ d <= Len(Clean)
    <3>1. Clean \in Seq(Nat) /\ Len(Clean) = Len(buf) - spoilt
      BY <1>3, DropIs DEF Clean
    <3> QED
      BY <1>3, <2>1, <3>1
  <2>6. Run(World, filed, Drop(Clean, d), teeR)
    BY <1>3, <2>1, <2>4, <2>5, DropRun
  <2> QED
    BY <1>4, <2>3, <2>6
<1>5. Run(World, filed', Clean', teeR)
  <2>1. CASE Append_
    <3>1. /\ place = "append" /\ buf' = (IF disc THEN <<>> ELSE buf) \o got /\ filed' = filed
          /\ spoilt' = IF torn THEN Len(buf') ELSE IF disc THEN 0 ELSE spoilt
      BY <2>1 DEF Append_
    <3>2. Run(World, filed, Pulled, teeR) /\ Pulled = IF torn THEN <<>> ELSE Rest \o got
      BY <3>1 DEF PullOK, Pulled
    <3>3. CASE torn
      <4>1. buf' \in Seq(Nat) /\ Clean' = Drop(buf', Len(buf'))
        BY <1>3, <3>1, <3>3 DEF Clean
      <4>2. Clean' = <<>>
        BY <4>1, DropAll
      <4> QED
        BY <3>1, <3>2, <3>3, <4>2
    <3>4. CASE ~torn /\ disc
      <4>1. buf' = got /\ Rest \o got = got
        BY <1>3, <3>1, <3>4 DEF Rest
      <4>2. Clean' = got
        BY <1>3, <3>1, <3>4, <4>1, DropNone DEF Clean
      <4> QED
        BY <3>1, <3>2, <3>4, <4>1, <4>2
    <3>5. CASE ~torn /\ ~disc
      <4>1. Clean' = Drop(buf \o got, spoilt) /\ Rest = Drop(buf, spoilt)
        BY <3>1, <3>5 DEF Clean, Rest
      <4>2. Clean' = Rest \o got
        BY <1>3, <4>1, DropAppended
      <4> QED
        BY <3>1, <3>2, <3>5, <4>2
    <3> QED
      BY <3>3, <3>4, <3>5
  <2>2. CASE Resync
    <3>1. place = "parse" /\ Len(buf) >= 2 /\ buf' = Tail(buf) /\ spoilt' = spoilt - Least(spoilt, 1) /\ filed' = filed
      BY <2>2 DEF Resync
    <3>2. buf' = Drop(buf, 1)
      <4>1. buf # <<>> /\ 1 \in Nat /\ 1 <= Len(buf)
        BY <1>3, <3>1
      <4>2. /\ buf' \in Seq(Nat) /\ Len(buf') = Len(buf) - 1
            /\ \A i \in 1 .. Len(buf') : buf'[i] = buf[i + 1]
        BY <1>3, <3>1, <4>1, HeadTailProperties
      <4>3. /\ Drop(buf, 1) \in Seq(Nat) /\ Len(Drop(buf, 1)) = Len(buf) - 1
            /\ \A i \in 1 .. Len(buf) - 1 : Drop(buf, 1)[i] = buf[i + 1]
        BY <1>3, <4>1, DropIs
      <4>4. \A i \in 1 .. Len(buf') : buf'[i] = Drop(buf, 1)[i]
        BY <4>2, <4>3
      <4> QED
        BY <4>2, <4>3, <4>4, SameSeq
    <3> QED
      BY <1>3, <1>4, <3>1, <3>2
  <2>3. CASE ParseFrame
    <3>1. /\ place = "parse" /\ Len(buf) >= 2 /\ buf' = SubSeq(buf, 3, Len(buf)) /\ spoilt' = spoilt - Least(spoilt, 2)
          /\ filed' = IF spoilt = 0 THEN Append(filed, <<buf[1], buf[2]>>) ELSE filed
      BY <2>3 DEF ParseFrame, HasFrame
    <3>2. CASE spoilt = 0
      <4>1. Clean = buf /\ Run(World, filed, buf, teeR)
        BY <1>3, <3>1, <3>2, DropNone DEF PullOK, Pulled, Clean
      <4>2. PICK w, g, t : w = World /\ g = filed' /\ t = buf'
        OBVIOUS
      <4>3. Run(w, g, t, teeR)
        BY <1>3, <3>1, <3>2, <4>1, <4>2, FiledRun
      <4>4. buf' \in Seq(Nat) /\ spoilt' = 0
        <5>1. buf' = Drop(buf, 2) /\ 2 \in Nat /\ 2 <= Len(buf)
          BY <1>3, <3>1, DropTwo
        <5>2. buf' \in Seq(Nat)
          BY <1>3, <5>1, DropIs
        <5> QED
          BY <3>1, <3>2, <5>2 DEF Least
      <4>5. Clean' = buf'
        BY <4>4, DropNone DEF Clean
      <4> QED
        BY <4>2, <4>3, <4>5
    <3>3. CASE spoilt # 0
      <4>1. buf' = Drop(buf, 2)
        BY <1>3, <3>1, DropTwo
      <4> QED
        BY <1>3, <1>4, <3>1, <3>3, <4>1
    <3> QED
      BY <3>2, <3>3
  <2> QED
    BY <2>1, <2>2, <2>3
<1> QED
  BY <1>1, <1>2, <1>5 DEF PullOK

LEMMA PullKept ==
  ASSUME TeeInv, [Next]_vars
  PROVE  PullOK'
<1>1. TypeOK /\ RingOK(World) /\ PullOK
  BY DEF TeeInv
<1>2. CASE Producer
  BY <1>1, <1>2, ProducerPulls
<1>3. CASE Load
  BY <1>1, <1>3, LoadPulls
<1>4. CASE Copy
  BY <1>1, <1>4, CopyPulls
<1>5. CASE Check
  BY <1>1, <1>5, CheckPulls
<1>6. CASE Append_ \/ Resync \/ ParseFrame
  BY <1>1, <1>6, ParsePulls
<1>7. CASE User \/ UNCHANGED vars
  <2>1. UNCHANGED <<World, teeW, teeR, place, disc, got, torn, buf, spoilt, filed>>
    BY <1>7 DEF User, Title, StopBegin, StopJoin, source, ring, pull, vars, World
  <2>2. Rest' = Rest /\ Pulled' = Pulled
    BY <2>1 DEF Rest, Pulled, Clean
  <2>3. (Lapped(teeW))' <=> Lapped(teeW)
    BY <2>1 DEF Lapped
  <2> QED
    BY <1>1, <2>1, <2>2, <2>3 DEF PullOK
<1>8. CASE Adopt \/ TakeFlag \/ ParseFails \/ ParseEnds \/ Roll \/ Dry
  <2>1. /\ UNCHANGED <<World, teeR, buf, spoilt, filed>> /\ place \in {"adopt", "flag", "parse", "roll", "dry"}
        /\ place' \in {"flag", "load", "exit", "roll", "dry", "adopt"}
    BY <1>8 DEF Adopt, TakeFlag, ParseFails, ParseEnds, Roll, Dry, source, ring, vars, World
  <2>2. Pulled' = Clean /\ Pulled = Clean
    BY <2>1 DEF Pulled, Clean
  <2> QED
    BY <1>1, <2>1, <2>2 DEF PullOK
<1> QED
  BY <1>2, <1>3, <1>4, <1>5, <1>6, <1>7, <1>8 DEF Next, Worker

-----------------------------------------------------------------------------
(* Theorems. *)

\* The test after the copy in readEncoded() misses a write that is not published; yet such a pull
\* spoils only the frames that have bytes of it.  Every other frame written is one the station
\* sent, or one cut by a reconnect, and none is written twice or out of order: whatever the laps
\* of the ring, the gaps it reports and the splits of copyLoop() (FramesWhole).
THEOREM TornPullStaysLocal == Spec => []FramesWhole
<1>1. Init => TeeInv
  BY InitInv
<1>2. TeeInv /\ [Next]_vars => TeeInv'
  <2> SUFFICES ASSUME TeeInv, [Next]_vars PROVE TeeInv'
    OBVIOUS
  <2>1. TypeOK'
    BY TypeKept DEF TeeInv
  <2>2. RingOK(World)'
    BY RingKept DEF TeeInv
  <2>3. PullOK'
    BY PullKept
  <2>4. FramesWhole'
    BY FramesKept
  <2> QED
    BY <2>1, <2>2, <2>3, <2>4 DEF TeeInv
<1>3. TeeInv => FramesWhole
  BY DEF TeeInv
<1> QED
  BY <1>1, <1>2, <1>3, PTL DEF Spec


\* A recording that is stopped and ends without an error has pulled what was in the tee at the
\* stop (TailKept): copyLoop() leaves only after a pull without bytes, and such a pull follows
\* either an empty ring or a lap, for which readEncoded() leaves a full ring behind.
THEOREM StopDrains == Spec => []TailKept
<1>1. Init => TailInv
  <2> SUFFICES ASSUME Init PROVE TailInv
    OBVIOUS
  <2>1. TypeOK
    BY InitInv DEF TeeInv
  <2>2. owed = 0 /\ teeW = 0 /\ ui = "idle"
    BY DEF Init
  <2>3. owed \in Nat /\ owed <= teeW
    BY <2>2
  <2> QED
    BY <2>1, <2>2, <2>3 DEF TailInv
<1>2. TailInv /\ [Next]_vars => TailInv'
  <2> SUFFICES ASSUME TailInv, [Next]_vars PROVE TailInv'
    OBVIOUS
  <2>1. TypeOK'
    BY TypeKept DEF TailInv
  <2>2. /\ teeW \in Nat /\ teeW' \in Nat /\ teeR \in Nat /\ teeR <= teeW /\ teeR' \in Nat /\ owed \in Nat /\ owed <= teeW
        /\ RingParts \in Nat
    BY <2>1, Bounds DEF TailInv, TypeOK
  <2>3. CASE StopBegin
    <3>1. /\ UNCHANGED <<teeW, teeR, place, got, buf>>
          /\ owed' = IF PulledNothing THEN teeR ELSE teeW
      BY <2>3 DEF StopBegin, ring, pull
    <3>2. LastPulled' => PulledNothing
      BY <3>1 DEF LastPulled, PulledNothing
    <3>3. owed' \in Nat /\ owed' <= teeW'
      BY <2>2, <3>1
    <3>4. LastPulled' => Drained'
      BY <2>2, <3>1, <3>2 DEF Drained
    <3> QED
      BY <2>1, <3>3, <3>4 DEF TailInv
  <2>4. CASE ~StopBegin
    <3>1. owed' = owed /\ teeW' >= teeW /\ (ui' = "join" => ui = "join")
      BY <2>2, <2>4, Bounds DEF Next, Producer, User, Worker, vars, user, ring, TypeOK, TailInv, TeeCopy, TeePublish, Reconnect, Title,
         StopJoin, Adopt, TakeFlag, Load, Copy, Check, Append_, Resync, ParseFrame, ParseFails, ParseEnds, Roll, Dry
    <3>2. owed' \in Nat /\ owed' <= teeW'
      BY <2>2, <3>1
    <3>3. ASSUME ui' = "join", LastPulled' PROVE Drained'
      <4>1. CASE Load
        <5>1. place' = "append" /\ teeR' = teeW
          BY <3>3, <4>1 DEF Load, LastPulled
        <5> QED
          BY <2>2, <3>1, <5>1 DEF Drained
      <4>2. CASE Check
        <5>1. CASE Lapped(teeW)
          <6>1. teeR' = teeW - RingParts
            BY <4>2, <5>1 DEF Check
          <6>2. PICK w \in Nat, r \in Nat : w = teeW /\ r = RingParts
            BY <2>2
          <6>3. teeW' = w /\ teeR' = w - r
            BY <4>2, <6>1, <6>2 DEF Check, ring
          <6>4. teeW' - teeR' >= RingParts
            BY <6>2, <6>3
          <6> QED
            BY <6>4 DEF Drained
        <5>2. CASE ~Lapped(teeW)
          BY <3>3, <4>2, <5>2 DEF Check, LastPulled, TailInv, TypeOK
        <5> QED
          BY <5>1, <5>2
      <4>3. CASE ~Load /\ ~Check
        <5>1. teeR' = teeR
          BY <2>4, <4>3 DEF Next, Producer, User, Worker, vars, TeeCopy, TeePublish, Reconnect, Title, StopJoin, Adopt, TakeFlag,
             Copy, Append_, Resync, ParseFrame, ParseFails, ParseEnds, Roll, Dry
        <5>2. LastPulled
          <6>1. CASE TeeCopy \/ TeePublish \/ Reconnect \/ Title \/ StopJoin \/ UNCHANGED vars
            BY <3>3, <6>1 DEF LastPulled, TeeCopy, TeePublish, Reconnect, Title, StopJoin, vars, pull
          <6>2. CASE Adopt \/ TakeFlag \/ Copy
            BY <3>3, <6>2 DEF LastPulled, Adopt, TakeFlag, Copy
          <6>3. CASE Append_ \/ Resync \/ ParseFrame
            BY <3>3, <6>3 DEF LastPulled, Append_, Resync, ParseFrame, pull
          <6>4. CASE ParseFails
            <7>1. place' = "exit" /\ buf' = buf /\ Len(buf) >= 2
              BY <6>4 DEF ParseFails, HasFrame
            <7>2. Len(buf) \in Nat
              BY DEF TailInv, TypeOK
            <7> QED
              BY <3>3, <7>1, <7>2 DEF LastPulled
          <6>5. CASE ParseEnds \/ Roll
            BY <3>3, <6>5 DEF LastPulled, ParseEnds, Roll, pull
          <6>6. CASE Dry
            BY <3>3, <6>6 DEF LastPulled, Dry
          <6> QED
            BY <2>4, <4>3, <6>1, <6>2, <6>3, <6>4, <6>5, <6>6 DEF Next, Producer, User, Worker
        <5>3. teeR >= owed \/ teeW - teeR >= RingParts
          BY <3>1, <3>3, <5>2 DEF TailInv, Drained
        <5>4. PICK w \in Nat, v \in Nat, r \in Nat, k \in Nat : w = teeW /\ v = teeW' /\ r = teeR /\ k = RingParts
          BY <2>2
        <5>5. w - r >= k => v - r >= k
          <6>1. v >= w
            BY <3>1, <5>4
          <6>2. ASSUME w - r >= k PROVE v - r >= k
            BY <6>1, <6>2
          <6> QED
            BY <6>2
        <5>6. teeR' >= owed' \/ teeW' - teeR' >= RingParts
          BY <3>1, <5>1, <5>3, <5>4, <5>5
        <5> QED
          BY <5>6 DEF Drained
      <4> QED
        BY <4>1, <4>2, <4>3
    <3> QED
      BY <2>1, <3>2, <3>3 DEF TailInv
  <2> QED
    BY <2>3, <2>4
<1>3. TailInv => TailKept
  BY DEF TailInv, LastPulled, Drained, TailKept
<1> QED
  BY <1>1, <1>2, <1>3, PTL DEF Spec
=============================================================================
