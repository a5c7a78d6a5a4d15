---------------------------- MODULE PlaylistProofs ----------------------------
(***************************************************************************)
(* What Playlist guarantees for every list, directory and disc, and any    *)
(* number of paths that wait for the loader.                               *)
(***************************************************************************)
EXTENDS Playlist, FiniteSetTheorems, SequenceTheorems, TLAPS

OneToOne(s) == \A i, j \in DOMAIN s : s[i] = s[j] => i = j

RowsOK ==
  /\ entries \in Seq(Paths) /\ OneToOne(entries)
  /\ current \in Nat /\ current >= 1 /\ current <= Len(entries) + 1
  /\ entries # <<>> => current <= Len(entries)

\* The modes, the loader and the thread of the user interface.
StateOK ==
  /\ {shuffle, loaderRunning} \subseteq BOOLEAN /\ repeat \in {"off", "one", "all"}
  /\ work \in Seq(Files) /\ done \in Seq(Files) /\ tagging \in Files \cup {Nothing}
  /\ loader \in {"none", "take", "tag", "quit"} /\ ui \in {"idle", "start"}
  /\ loader = "tag" => tagging \in Files

OrderOK == order \in Seq(Nat) /\ pos \in Nat \ {0} /\ OrderFollowsRows
CacheOK == sparkleFresh \in BOOLEAN /\ sparkled \subseteq Paths /\ SparkleFollowsRows

PlaylistInv == RowsOK /\ StateOK /\ OrderOK /\ CacheOK

-----------------------------------------------------------------------------
(* Selecting rows. *)

LEMMA Listing == ASSUME NEW S, NEW s \in Seq(S) PROVE Len(s) \in Nat /\ DOMAIN s = 1 .. Len(s) /\ s \in [1 .. Len(s) -> S]
OBVIOUS

LEMMA UpTo == ASSUME NEW k \in Nat PROVE IsFiniteSet(1 .. k) /\ Cardinality(1 .. k) = k
<1>1. 1 \in Int /\ k \in Int
  OBVIOUS
<1>2. IsFiniteSet(1 .. k) /\ Cardinality(1 .. k) = IF 1 > k THEN 0 ELSE k - 1 + 1
  BY <1>1, FS_Interval
<1> QED
  BY <1>2

\* The k-th position in K has k - 1 of them before it.
LEMMA Place ==
  ASSUME NEW K, K \subseteq Nat, IsFiniteSet(K), NEW f \in InOrder(K), NEW m \in DOMAIN f
  PROVE  IsFiniteSet({j \in K : j < f[m]}) /\ Cardinality({j \in K : j < f[m]}) = m - 1
<1> DEFINE n == Cardinality(K)
           B == {j \in K : j < f[m]}
           g == [x \in 1 .. m - 1 |-> f[x]]
<1>1. n \in Nat
  BY FS_CardinalityType
<1>2. /\ f \in [1 .. n -> K] /\ (\A x, y \in 1 .. n : f[x] = f[y] => x = y) /\ (\A k \in K : \E x \in 1 .. n : f[x] = k)
      /\ \A x, y \in 1 .. n : x < y => f[x] < f[y]
  BY DEF InOrder, Bijection, Injection, IsInjective, Surjection
<1>3. m \in 1 .. n /\ m - 1 \in Int
  BY <1>1, <1>2
<1> HIDE DEF n
<1>4. \A x \in 1 .. m - 1 : x \in 1 .. n /\ x < m
  BY <1>1, <1>3
<1>5. g \in [1 .. m - 1 -> B]
  BY <1>2, <1>3, <1>4
<1>6. \A x, y \in 1 .. m - 1 : g[x] = g[y] => x = y
  BY <1>2, <1>4
<1>7. ASSUME NEW k \in B PROVE \E x \in 1 .. m - 1 : g[x] = k
  <2>1. PICK x \in 1 .. n : f[x] = k
    BY <1>2
  <2>2. ~(m < x) /\ x # m
    <3>1. f[m] \in Nat /\ k \in Nat /\ k < f[m]
      BY <1>2, <1>3
    <3>2. m < x => f[m] < f[x]
      BY <1>2, <1>3
    <3> QED
      BY <2>1, <3>1, <3>2
  <2>3. x \in 1 .. m - 1
    BY <1>1, <1>3, <2>2
  <2> QED
    BY <2>1, <2>3
<1>8. g \in Bijection(1 .. m - 1, B)
  BY <1>5, <1>6, <1>7 DEF Bijection, Injection, IsInjective, Surjection
<1>9. IsFiniteSet(1 .. m - 1) /\ Cardinality(1 .. m - 1) = m - 1
  <2>1. m - 1 \in Nat
    BY <1>3
  <2> QED
    BY <2>1, UpTo
<1> HIDE DEF B, g
<1>10. IsFiniteSet(B) /\ Cardinality(B) = m - 1
  BY <1>8, <1>9, FS_Bijection DEF ExistsBijection
<1> QED
  BY <1>10 DEF B

\* What Among selects: the rows in K and no others, each as far down as rows before it are left out.
LEMMA Selected ==
  ASSUME NEW S, NEW s \in Seq(S), NEW K, K \subseteq DOMAIN s, NEW t \in Among(s, K)
  PROVE  /\ t \in Seq(S) /\ Len(t) = Cardinality(K) /\ IsFiniteSet(K)
         /\ Range(t) = {s[i] : i \in K}
         /\ OneToOne(s) => OneToOne(t)
         /\ \A i \in K : LET shift == Cardinality((1 .. i - 1) \ K)
                         IN shift \in Nat /\ i - shift \in DOMAIN t /\ t[i - shift] = s[i]
<1> DEFINE n == Cardinality(K)
<1>1. Len(s) \in Nat /\ DOMAIN s = 1 .. Len(s) /\ s \in [1 .. Len(s) -> S]
  BY Listing
<1>2. IsFiniteSet(K) /\ n \in Nat /\ K \subseteq Nat
  <2>1. IsFiniteSet(1 .. Len(s))
    BY <1>1, FS_Interval
  <2>2. K \in SUBSET (1 .. Len(s))
    BY <1>1
  <2> QED
    BY <1>1, <2>1, <2>2, FS_Subset, FS_CardinalityType
<1>3. PICK f \in InOrder(K) : t = [i \in DOMAIN f |-> s[f[i]]]
  BY DEF Among
<1>4. f \in [1 .. n -> K] /\ (\A x, y \in 1 .. n : f[x] = f[y] => x = y) /\ (\A k \in K : \E x \in 1 .. n : f[x] = k)
  BY DEF InOrder, Bijection, Injection, IsInjective, Surjection
<1> HIDE DEF n
<1>5. t \in [1 .. n -> S] /\ \A x \in 1 .. n : t[x] = s[f[x]]
  BY <1>1, <1>3, <1>4
<1>6. t \in Seq(S) /\ Len(t) = n /\ DOMAIN t = 1 .. n
  <2>1. t \in Seq(S)
    BY <1>2, <1>5, SeqDef
  <2> QED
    BY <1>2, <1>5, <2>1
<1>7. Range(t) = {s[i] : i \in K}
  BY <1>4, <1>5, <1>6 DEF Range
<1>8. OneToOne(s) => OneToOne(t)
  BY <1>4, <1>5, <1>6 DEF OneToOne
<1>9. ASSUME NEW i \in K
      PROVE  LET shift == Cardinality((1 .. i - 1) \ K)
             IN shift \in Nat /\ i - shift \in DOMAIN t /\ t[i - shift] = s[i]
  <2> DEFINE B == {j \in K : j < i}
             C == (1 .. i - 1) \ K
  <2>1. PICK m \in 1 .. n : f[m] = i
    BY <1>4
  <2>2. IsFiniteSet(B) /\ Cardinality(B) = m - 1
    <3>1. m \in DOMAIN f
      BY <1>4, <2>1
    <3>2. IsFiniteSet({j \in K : j < f[m]}) /\ Cardinality({j \in K : j < f[m]}) = m - 1
      BY <1>2, <1>3, <3>1, Place
    <3> QED
      BY <2>1, <3>2
  <2>3. i \in Nat /\ i >= 1
    BY <1>1
  <2>4. IsFiniteSet(1 .. i - 1) /\ Cardinality(1 .. i - 1) = i - 1
    <3>1. i - 1 \in Nat
      BY <2>3
    <3> QED
      BY <3>1, UpTo
  <2>5. IsFiniteSet(C) /\ Cardinality(C) \in Nat
    BY <2>4, FS_Subset, FS_CardinalityType
  <2>6. B \cup C = 1 .. i - 1 /\ B \cap C = {}
    BY <1>1, <2>3
  <2> HIDE DEF B, C
  <2>7. Cardinality(B) + Cardinality(C) = i - 1
    <3>1. Cardinality(B \cup C) = Cardinality(B) + Cardinality(C) - Cardinality(B \cap C)
      BY <2>2, <2>5, FS_Union
    <3>2. Cardinality(B \cap C) = 0
      BY <2>6, FS_EmptySet
    <3>3. m - 1 \in Int
      BY <1>2, <2>1
    <3>4. Cardinality(B \cup C) = i - 1
      BY <2>4, <2>6
    <3>5. PICK b \in Int, c \in Int : b = Cardinality(B) /\ c = Cardinality(C)
      BY <2>2, <2>5, <3>3
    <3>6. b + c = i - 1
      BY <3>1, <3>2, <3>4, <3>5
    <3> QED
      BY <3>5, <3>6
  <2>8. i - Cardinality(C) = m
    BY <2>1, <2>2, <2>3, <2>5, <2>7, <1>2
  <2>9. t[m] = s[i] /\ m \in DOMAIN t
    BY <1>5, <1>6, <2>1
  <2> QED
    BY <2>5, <2>8, <2>9 DEF C
<1> QED
  BY <1>2, <1>6, <1>7, <1>8, <1>9 DEF n

-----------------------------------------------------------------------------
(* The rows. *)

LEMMA InitInv == Init => PlaylistInv
<1> SUFFICES ASSUME Init PROVE PlaylistInv
  OBVIOUS
<1>1. RowsOK
  BY DEF Init, RowsOK, OneToOne
<1>2. StateOK
  <2>1. work \in Seq(Files) /\ done \in Seq(Files)
    BY DEF Init
  <2>2. shuffle \in BOOLEAN /\ loaderRunning \in BOOLEAN /\ tagging \in Files \cup {Nothing} /\ repeat \in {"off", "one", "all"}
    BY DEF Init
  <2>3. loader = "none" /\ ui = "idle"
    BY DEF Init
  <2> QED
    BY <2>1, <2>2, <2>3 DEF StateOK
<1>3. OrderOK
  <2>1. <<>> \in Bijection({}, {})
    BY DEF Bijection, Injection, IsInjective, Surjection
  <2>2. DOMAIN entries = {}
    BY DEF Init
  <2> QED
    BY <2>1, <2>2 DEF Init, OrderOK, OrderFollowsRows
<1>4. CacheOK
  BY DEF Init, CacheOK, SparkleFollowsRows
<1> QED
  BY <1>1, <1>2, <1>3, <1>4 DEF PlaylistInv

LEMMA AddKeepsRows == RowsOK /\ AddTrack => RowsOK'
<1> SUFFICES ASSUME RowsOK, AddTrack PROVE RowsOK'
  OBVIOUS
<1>1. PICK p \in Files \ Range(entries) : entries' = Append(entries, p) /\ current' = current
  BY DEF AddTrack
<1>2. entries \in Seq(Paths) /\ p \in Paths /\ \A i \in DOMAIN entries : entries[i] # p
  BY <1>1 DEF RowsOK, Paths, Range
<1>3. /\ entries' \in Seq(Paths) /\ Len(entries') = Len(entries) + 1 /\ Len(entries) \in Nat
      /\ DOMAIN entries' = 1 .. Len(entries) + 1 /\ DOMAIN entries = 1 .. Len(entries)
      /\ entries'[Len(entries) + 1] = p /\ \A i \in DOMAIN entries : entries'[i] = entries[i]
  BY <1>1, <1>2
<1>4. OneToOne(entries')
  <2>1. \A i \in DOMAIN entries' : i \in DOMAIN entries \/ i = Len(entries) + 1
    BY <1>3
  <2> QED
    BY <1>2, <1>3, <2>1 DEF OneToOne, RowsOK
<1> QED
  BY <1>1, <1>3, <1>4 DEF RowsOK

LEMMA RemoveKeepsRows == RowsOK /\ RemoveAt => RowsOK'
<1> SUFFICES ASSUME RowsOK, RemoveAt PROVE RowsOK'
  OBVIOUS
<1>1. PICK i \in DOMAIN entries :
        /\ entries' \in Among(entries, DOMAIN entries \ {i})
        /\ current' = IF current > i \/ (current > Len(entries') /\ entries' # <<>>) THEN current - 1 ELSE current
  BY DEF RemoveAt
<1>2. entries \in Seq(Paths) /\ Len(entries) \in Nat /\ DOMAIN entries = 1 .. Len(entries) /\ OneToOne(entries)
  BY DEF RowsOK
<1>3. entries' \in Seq(Paths) /\ OneToOne(entries') /\ Len(entries') = Cardinality(DOMAIN entries \ {i})
  BY <1>1, <1>2, Selected
<1>4. Cardinality(DOMAIN entries \ {i}) = Len(entries) - 1
  <2>1. IsFiniteSet(DOMAIN entries) /\ Cardinality(DOMAIN entries) = Len(entries)
    BY <1>2, UpTo
  <2> QED
    BY <1>1, <2>1, FS_RemoveElement
<1>5. i \in Nat /\ i >= 1 /\ i <= Len(entries) /\ entries # <<>>
  BY <1>2
<1>6. current \in Nat /\ current >= 1 /\ current <= Len(entries)
  BY <1>5 DEF RowsOK
<1>7. Len(entries') \in Nat /\ Len(entries') = Len(entries) - 1 /\ (entries' # <<>> => Len(entries') >= 1)
  BY <1>3, <1>4
<1>8. current' \in Nat /\ current' >= 1 /\ current' <= Len(entries') + 1 /\ (entries' # <<>> => current' <= Len(entries'))
  BY <1>1, <1>5, <1>6, <1>7
<1> QED
  BY <1>3, <1>8 DEF RowsOK

\* How many rows of the disc are before the current one, and how many rows there are without them.
LEMMA FileRowsAre ==
  ASSUME RowsOK, NEW t \in Among(entries, FileRows)
  PROVE  /\ t \in Seq(Paths) /\ OneToOne(t) /\ Len(t) \in Nat
         /\ current - Cardinality((1 .. current - 1) \ FileRows) \in Nat
         /\ current - Cardinality((1 .. current - 1) \ FileRows) >= 1
         /\ t = <<>> => current - Cardinality((1 .. current - 1) \ FileRows) = 1
<1> DEFINE C == (1 .. current - 1) \ FileRows
<1>1. entries \in Seq(Paths) /\ OneToOne(entries) /\ FileRows \subseteq DOMAIN entries /\ current \in Nat /\ current >= 1
  BY DEF RowsOK, FileRows
<1>2. t \in Seq(Paths) /\ OneToOne(t) /\ Len(t) = Cardinality(FileRows) /\ IsFiniteSet(FileRows)
  BY <1>1, Selected
<1>3. IsFiniteSet(1 .. current - 1) /\ Cardinality(1 .. current - 1) = current - 1
  <2>1. current - 1 \in Nat
    BY <1>1
  <2> QED
    BY <2>1, UpTo
<1>4. IsFiniteSet(C) /\ Cardinality(C) <= current - 1 /\ Cardinality(C) \in Nat
  BY <1>3, FS_Subset, FS_CardinalityType
<1>5. ASSUME t = <<>> PROVE C = 1 .. current - 1
  <2>1. FileRows = {}
    BY <1>2, <1>5, FS_EmptySet
  <2> QED
    BY <2>1
<1> HIDE DEF C
<1>6. current - Cardinality(C) \in Nat /\ current - Cardinality(C) >= 1
  BY <1>1, <1>4
<1>7. t = <<>> => current - Cardinality(C) = 1
  BY <1>1, <1>3, <1>5
<1> QED
  BY <1>2, <1>6, <1>7 DEF C

LEMMA PurgeKeepsRows == RowsOK /\ PurgeCDRows => RowsOK'
<1> SUFFICES ASSUME RowsOK, PurgeCDRows PROVE RowsOK'
  OBVIOUS
<1> DEFINE kept == current - Cardinality((1 .. current - 1) \ FileRows)
<1>1. entries' \in Among(entries, FileRows) /\ current' = IF kept > Len(entries') /\ entries' # <<>> THEN Len(entries') ELSE kept
  BY DEF PurgeCDRows
<1>2. PICK t : t = entries'
  OBVIOUS
<1>3. t \in Seq(Paths) /\ OneToOne(t) /\ Len(t) \in Nat /\ kept \in Nat /\ kept >= 1 /\ (t = <<>> => kept = 1)
  BY <1>1, <1>2, FileRowsAre
<1> HIDE DEF kept
<1>4. t # <<>> => Len(t) >= 1
  BY <1>3
<1>5. t = <<>> => Len(t) = 0
  BY <1>3
<1>6. current' = IF kept > Len(t) /\ t # <<>> THEN Len(t) ELSE kept
  BY <1>1, <1>2
<1>7. current' \in Nat /\ current' >= 1 /\ current' <= Len(t) + 1 /\ (t # <<>> => current' <= Len(t))
  BY <1>3, <1>4, <1>5, <1>6
<1> QED
  BY <1>2, <1>3, <1>7 DEF RowsOK

LEMMA RestartKeepsRows == RowsOK /\ Restart => RowsOK'
<1> SUFFICES ASSUME RowsOK, Restart PROVE RowsOK'
  OBVIOUS
<1>1. entries' \in Among(entries, FileRows) /\ current' = IF current <= Len(entries') THEN current ELSE 1
  BY DEF Restart
<1>2. PICK t : t = entries'
  OBVIOUS
<1>3. t \in Seq(Paths) /\ OneToOne(t) /\ Len(t) \in Nat /\ (t # <<>> => Len(t) >= 1)
  BY <1>1, <1>2, FileRowsAre
<1>4. current' \in Nat /\ current' >= 1 /\ current' <= Len(t) + 1 /\ (t # <<>> => current' <= Len(t))
  BY <1>1, <1>2, <1>3 DEF RowsOK
<1> QED
  BY <1>2, <1>3, <1>4 DEF RowsOK

LEMMA OpenKeepsRows == RowsOK /\ (OpenCD \/ Clear) => RowsOK'
<1> SUFFICES ASSUME RowsOK, OpenCD \/ Clear PROVE RowsOK'
  OBVIOUS
<1>1. current' = 1
  BY DEF OpenCD, Clear
<1>2. entries' \in Seq(Paths) /\ OneToOne(entries')
  <2>1. CASE OpenCD
    <3>1. entries' = Disc
      BY <2>1 DEF OpenCD
    <3>2. Disc \in Seq(Range(Disc)) /\ OneToOne(Disc) /\ Range(Disc) \subseteq Paths
      BY PlaylistAssumption DEF OneToOne, Paths
    <3>3. Disc \in Seq(Paths)
      BY <3>2
    <3> QED
      BY <3>1, <3>2, <3>3
  <2>2. CASE Clear
    BY <2>2 DEF Clear, OneToOne
  <2> QED
    BY <2>1, <2>2
<1>3. Len(entries') \in Nat /\ (entries' # <<>> => Len(entries') >= 1)
  BY <1>2
<1> QED
  BY <1>1, <1>2, <1>3 DEF RowsOK

LEMMA MoveKeepsRows == RowsOK /\ Move => RowsOK' /\ Range(entries') = Range(entries)
<1> SUFFICES ASSUME RowsOK, Move PROVE RowsOK' /\ Range(entries') = Range(entries)
  OBVIOUS
<1>1. PICK i \in DOMAIN entries : i + 1 \in DOMAIN entries /\ SwapRows(i)
  BY DEF Move
<1>2. entries \in Seq(Paths) /\ Len(entries) \in Nat /\ DOMAIN entries = 1 .. Len(entries) /\ OneToOne(entries)
  BY DEF RowsOK
<1>3. /\ DOMAIN entries' = DOMAIN entries /\ entries' \in [1 .. Len(entries) -> Paths]
      /\ entries'[i] = entries[i + 1] /\ entries'[i + 1] = entries[i] /\ i \in Nat /\ i + 1 \in Nat
      /\ \A j \in DOMAIN entries : j # i /\ j # i + 1 => entries'[j] = entries[j]
  BY <1>1, <1>2 DEF SwapRows
<1>4. entries' \in Seq(Paths) /\ Len(entries') = Len(entries) /\ entries' # <<>> /\ entries # <<>>
  <2>1. entries' \in Seq(Paths)
    BY <1>2, <1>3, SeqDef
  <2> QED
    BY <1>1, <1>2, <1>3, <2>1
<1>5. OneToOne(entries')
  BY <1>1, <1>2, <1>3 DEF OneToOne
<1>6. Range(entries') = Range(entries)
  BY <1>1, <1>3 DEF Range
<1>7. current' \in DOMAIN entries /\ current \in DOMAIN entries
  <2>1. current \in DOMAIN entries
    BY <1>2, <1>4 DEF RowsOK
  <2> QED
    BY <1>1, <1>3, <2>1 DEF SwapRows, Swapped
<1> QED
  BY <1>2, <1>4, <1>5, <1>6, <1>7 DEF RowsOK

LEMMA SortKeepsRows ==
  RowsOK /\ SortBy => RowsOK' /\ Range(entries') = Range(entries) /\ entries'[current'] = entries[current]
<1> SUFFICES ASSUME RowsOK, SortBy
    PROVE  RowsOK' /\ Range(entries') = Range(entries) /\ entries'[current'] = entries[current]
  OBVIOUS
<1>1. PICK f \in Bijection(DOMAIN entries, DOMAIN entries) :
        /\ entries # <<>> /\ entries' = [i \in DOMAIN entries |-> entries[f[i]]]
        /\ current' = CHOOSE i \in DOMAIN entries : entries'[i] = entries[current]
  BY DEF SortBy
<1>2. entries \in Seq(Paths) /\ Len(entries) \in Nat /\ DOMAIN entries = 1 .. Len(entries) /\ OneToOne(entries)
  BY DEF RowsOK
<1>3. /\ f \in [DOMAIN entries -> DOMAIN entries] /\ \A i, j \in DOMAIN entries : f[i] = f[j] => i = j
      /\ \A k \in DOMAIN entries : \E i \in DOMAIN entries : f[i] = k
  BY DEF Bijection, Injection, IsInjective, Surjection
<1>4. entries' \in [1 .. Len(entries) -> Paths]
  BY <1>1, <1>2, <1>3
<1>5. entries' \in Seq(Paths) /\ Len(entries') = Len(entries)
  <2>1. entries' \in Seq(Paths)
    BY <1>2, <1>4, SeqDef
  <2> QED
    BY <1>2, <1>4, <2>1
<1>6. OneToOne(entries')
  BY <1>1, <1>2, <1>3 DEF OneToOne
<1>7. Range(entries') = Range(entries)
  BY <1>1, <1>3 DEF Range
<1>8. current \in DOMAIN entries
  BY <1>1, <1>2 DEF RowsOK
<1>9. current' \in DOMAIN entries /\ entries'[current'] = entries[current]
  <2>1. \E i \in DOMAIN entries : entries'[i] = entries[current]
    BY <1>1, <1>3, <1>8
  <2> QED
    BY <1>1, <2>1
<1> QED
  BY <1>1, <1>2, <1>5, <1>6, <1>7, <1>9 DEF RowsOK

\* The loaded paths go behind the rows, those without a row and each once.
LEMMA DrainAdds ==
  ASSUME RowsOK, StateOK, DrainPending
  PROVE  /\ entries' \in Seq(Paths) /\ OneToOne(entries') /\ Len(entries') \in Nat /\ Len(entries') >= Len(entries)
         /\ \A i \in DOMAIN entries : i \in DOMAIN entries' /\ entries'[i] = entries[i]
<1>1. PICK t \in Among(done, Fresh) : entries' = entries \o t
  BY DEF DrainPending
<1>2. done \in Seq(Paths) /\ Fresh \subseteq DOMAIN done
  BY DEF StateOK, Fresh, Paths
<1>3. t \in Seq(Paths) /\ Range(t) = {done[i] : i \in Fresh}
  BY <1>2, Selected
<1>4. PICK f \in InOrder(Fresh) : t = [i \in DOMAIN f |-> done[f[i]]]
  BY DEF Among
<1>5. f \in [1 .. Cardinality(Fresh) -> Fresh] /\ \A x, y \in DOMAIN f : f[x] = f[y] => x = y
  BY <1>4 DEF InOrder, Bijection, Injection, IsInjective
<1>6. \A i, j \in Fresh : done[i] = done[j] => i = j
  <2>1. \A i \in Fresh : i \in Nat /\ i >= 1
    BY <1>2
  <2> QED
    BY <2>1 DEF Fresh
<1>7. OneToOne(t)
  BY <1>4, <1>5, <1>6 DEF OneToOne
<1>8. \A x \in DOMAIN t : t[x] \notin Range(entries)
  BY <1>4, <1>5 DEF Fresh
<1>9. entries \in Seq(Paths) /\ Len(entries) \in Nat /\ Len(t) \in Nat /\ OneToOne(entries)
  BY <1>3 DEF RowsOK
<1>10. /\ entries' \in Seq(Paths) /\ Len(entries') = Len(entries) + Len(t)
       /\ DOMAIN entries = 1 .. Len(entries) /\ DOMAIN t = 1 .. Len(t) /\ DOMAIN entries' = 1 .. Len(entries) + Len(t)
       /\ \A i \in DOMAIN entries : entries'[i] = entries[i]
       /\ \A i \in DOMAIN entries' : i > Len(entries) => i - Len(entries) \in DOMAIN t /\ entries'[i] = t[i - Len(entries)]
  BY <1>1, <1>3, <1>9
<1>11. ASSUME NEW i \in DOMAIN entries', NEW j \in DOMAIN entries', entries'[i] = entries'[j] PROVE i = j
  <2>1. i \in Nat /\ j \in Nat /\ i >= 1 /\ j >= 1
    BY <1>9, <1>10
  <2>2. CASE i <= Len(entries) /\ j <= Len(entries)
    <3>1. i \in DOMAIN entries /\ j \in DOMAIN entries
      BY <1>9, <1>10, <2>1, <2>2
    <3> QED
      BY <1>9, <1>10, <1>11, <3>1 DEF OneToOne
  <2>3. CASE i > Len(entries) /\ j > Len(entries)
    <3>1. i - Len(entries) = j - Len(entries)
      BY <1>7, <1>10, <1>11, <2>3 DEF OneToOne
    <3> QED
      BY <1>9, <2>1, <3>1
  <2>4. ASSUME NEW x \in DOMAIN entries', NEW y \in DOMAIN entries', x <= Len(entries), y > Len(entries), entries'[x] = entries'[y]
        PROVE  FALSE
    <3>1. x \in DOMAIN entries
      BY <1>9, <1>10, <2>4
    <3> QED
      BY <1>8, <1>10, <2>4, <3>1 DEF Range
  <2> QED
    BY <1>9, <1>11, <2>1, <2>2, <2>3, <2>4
<1>12. \A i \in DOMAIN entries : i \in DOMAIN entries'
  BY <1>9, <1>10
<1>13. Len(entries') \in Nat /\ Len(entries') >= Len(entries)
  BY <1>9, <1>10
<1>14. OneToOne(entries')
  BY <1>11 DEF OneToOne
<1> QED
  BY <1>10, <1>12, <1>13, <1>14

LEMMA DrainKeepsRows == RowsOK /\ StateOK /\ DrainPending => RowsOK'
<1> SUFFICES ASSUME RowsOK, StateOK, DrainPending PROVE RowsOK'
  OBVIOUS
<1>1. current' = current
  BY DEF DrainPending
<1>2. /\ entries' \in Seq(Paths) /\ OneToOne(entries') /\ Len(entries') \in Nat /\ Len(entries') >= Len(entries)
  BY DrainAdds
<1>3. current \in Nat /\ current >= 1 /\ Len(entries) \in Nat /\ current <= Len(entries) + 1 /\ (entries # <<>> => current <= Len(entries))
  BY DEF RowsOK
<1>4. entries = <<>> => Len(entries) = 0
  OBVIOUS
<1>5. entries' # <<>> => Len(entries') >= 1
  BY <1>2
<1> QED
  BY <1>1, <1>2, <1>3, <1>4, <1>5 DEF RowsOK

LEMMA SwitchKeepsRows ==
  RowsOK /\ OrderOK /\ (NextTrack \/ Previous \/ SelectAt) => RowsOK' /\ entries' = entries
<1> SUFFICES ASSUME RowsOK, OrderOK, NextTrack \/ Previous \/ SelectAt PROVE RowsOK' /\ entries' = entries
  OBVIOUS
<1>1. entries \in Seq(Paths) /\ Len(entries) \in Nat /\ DOMAIN entries = 1 .. Len(entries)
  BY DEF RowsOK
<1>2. entries' = entries /\ entries # <<>>
  BY <1>1 DEF NextTrack, Previous, SelectAt
<1>3. current \in DOMAIN entries /\ current \in Nat
  BY <1>1, <1>2 DEF RowsOK
<1>4. order \in [DOMAIN entries -> DOMAIN entries] /\ (shuffle => pos \in DOMAIN entries)
  BY <1>2 DEF OrderOK, OrderFollowsRows, Bijection, Injection
<1>5. current' \in DOMAIN entries
  <2>1. CASE NextTrack
    <3>1. CASE shuffle /\ pos + 1 <= Len(order) /\ current' = order[pos + 1]
      <4>1. Len(order) = Len(entries) /\ pos \in Nat /\ pos >= 1
        BY <1>1, <1>4 DEF OrderOK
      <4>2. pos + 1 \in DOMAIN entries
        BY <1>1, <3>1, <4>1
      <4> QED
        BY <1>4, <3>1, <4>2
    <3>2. CASE current' = current
      BY <1>3, <3>2
    <3>3. CASE current' = (current % Len(entries)) + 1
      <4>1. Len(entries) \in Nat /\ Len(entries) >= 1 /\ current \in Int
        BY <1>1, <1>3
      <4>2. current % Len(entries) \in 0 .. Len(entries) - 1
        BY <4>1
      <4> QED
        BY <1>1, <3>3, <4>1, <4>2
    <3> QED
      BY <2>1, <3>1, <3>2, <3>3 DEF NextTrack
  <2>2. CASE Previous
    <3>1. CASE shuffle
      <4>1. pos \in Nat /\ pos >= 1 /\ pos \in DOMAIN entries
        BY <1>4, <3>1 DEF OrderOK
      <4>2. pos' = (IF pos > 1 THEN pos - 1 ELSE pos) /\ current' = order[pos']
        BY <2>2, <3>1 DEF Previous
      <4>3. pos' \in DOMAIN entries
        BY <1>1, <4>1, <4>2
      <4> QED
        BY <1>4, <4>2, <4>3
    <3>2. CASE ~shuffle
      BY <1>1, <1>3, <2>2, <3>2 DEF Previous
    <3> QED
      BY <3>1, <3>2
  <2>3. CASE SelectAt
    BY <2>3 DEF SelectAt
  <2> QED
    BY <2>1, <2>2, <2>3
<1> QED
  BY <1>1, <1>2, <1>5 DEF RowsOK

\* Steps that leave the rows and the current number alone.
Still == \/ ToggleShuffle \/ CycleRepeat \/ AddDirectory \/ SparkleWinners \/ StartLoader \/ Loader
         \/ UNCHANGED vars

LEMMA StillIs == Still => UNCHANGED <<entries, current>>
BY DEF Still, ToggleShuffle, CycleRepeat, AddDirectory, SparkleWinners, StartLoader, Loader, LoaderTake, LoaderTag, LoaderExit, vars, rows

LEMMA RowsKept == RowsOK /\ StateOK /\ OrderOK /\ [Next]_vars => RowsOK'
<1> SUFFICES ASSUME RowsOK, StateOK, OrderOK, [Next]_vars PROVE RowsOK'
  OBVIOUS
<1>1. CASE Still
  BY <1>1, StillIs DEF RowsOK
<1> QED
  BY <1>1, AddKeepsRows, RemoveKeepsRows, PurgeKeepsRows, RestartKeepsRows, OpenKeepsRows, MoveKeepsRows, SortKeepsRows, DrainKeepsRows,
     SwitchKeepsRows DEF Next, User, Still

-----------------------------------------------------------------------------
(* The order. *)

LEMMA SameOrder == ASSUME NEW n \in Nat PROVE [i \in 1 .. n |-> i] \in Bijection(1 .. n, 1 .. n) /\ [i \in 1 .. n |-> i] \in Seq(Nat)
<1>1. [i \in 1 .. n |-> i] \in Bijection(1 .. n, 1 .. n)
  BY DEF Bijection, Injection, IsInjective, Surjection
<1>2. [i \in 1 .. n |-> i] \in [1 .. n -> Nat]
  OBVIOUS
<1> QED
  BY <1>1, <1>2, SeqDef

LEMMA OrderIsSeq == ASSUME NEW n \in Nat, NEW f \in Bijection(1 .. n, 1 .. n) PROVE f \in Seq(Nat) /\ DOMAIN f = 1 .. n
<1>1. f \in [1 .. n -> Nat]
  BY DEF Bijection, Injection
<1> QED
  BY <1>1, SeqDef

\* Rebuilding makes an order of the new rows that stands at the current one.
LEMMA Rebuilt == RowsOK' /\ RebuildShuffleOrder => OrderOK'
<1> SUFFICES ASSUME RowsOK', RebuildShuffleOrder PROVE OrderOK'
  OBVIOUS
<1> DEFINE n == Len(entries')
<1>1. n \in Nat /\ DOMAIN entries' = 1 .. n /\ current' \in Nat /\ current' >= 1 /\ (entries' # <<>> <=> n > 0)
  BY DEF RowsOK
<1>2. CASE shuffle' /\ n > 0
  <2>1. PICK f \in Bijection(1 .. n, 1 .. n) : f[1] = current' /\ order' = f /\ pos' = 1
    BY <1>2 DEF RebuildShuffleOrder
  <2>2. order' \in Seq(Nat) /\ DOMAIN order' = 1 .. n
    BY <1>1, <2>1, OrderIsSeq
  <2>3. pos' \in DOMAIN order' /\ order'[pos'] = current' /\ pos' \in Nat \ {0}
    BY <1>1, <1>2, <2>1, <2>2
  <2>4. order' \in Bijection(DOMAIN entries', DOMAIN entries')
    BY <1>1, <2>1
  <2> QED
    BY <2>2, <2>3, <2>4 DEF OrderOK, OrderFollowsRows
<1>3. CASE ~(shuffle' /\ n > 0)
  <2>1. order' = [i \in 1 .. n |-> i] /\ pos' = current'
    BY <1>3 DEF RebuildShuffleOrder
  <2>2. order' \in Seq(Nat) /\ order' \in Bijection(DOMAIN entries', DOMAIN entries')
    BY <1>1, <2>1, SameOrder
  <2>3. pos' \in Nat \ {0}
    BY <1>1, <2>1
  <2>4. ~(shuffle' /\ entries' # <<>>)
    BY <1>1, <1>3
  <2> QED
    BY <2>2, <2>3, <2>4 DEF OrderOK, OrderFollowsRows
<1> QED
  BY <1>2, <1>3

LEMMA OrderKept == RowsOK /\ StateOK /\ OrderOK /\ [Next]_vars => OrderOK'
<1> SUFFICES ASSUME RowsOK, StateOK, OrderOK, [Next]_vars PROVE OrderOK'
  OBVIOUS
<1>1. RowsOK'
  BY RowsKept
<1>2. entries \in Seq(Paths) /\ Len(entries) \in Nat /\ DOMAIN entries = 1 .. Len(entries)
  BY DEF RowsOK
<1>3. /\ order \in Seq(Nat) /\ pos \in Nat \ {0} /\ order \in Bijection(DOMAIN entries, DOMAIN entries)
      /\ DOMAIN order = DOMAIN entries /\ Len(order) = Len(entries)
  BY <1>2, OrderIsSeq DEF OrderOK, OrderFollowsRows
<1>4. CASE RebuildShuffleOrder
  BY <1>1, <1>4, Rebuilt
<1>5. CASE UNCHANGED <<entries, current, order, pos, shuffle>>
  BY <1>5 DEF OrderOK, OrderFollowsRows
<1>6. CASE Clear
  <2>1. entries' = <<>> /\ order' = <<>> /\ pos' = pos /\ <<>> \in Seq(Nat) /\ DOMAIN <<>> = {}
    BY <1>6 DEF Clear
  <2>2. <<>> \in Bijection({}, {})
    BY DEF Bijection, Injection, IsInjective, Surjection
  <2> QED
    BY <1>3, <2>1, <2>2 DEF OrderOK, OrderFollowsRows
<1>7. CASE NextTrack
  <2>1. entries' = entries /\ shuffle' = shuffle
    BY <1>7 DEF NextTrack, modes
  <2>2. CASE shuffle /\ pos + 1 <= Len(order) /\ pos' = pos + 1 /\ current' = order[pos'] /\ order' = order
    <3>1. pos' \in DOMAIN order /\ pos' \in Nat \ {0}
      BY <1>2, <1>3, <2>2
    <3> QED
      BY <1>3, <2>1, <2>2, <3>1 DEF OrderOK, OrderFollowsRows
  <2>3. CASE ~shuffle /\ UNCHANGED <<order, pos>>
    BY <1>3, <2>1, <2>3 DEF OrderOK, OrderFollowsRows
  <2> QED
    BY <1>4, <1>7, <2>2, <2>3 DEF NextTrack, shuffled
<1>8. CASE Previous
  <2>1. UNCHANGED <<entries, order, shuffle>> /\ entries # <<>>
    BY <1>8 DEF Previous, modes
  <2>2. CASE shuffle
    <3>1. pos' = (IF pos > 1 THEN pos - 1 ELSE pos) /\ current' = order[pos'] /\ pos \in DOMAIN order
      BY <1>8, <2>1, <2>2 DEF Previous, OrderOK, OrderFollowsRows
    <3>2. pos' \in DOMAIN order /\ pos' \in Nat \ {0}
      BY <1>2, <1>3, <3>1
    <3> QED
      BY <1>3, <2>1, <3>1, <3>2 DEF OrderOK, OrderFollowsRows
  <2>3. CASE ~shuffle
    BY <1>3, <1>8, <2>1, <2>3 DEF OrderOK, OrderFollowsRows, Previous
  <2> QED
    BY <2>2, <2>3
<1>9. CASE SelectAt
  <2>1. UNCHANGED <<entries, order, shuffle>>
    BY <1>9 DEF SelectAt, modes
  <2>2. CASE shuffle
    <3>1. pos' \in DOMAIN order /\ order[pos'] = current'
      BY <1>9, <2>2 DEF SelectAt
    <3>2. pos' \in Nat \ {0}
      BY <1>2, <1>3, <3>1
    <3> QED
      BY <1>3, <2>1, <3>1, <3>2 DEF OrderOK, OrderFollowsRows
  <2>3. CASE ~shuffle
    BY <1>3, <1>9, <2>1, <2>3 DEF OrderOK, OrderFollowsRows, SelectAt
  <2> QED
    BY <2>2, <2>3
<1>10. CASE Restart
  <2>1. Len(entries') \in Nat /\ DOMAIN entries' = 1 .. Len(entries')
    BY <1>1 DEF RowsOK
  <2>2. CASE shuffle /\ entries' # <<>>
    <3>1. PICK f \in Bijection(DOMAIN entries', DOMAIN entries') : order' = f /\ pos' \in DOMAIN order' /\ order'[pos'] = current'
      BY <1>10, <2>2 DEF Restart
    <3>2. f \in Seq(Nat) /\ DOMAIN f = 1 .. Len(entries')
      BY <2>1, <3>1, OrderIsSeq
    <3>3. pos' \in Nat \ {0}
      BY <2>1, <3>1, <3>2
    <3> QED
      BY <3>1, <3>2, <3>3 DEF OrderOK, OrderFollowsRows
  <2>3. CASE ~(shuffle /\ entries' # <<>>)
    <3>1. order' = [i \in 1 .. Len(entries') |-> i] /\ pos' = 1 /\ shuffle' = shuffle
      BY <1>10, <2>1, <2>3 DEF Restart, modes
    <3>2. order' \in Seq(Nat) /\ order' \in Bijection(DOMAIN entries', DOMAIN entries')
      BY <2>1, <3>1, SameOrder
    <3> QED
      BY <2>3, <3>1, <3>2 DEF OrderOK, OrderFollowsRows
  <2> QED
    BY <2>2, <2>3
<1>11. CASE AddTrack \/ RemoveAt \/ PurgeCDRows \/ OpenCD \/ Move \/ SortBy \/ ToggleShuffle \/ DrainPending
  BY <1>4, <1>11 DEF AddTrack, RemoveAt, PurgeCDRows, OpenCD, Move, SortBy, ToggleShuffle, DrainPending
<1>12. CASE CycleRepeat \/ AddDirectory \/ SparkleWinners \/ StartLoader \/ Loader \/ UNCHANGED vars
  BY <1>5, <1>12 DEF CycleRepeat, AddDirectory, SparkleWinners, StartLoader, Loader, LoaderTake, LoaderTag, LoaderExit, vars, rows, shuffled, modes
<1> QED
  BY <1>6, <1>7, <1>8, <1>9, <1>10, <1>11, <1>12 DEF Next, User

-----------------------------------------------------------------------------
(* The loader and the marks. *)

LEMMA StateKept == RowsOK /\ StateOK /\ [Next]_vars => StateOK'
<1> SUFFICES ASSUME RowsOK, StateOK, [Next]_vars PROVE StateOK'
  OBVIOUS
<1>1. CASE UNCHANGED <<modes, loading, ui>>
  BY <1>1 DEF StateOK, modes, loading
<1>2. CASE ToggleShuffle
  BY <1>2 DEF StateOK, ToggleShuffle, loading
<1>3. CASE CycleRepeat
  BY <1>3 DEF StateOK, CycleRepeat, loading
<1>4. CASE AddDirectory
  <2>0. PICK d \in Directories :
          ui' = "start" /\ \E found \in Among(d, {i \in DOMAIN d : d[i] \notin Range(entries)}) : work' = work \o found
    BY <1>4 DEF AddDirectory
  <2>1. PICK found \in Among(d, {i \in DOMAIN d : d[i] \notin Range(entries)}) : work' = work \o found
    BY <2>0
  <2>2. d \in Seq(Files) /\ {i \in DOMAIN d : d[i] \notin Range(entries)} \subseteq DOMAIN d
    BY <2>0, PlaylistAssumption
  <2>3. found \in Seq(Files)
    BY <2>1, <2>2, Selected
  <2>4. work' \in Seq(Files)
    BY <2>1, <2>3 DEF StateOK
  <2>5. UNCHANGED <<modes, done, loaderRunning, loader, tagging>>
    BY <1>4 DEF AddDirectory
  <2> QED
    BY <2>0, <2>4, <2>5 DEF StateOK, modes
<1>5. CASE StartLoader
  BY <1>5 DEF StateOK, StartLoader, modes
<1>6. CASE LoaderTake
  <2>1. CASE work = <<>>
    BY <1>6, <2>1 DEF StateOK, LoaderTake, modes
  <2>2. CASE work # <<>>
    <3>1. tagging' = Head(work) /\ work' = Tail(work) /\ loader' = "tag" /\ UNCHANGED <<loaderRunning, modes, done, ui>>
      BY <1>6, <2>2 DEF LoaderTake
    <3>2. Head(work) \in Files /\ Tail(work) \in Seq(Files)
      BY <2>2 DEF StateOK
    <3> QED
      BY <3>1, <3>2 DEF StateOK, modes
  <2> QED
    BY <2>1, <2>2
<1>7. CASE LoaderTag
  <2>1. Append(done, tagging) \in Seq(Files)
    BY <1>7 DEF StateOK, LoaderTag
  <2> QED
    BY <1>7, <2>1 DEF StateOK, LoaderTag, modes
<1>8. CASE LoaderExit
  BY <1>8 DEF StateOK, LoaderExit, modes
<1>9. CASE DrainPending
  <2>1. done' = <<>> /\ <<>> \in Seq(Files) /\ UNCHANGED <<modes, work, loaderRunning, loader, tagging, ui>>
    BY <1>9 DEF DrainPending
  <2> QED
    BY <2>1 DEF StateOK, modes
<1>10. CASE Restart
  <2>1. /\ work' = <<>> /\ done' = <<>> /\ loaderRunning' = FALSE /\ loader' = "none" /\ tagging' = Nothing
        /\ UNCHANGED <<modes, ui>> /\ <<>> \in Seq(Files)
    BY <1>10 DEF Restart
  <2> QED
    BY <2>1 DEF StateOK, modes
<1>11. CASE NextTrack \/ Previous \/ SelectAt \/ AddTrack \/ RemoveAt \/ PurgeCDRows \/ OpenCD \/ Clear \/ Move \/ SortBy \/ SparkleWinners
            \/ UNCHANGED vars
  BY <1>1, <1>11 DEF NextTrack, Previous, SelectAt, AddTrack, RemoveAt, PurgeCDRows, OpenCD, Clear, Move, SortBy, SparkleWinners, vars
<1> QED
  BY <1>2, <1>3, <1>4, <1>5, <1>6, <1>7, <1>8, <1>9, <1>10, <1>11 DEF Next, User, Loader

LEMMA CacheKept == PlaylistInv /\ [Next]_vars => CacheOK'
<1> SUFFICES ASSUME PlaylistInv, [Next]_vars PROVE CacheOK'
  OBVIOUS
<1>0. RowsOK /\ StateOK /\ OrderOK /\ CacheOK
  BY DEF PlaylistInv
<1>1. CASE UNCHANGED cache /\ Range(entries') = Range(entries)
  BY <1>0, <1>1 DEF CacheOK, SparkleFollowsRows, cache
<1>2. CASE BumpRevision
  BY <1>2 DEF CacheOK, SparkleFollowsRows, BumpRevision
<1>3. CASE Move
  BY <1>0, <1>1, <1>3, MoveKeepsRows DEF Move
<1>4. CASE SortBy
  BY <1>0, <1>1, <1>4, SortKeepsRows DEF SortBy
<1>5. CASE SparkleWinners
  <2>1. Range(entries) \subseteq Paths
    <3>1. entries \in Seq(Paths)
      BY <1>0 DEF RowsOK
    <3> QED
      BY <3>1 DEF Range
  <2>2. entries' = entries
    BY <1>5 DEF SparkleWinners, rows
  <2>3. sparkled' = (IF loaderRunning THEN {} ELSE Range(entries)) /\ sparkleFresh' = ~loaderRunning
    BY <1>5 DEF SparkleWinners
  <2> QED
    BY <2>1, <2>2, <2>3 DEF CacheOK, SparkleFollowsRows
<1>6. CASE Restart
  BY <1>2, <1>6 DEF Restart, BumpRevision
<1>7. CASE AddTrack \/ RemoveAt \/ OpenCD \/ Clear
  BY <1>2, <1>7 DEF AddTrack, RemoveAt, OpenCD, Clear
<1>8. CASE PurgeCDRows \/ DrainPending
  BY <1>1, <1>2, <1>8 DEF PurgeCDRows, DrainPending
<1>9. CASE NextTrack \/ Previous \/ SelectAt
  <2>1. UNCHANGED cache
    BY <1>9 DEF NextTrack, Previous, SelectAt
  <2> QED
    BY <1>0, <1>1, <1>9, <2>1, SwitchKeepsRows
<1>10. CASE ToggleShuffle \/ CycleRepeat \/ AddDirectory \/ StartLoader \/ Loader \/ UNCHANGED vars
  <2>1. UNCHANGED cache
    BY <1>10 DEF ToggleShuffle, CycleRepeat, AddDirectory, StartLoader, Loader, LoaderTake, LoaderTag, LoaderExit, vars
  <2>2. entries' = entries
    BY <1>10, StillIs DEF Still
  <2> QED
    BY <1>1, <2>1, <2>2
<1> QED
  BY <1>3, <1>4, <1>5, <1>6, <1>7, <1>8, <1>9, <1>10 DEF Next, User

-----------------------------------------------------------------------------
(* Theorems. *)

LEMMA Inductive == Spec => []PlaylistInv
<1>1. PlaylistInv /\ [Next]_vars => PlaylistInv'
  BY RowsKept, StateKept, OrderKept, CacheKept DEF PlaylistInv
<1> QED
  BY <1>1, InitInv, PTL DEF Spec

\* No file has two rows: adds, loads of directories that overlap, with duplicates in one batch,
\* and restarts, in any order (indexOfPath in every add of PlaylistManager).
THEOREM OneRowPerFile == Spec => []NoDuplicateRows
<1>1. PlaylistInv => NoDuplicateRows
  BY DEF PlaylistInv, RowsOK, OneToOne, NoDuplicateRows
<1> QED
  BY <1>1, Inductive, PTL

\* next(), previous() and peekNext() never index beyond the rows, and under shuffle go on from
\* the row that plays: rebuildShuffleOrder() comes with every edit it has to come with.
THEOREM OrderFits == Spec => []OrderFollowsRows
<1>1. PlaylistInv => OrderFollowsRows
  BY DEF PlaylistInv, OrderOK
<1> QED
  BY <1>1, Inductive, PTL

\* sparkleWinners() never keeps the marks of other rows.
THEOREM MarksFollowRows == Spec => []SparkleFollowsRows
<1>1. PlaylistInv => SparkleFollowsRows
  BY DEF PlaylistInv, CacheOK
<1> QED
  BY <1>1, Inductive, PTL

\* What is armed for the gapless switch is what next() moves to, but where the shuffle order
\* starts over.
THEOREM ArmedIsNext == Spec => PeekIsNext
<1>1. PlaylistInv /\ [Next]_vars => [LandsElsewhere /\ repeat # "one" /\ ~Wraps => ~NextTrack]_vars
  <2> SUFFICES ASSUME PlaylistInv, LandsElsewhere, repeat # "one", ~Wraps, NextTrack PROVE FALSE
    OBVIOUS
  <2>1. RowsOK /\ OrderOK
    BY DEF PlaylistInv
  <2>2. /\ entries # <<>> /\ entries' = entries /\ entries[current'] # PeekNext
        /\ Len(entries) \in Nat /\ current \in Nat /\ current >= 1 /\ current <= Len(entries)
    BY <2>1 DEF LandsElsewhere, RowsOK
  <2>3. CASE shuffle
    <3>1. pos + 1 <= Len(order) /\ current' = order[pos + 1]
      BY <2>3 DEF NextTrack
    <3>2. PeekNext = entries[order[pos + 1]]
      BY <2>2, <2>3, <3>1 DEF PeekNext, Wraps
    <3> QED
      BY <2>2, <3>1, <3>2
  <2>4. CASE ~shuffle
    <3>1. (current < Len(entries) \/ repeat = "all") /\ current' = (current % Len(entries)) + 1
      BY <2>4 DEF NextTrack, Wraps
    <3>2. CASE current < Len(entries)
      <4>1. current' = current + 1
        BY <2>2, <3>1, <3>2
      <4>2. PeekNext = entries[current + 1]
        BY <2>2, <2>4, <3>2 DEF PeekNext, Wraps
      <4> QED
        BY <2>2, <4>1, <4>2
    <3>3. CASE current = Len(entries)
      <4>1. current' = 1 /\ repeat = "all"
        BY <2>2, <3>1, <3>3
      <4>2. PeekNext = entries[1]
        BY <2>2, <2>4, <3>3, <4>1 DEF PeekNext, Wraps
      <4> QED
        BY <2>2, <4>1, <4>2
    <3> QED
      BY <2>2, <3>2, <3>3
  <2> QED
    BY <2>3, <2>4
<1> QED
  BY <1>1, Inductive, PTL DEF Spec, PeekIsNext

\* No edit changes which track is the current one, unless it removes it; and a restart of a list
\* of files resumes at it.
THEOREM CurrentTrackKept == Spec => EditsKeepCurrent
<1>1. PlaylistInv /\ [Next]_vars => [CurrentMoves => ~Edit /\ ~(Restart /\ Range(entries) \subseteq Files)]_vars
  <2> SUFFICES ASSUME PlaylistInv, CurrentMoves, Edit \/ (Restart /\ Range(entries) \subseteq Files) PROVE FALSE
    OBVIOUS
  <2>1. RowsOK /\ StateOK
    BY DEF PlaylistInv
  <2>2. /\ entries \in Seq(Paths) /\ Len(entries) \in Nat /\ DOMAIN entries = 1 .. Len(entries) /\ entries # <<>>
        /\ current \in Nat /\ current >= 1 /\ current <= Len(entries) /\ current \in DOMAIN entries
        /\ entries[current] \in Range(entries') /\ entries'[current'] # entries[current]
    BY <2>1 DEF CurrentMoves, RowsOK
  <2>3. CASE AddTrack
    BY <2>2, <2>3 DEF AddTrack
  <2>4. CASE ToggleShuffle
    BY <2>2, <2>4 DEF ToggleShuffle, rows
  <2>5. CASE SortBy
    BY <2>1, <2>2, <2>5, SortKeepsRows
  <2>6. CASE DrainPending
    BY <2>1, <2>2, <2>6, DrainAdds DEF DrainPending
  <2>7. CASE Move
    BY <2>2, <2>7 DEF Move, SwapRows, Swapped
  \* What is selected has the current row, further up by the rows that go.
  <2>8. ASSUME NEW K, K \subseteq DOMAIN entries, entries' \in Among(entries, K)
        PROVE  /\ current \in K /\ Len(entries') \in Nat
               /\ LET shift == Cardinality((1 .. current - 1) \ K)
                  IN shift \in Nat /\ current - shift <= Len(entries') /\ entries'[current - shift] = entries[current]
    <3> DEFINE shift == Cardinality((1 .. current - 1) \ K)
    <3>1. entries' \in Seq(Paths) /\ Range(entries') = {entries[i] : i \in K}
      BY <2>2, <2>8, Selected
    <3>2. current \in K
      BY <2>1, <2>2, <2>8, <3>1 DEF RowsOK, OneToOne
    <3>3. shift \in Nat /\ current - shift \in DOMAIN entries' /\ entries'[current - shift] = entries[current]
      BY <2>2, <2>8, <3>2, Selected
    <3>4. Len(entries') \in Nat /\ DOMAIN entries' = 1 .. Len(entries')
      BY <3>1
    <3> HIDE DEF shift
    <3>5. current - shift <= Len(entries')
      BY <3>3, <3>4
    <3> QED
      BY <3>2, <3>3, <3>4, <3>5 DEF shift
  <2>9. CASE RemoveAt
    <3>1. PICK i \in DOMAIN entries :
            /\ entries' \in Among(entries, DOMAIN entries \ {i})
            /\ current' = IF current > i \/ (current > Len(entries') /\ entries' # <<>>) THEN current - 1 ELSE current
      BY <2>9 DEF RemoveAt
    <3> DEFINE C == (1 .. current - 1) \ (DOMAIN entries \ {i})
    <3>2. /\ current # i /\ Len(entries') \in Nat /\ Cardinality(C) \in Nat
          /\ current - Cardinality(C) <= Len(entries') /\ entries'[current - Cardinality(C)] = entries[current]
      BY <2>8, <3>1
    <3>3. CASE i < current
      <4>1. C = {i}
        BY <2>2, <3>1, <3>3
      <4>2. Cardinality(C) = 1
        BY <4>1, FS_Singleton
      <4> QED
        BY <2>2, <3>1, <3>2, <3>3, <4>2
    <3>4. CASE current < i
      <4>1. C = {}
        BY <2>2, <3>1, <3>4
      <4>2. Cardinality(C) = 0
        BY <4>1, FS_EmptySet
      <4>3. current - 0 = current
        BY <2>2
      <4> QED
        BY <2>2, <3>1, <3>2, <3>4, <4>2, <4>3
    <3> QED
      BY <2>2, <3>1, <3>2, <3>3, <3>4
  <2>10. CASE PurgeCDRows
    <3> DEFINE kept == current - Cardinality((1 .. current - 1) \ FileRows)
    <3>1. entries' \in Among(entries, FileRows) /\ current' = IF kept > Len(entries') /\ entries' # <<>> THEN Len(entries') ELSE kept
      BY <2>10 DEF PurgeCDRows
    <3>2. FileRows \subseteq DOMAIN entries
      BY DEF FileRows
    <3>3. Cardinality((1 .. current - 1) \ FileRows) \in Nat /\ kept <= Len(entries') /\ entries'[kept] = entries[current] /\ Len(entries') \in Nat
      BY <2>8, <3>1, <3>2
    <3>4. kept \in Int
      BY <2>2, <3>3
    <3> HIDE DEF kept
    <3>5. ~(kept > Len(entries'))
      BY <3>3, <3>4
    <3> QED
      BY <2>2, <3>1, <3>3, <3>5
  <2>11. CASE Restart /\ Range(entries) \subseteq Files
    <3>1. FileRows = DOMAIN entries
      BY <2>11 DEF FileRows, Range
    <3>2. entries' \in Among(entries, DOMAIN entries) /\ current' = IF current <= Len(entries') THEN current ELSE 1
      BY <2>11, <3>1 DEF Restart
    <3> DEFINE C == (1 .. current - 1) \ DOMAIN entries
    <3>3. current - Cardinality(C) <= Len(entries') /\ entries'[current - Cardinality(C)] = entries[current]
      BY <2>8, <3>2
    <3>4. C = {}
      BY <2>2
    <3>5. Cardinality(C) = 0
      BY <3>4, FS_EmptySet
    <3> HIDE DEF C
    <3>6. current - 0 = current
      BY <2>2
    <3> QED
      BY <2>2, <3>2, <3>3, <3>5, <3>6
  <2> QED
    BY <2>3, <2>4, <2>5, <2>6, <2>7, <2>9, <2>10, <2>11 DEF Edit
<1> QED
  BY <1>1, Inductive, PTL DEF Spec, EditsKeepCurrent
=============================================================================
