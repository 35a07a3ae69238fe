-------------------------- MODULE TitleKeysProofs --------------------------
(***************************************************************************)
(* Proofs about dvdcss_title, for any number of handles, blocks and keys.  *)
(*                                                                         *)
(* Searching: a set of positions that holds all positions before one of    *)
(* its own is 1 .. m for its cardinality m, so the walk along the list and *)
(* the place of a new entry exist, and the list stays sorted.              *)
(*                                                                         *)
(* Inv is inductive whatever the files hold: a call beyond the list is     *)
(* about a block that the list lacks.  Genuine, on top of it, says that    *)
(* every file holds a leading part of the text of one key; this needs      *)
(* complete writes or one key per title (Untorn), since a short write over *)
(* another key leaves a mixture.                                           *)
(***************************************************************************)
EXTENDS TitleKeys, SequenceTheorems, FiniteSetTheorems, TLAPS

(***************************************************************************)
(* Searching a list.                                                       *)
(***************************************************************************)
\* A set of positions that contains all positions before one of its own.
LEMMA LeadingPositions ==
    ASSUME NEW L \in Nat, NEW T, T \subseteq 1 .. L,
           \A i \in T : \A j \in 1 .. i : j \in T
    PROVE  \E m \in 0 .. L : T = 1 .. m
  <1> DEFINE m == Cardinality(T)
  <1>1. IsFiniteSet(1 .. L) /\ Cardinality(1 .. L) = L
    BY FS_Interval
  <1>2. m \in Nat /\ m <= L
    <2>1. IsFiniteSet(T) /\ Cardinality(T) <= Cardinality(1 .. L)
      BY <1>1, FS_Subset, Zenon
    <2> QED BY <1>1, <2>1, FS_CardinalityType
  <1> HIDE DEF m
  <1>3. ASSUME NEW i \in T PROVE i <= m
    <2>1. i \in 1 .. L /\ 1 .. i \subseteq T
      BY <1>3
    <2>2. IsFiniteSet(T)
      BY <1>1, FS_Subset
    <2>3. Cardinality(1 .. i) = i
      BY <2>1, FS_Interval
    <2> QED BY <2>1, <2>2, <2>3, FS_Subset DEF m
  <1>4. ASSUME NEW i \in 1 .. m, i \notin T PROVE FALSE
    <2>1. T \subseteq 1 .. i - 1
      BY <1>2, <1>4
    <2>2. i - 1 \in Nat /\ IsFiniteSet(1 .. i - 1) /\ Cardinality(1 .. i - 1) = i - 1
      BY <1>2, FS_Interval
    <2>3. m <= i - 1
      BY <2>1, <2>2, FS_Subset DEF m
    <2> QED BY <1>2, <2>3
  <1>5. T \subseteq 1 .. m
    <2>1. \A i \in T : i \in 1 .. L
      OBVIOUS
    <2> QED BY <1>2, <1>3, <2>1
  <1>6. 1 .. m \subseteq T
    BY <1>4
  <1>7. T = 1 .. m
    BY <1>5, <1>6, Zenon
  <1>8. m \in 0 .. L
    BY <1>2
  <1> QED BY <1>7, <1>8

\* The block of every entry is a number.
LEMMA EntryFacts ==
    ASSUME NEW list \in Seq(Entries), NEW i \in 1 .. Len(list)
    PROVE  /\ list[i] \in Entries
           /\ list[i].i_startlb \in Blocks /\ list[i].i_startlb \in Int
           /\ list[i].p_key \in Seq(Int)
  <1>1. list[i] \in Entries
    BY ElementOfSeq
  <1> QED BY <1>1, BlocksAssumption DEF Entries

\* The leading entries that start before a block.
LEMMA SpotFacts ==
    ASSUME NEW list \in Seq(Entries), NEW b \in Blocks
    PROVE  /\ Spot(list, b) \in 0 .. Len(list)
           /\ \A j \in 1 .. Spot(list, b) : list[j].i_startlb < b
           /\ Spot(list, b) = Len(list) \/ list[Spot(list, b) + 1].i_startlb >= b
  <1>1. Len(list) \in Nat /\ b \in Int
    BY LenProperties, BlocksAssumption
  <1> DEFINE T == {n \in 1 .. Len(list) : \A j \in 1 .. n : list[j].i_startlb < b}
  <1>2. \E m \in 0 .. Len(list) : T = 1 .. m
    <2>1. T \subseteq 1 .. Len(list)
      OBVIOUS
    <2>2. ASSUME NEW i \in T, NEW j \in 1 .. i PROVE j \in T
      BY <1>1
    <2> HIDE DEF T
    <2> QED BY <1>1, <2>1, <2>2, LeadingPositions
  <1>3. PICK m \in 0 .. Len(list) : T = 1 .. m
    BY <1>2
  <1>4. \A j \in 1 .. m : list[j].i_startlb < b
    BY <1>1, <1>3
  <1> HIDE DEF T
  <1>5. m = Len(list) \/ list[m + 1].i_startlb >= b
    <2> SUFFICES ASSUME m # Len(list), ~(list[m + 1].i_startlb >= b) PROVE FALSE
      OBVIOUS
    <2>1. m \in Nat /\ m + 1 \in 1 .. Len(list)
      BY <1>1
    <2>2. m + 1 \notin 1 .. m
      BY <2>1
    <2>3. list[m + 1].i_startlb < b
      BY <1>1, <2>1, EntryFacts
    <2>4. ASSUME NEW j \in 1 .. m + 1 PROVE list[j].i_startlb < b
      <3>1. j \in 1 .. m \/ j = m + 1
        BY <2>1
      <3> QED BY <1>4, <2>3, <3>1
    <2>5. m + 1 \in T
      BY <2>1, <2>4 DEF T
    <2> QED BY <1>3, <2>2, <2>5
  <1> QED BY <1>4, <1>5 DEF Spot

\* The entry at which the walk ends.
LEMMA WalkEndFacts ==
    ASSUME NEW list \in Seq(Entries), Len(list) > 0, NEW b \in Blocks
    PROVE  /\ WalkEnd(list, b) \in 1 .. Len(list)
           /\ \A j \in 2 .. WalkEnd(list, b) : list[j].i_startlb <= b
           /\ WalkEnd(list, b) = Len(list) \/ list[WalkEnd(list, b) + 1].i_startlb > b
  <1>1. Len(list) \in Nat /\ b \in Int
    BY LenProperties, BlocksAssumption
  <1> DEFINE T == {n \in 1 .. Len(list) : \A j \in 2 .. n : list[j].i_startlb <= b}
  <1>2. \E m \in 0 .. Len(list) : T = 1 .. m
    <2>1. T \subseteq 1 .. Len(list)
      OBVIOUS
    <2>2. ASSUME NEW i \in T, NEW j \in 1 .. i PROVE j \in T
      BY <1>1
    <2> HIDE DEF T
    <2> QED BY <1>1, <2>1, <2>2, LeadingPositions
  <1>3. PICK m \in 0 .. Len(list) : T = 1 .. m
    BY <1>2
  <1>4. 1 \in T
    BY <1>1
  <1>5. m \in 1 .. Len(list) /\ \A j \in 2 .. m : list[j].i_startlb <= b
    BY <1>1, <1>3, <1>4
  <1> HIDE DEF T
  <1>6. m = Len(list) \/ list[m + 1].i_startlb > b
    <2> SUFFICES ASSUME m # Len(list), ~(list[m + 1].i_startlb > b) PROVE FALSE
      OBVIOUS
    <2>1. m \in Nat /\ m + 1 \in 1 .. Len(list)
      BY <1>1
    <2>2. m + 1 \notin 1 .. m
      BY <2>1
    <2>3. list[m + 1].i_startlb <= b
      BY <1>1, <2>1, EntryFacts
    <2>4. ASSUME NEW j \in 2 .. m + 1 PROVE list[j].i_startlb <= b
      <3>1. j \in 2 .. m \/ j = m + 1
        BY <2>1
      <3> QED BY <1>5, <2>3, <3>1
    <2>5. m + 1 \in T
      BY <2>1, <2>4 DEF T
    <2> QED BY <1>3, <2>2, <2>5
  <1>7. DOMAIN list = 1 .. Len(list)
    BY LenProperties
  <1> QED BY <1>5, <1>6, <1>7 DEF WalkEnd

\* The list with an entry more at position i.
LEMMA InsertedAt ==
    ASSUME NEW S, NEW s \in Seq(S), NEW i \in 1 .. Len(s) + 1, NEW e \in S
    PROVE  /\ InsertAt(s, i, e) \in Seq(S)
           /\ Len(InsertAt(s, i, e)) = Len(s) + 1
           /\ \A j \in 1 .. Len(s) + 1 :
                 InsertAt(s, i, e)[j] = IF j < i THEN s[j] ELSE IF j = i THEN e ELSE s[j - 1]
  <1> DEFINE a == SubSeq(s, 1, i - 1)
             z == SubSeq(s, i, Len(s))
             u == <<e>>
  <1>1. Len(s) \in Nat /\ \A j \in 1 .. Len(s) : s[j] \in S
    BY LenProperties, ElementOfSeq
  <1>2. a \in Seq(S) /\ Len(a) = i - 1 /\ \A j \in 1 .. i - 1 : a[j] = s[j]
    BY <1>1, SubSeqProperties
  <1>3. z \in Seq(S) /\ Len(z) = Len(s) - i + 1 /\ \A j \in 1 .. Len(s) - i + 1 : z[j] = s[i + j - 1]
    BY <1>1, SubSeqProperties
  <1>4. u \in Seq(S) /\ Len(u) = 1 /\ u[1] = e
    OBVIOUS
  <1>5. InsertAt(s, i, e) = a \o u \o z
    BY DEF InsertAt
  <1> HIDE DEF a, z, u
  <1> DEFINE w == a \o u
  <1>6. /\ w \in Seq(S) /\ Len(w) = Len(a) + Len(u)
        /\ \A j \in 1 .. Len(a) + Len(u) : w[j] = IF j <= Len(a) THEN a[j] ELSE u[j - Len(a)]
    BY <1>2, <1>4, ConcatProperties
  <1> HIDE DEF w
  <1>7. w \in Seq(S) /\ Len(w) = i /\ \A j \in 1 .. i : w[j] = IF j < i THEN s[j] ELSE e
    <2>1. i \in Nat /\ Len(a) + Len(u) = i
      BY <1>1, <1>2, <1>4
    <2>2. ASSUME NEW j \in 1 .. i PROVE w[j] = IF j < i THEN s[j] ELSE e
      <3>1. CASE j < i
        BY <1>1, <1>2, <1>6, <2>1, <3>1, SMTT(20)
      <3>2. CASE j = i
        BY <1>1, <1>2, <1>4, <1>6, <2>1, <3>2
      <3> QED BY <2>1, <3>1, <3>2
    <2> QED BY <1>6, <2>1, <2>2
  <1>8. /\ w \o z \in Seq(S) /\ Len(w \o z) = Len(w) + Len(z)
        /\ \A j \in 1 .. Len(w) + Len(z) :
              (w \o z)[j] = IF j <= Len(w) THEN w[j] ELSE z[j - Len(w)]
    BY <1>3, <1>7, ConcatProperties
  <1>9. Len(w) + Len(z) = Len(s) + 1
    BY <1>1, <1>3, <1>7
  <1>10. ASSUME NEW j \in 1 .. Len(s) + 1
         PROVE  (w \o z)[j] = IF j < i THEN s[j] ELSE IF j = i THEN e ELSE s[j - 1]
    <2>1. (w \o z)[j] = IF j <= i THEN w[j] ELSE z[j - i]
      BY <1>7, <1>8, <1>9
    <2>2. CASE j <= i
      <3>1. j \in 1 .. i
        BY <1>1, <2>2
      <3> QED BY <1>1, <1>7, <2>1, <2>2, <3>1
    <2>3. CASE j > i
      <3>1. j - i \in 1 .. Len(s) - i + 1 /\ i + (j - i) - 1 = j - 1
        BY <1>1, <2>3
      <3>2. z[j - i] = s[j - 1]
        BY <1>3, <3>1
      <3>3. ~(j <= i) /\ ~(j < i) /\ j # i
        BY <1>1, <2>3
      <3> QED BY <2>1, <3>2, <3>3
    <2>4. j <= i \/ j > i
      BY <1>1
    <2> QED BY <2>2, <2>3, <2>4
  <1> QED BY <1>5, <1>8, <1>9, <1>10 DEF w

(***************************************************************************)
(* Sorted lists.                                                           *)
(***************************************************************************)
SortedList(list) ==
    \A i, j \in DOMAIN list : i < j => list[i].i_startlb < list[j].i_startlb

BlocksOf(list) == {list[i].i_startlb : i \in DOMAIN list}

KeyIn(list, b) ==
    LET i == CHOOSE i \in DOMAIN list :
                /\ list[i].i_startlb = b
                /\ \A j \in 1 .. i - 1 : list[j].i_startlb # b
    IN  list[i].p_key

\* There is one entry of a listed block.
LEMMA KeyInFacts ==
    ASSUME NEW list \in Seq(Entries), SortedList(list), NEW i \in 1 .. Len(list)
    PROVE  KeyIn(list, list[i].i_startlb) = list[i].p_key
  <1> DEFINE b == list[i].i_startlb
             First(n) == /\ list[n].i_startlb = b
                         /\ \A j \in 1 .. n - 1 : list[j].i_startlb # b
  <1>1. DOMAIN list = 1 .. Len(list) /\ Len(list) \in Nat
    BY LenProperties
  <1>2. ASSUME NEW j \in 1 .. Len(list), j # i PROVE list[j].i_startlb # b
    <2>1. i < j \/ j < i
      BY <1>1, <1>2
    <2>2. list[i].i_startlb < list[j].i_startlb \/ list[j].i_startlb < list[i].i_startlb
      BY <1>1, <2>1 DEF SortedList
    <2> QED BY <2>2, EntryFacts
  <1>3. First(i)
    BY <1>1, <1>2
  <1>4. \A n \in DOMAIN list : First(n) => n = i
    BY <1>1, <1>2
  <1>5. (CHOOSE n \in DOMAIN list : First(n)) = i
    BY <1>1, <1>3, <1>4
  <1> QED BY <1>5 DEF KeyIn

\* The walk finds a block that is listed.
LEMMA HitFacts ==
    ASSUME NEW list \in Seq(Entries), SortedList(list), NEW b \in Blocks
    PROVE  /\ Hit(list, b) => /\ WalkEnd(list, b) \in 1 .. Len(list)
                              /\ list[WalkEnd(list, b)].i_startlb = b
           /\ ~Hit(list, b) => b \notin BlocksOf(list)
  <1> DEFINE w == WalkEnd(list, b)
  <1>1. DOMAIN list = 1 .. Len(list) /\ Len(list) \in Nat /\ b \in Int
    BY LenProperties, BlocksAssumption
  <1>2. list # <<>> => Len(list) > 0
    BY EmptySeq
  <1>3. Len(list) > 0 => /\ w \in 1 .. Len(list)
                         /\ \A j \in 2 .. w : list[j].i_startlb <= b
                         /\ w = Len(list) \/ list[w + 1].i_startlb > b
    BY WalkEndFacts
  <1> HIDE DEF w
  <1>4. ASSUME NEW i \in 1 .. Len(list), list[i].i_startlb = b, i # w PROVE FALSE
    <2>1. Len(list) > 0
      BY <1>1
    <2>2. w \in 1 .. Len(list) /\ list[w].i_startlb \in Int
      BY <1>3, <2>1, EntryFacts
    <2>3. CASE i < w
      <3>1. b < list[w].i_startlb
        BY <1>1, <1>4, <2>2, <2>3 DEF SortedList
      <3>2. w \in 2 .. w
        BY <1>1, <2>2, <2>3
      <3>3. list[w].i_startlb <= b
        BY <1>3, <2>1, <3>2
      <3> QED BY <1>1, <2>2, <3>1, <3>3
    <2>4. CASE w < i
      <3>1. w + 1 \in 1 .. Len(list) /\ w + 1 <= i /\ w # Len(list)
        BY <1>1, <2>2, <2>4
      <3>2. list[w + 1].i_startlb > b /\ list[w + 1].i_startlb \in Int
        BY <1>3, <2>1, <3>1, EntryFacts
      <3>3. w + 1 = i \/ list[w + 1].i_startlb < list[i].i_startlb
        BY <1>1, <3>1 DEF SortedList
      <3> QED BY <1>1, <1>4, <3>2, <3>3
    <2> QED BY <1>1, <1>4, <2>2, <2>3, <2>4
  <1>5. Hit(list, b) <=> list # <<>> /\ list[w].i_startlb = b
    BY DEF Hit, w
  <1>6. ASSUME ~Hit(list, b), b \in BlocksOf(list) PROVE FALSE
    <2>1. PICK i \in 1 .. Len(list) : list[i].i_startlb = b
      BY <1>1, <1>6 DEF BlocksOf
    <2>2. i = w
      BY <1>4, <2>1
    <2>3. list # <<>>
      BY <1>1, EmptySeq
    <2> QED BY <1>5, <1>6, <2>1, <2>2, <2>3
  <1>7. Hit(list, b) => w \in 1 .. Len(list) /\ list[w].i_startlb = b
    BY <1>2, <1>3, <1>5
  <1> QED BY <1>6, <1>7 DEF w

\* What Insert makes of a list that does not hold the block.
LEMMA Inserted ==
    ASSUME NEW list \in Seq(Entries), SortedList(list), NEW b \in Blocks,
           b \notin BlocksOf(list), NEW e \in Entries, e.i_startlb = b,
           NEW new, new = InsertAt(list, Spot(list, b) + 1, e)
    PROVE  /\ new \in Seq(Entries) /\ SortedList(new)
           /\ BlocksOf(new) = BlocksOf(list) \cup {b}
           /\ KeyIn(new, b) = e.p_key
           /\ \A c \in BlocksOf(list) : KeyIn(new, c) = KeyIn(list, c)
           /\ \A i \in DOMAIN new : new[i] = e \/ \E j \in DOMAIN list : new[i] = list[j]
  <1> DEFINE s == Spot(list, b) + 1
             L == Len(list)
  <1>1. DOMAIN list = 1 .. L /\ L \in Nat /\ b \in Int
    BY LenProperties, BlocksAssumption
  <1>2. /\ s \in 1 .. L + 1
        /\ \A j \in 1 .. s - 1 : list[j].i_startlb < b
        /\ s = L + 1 \/ list[s].i_startlb >= b
    BY <1>1, SpotFacts
  <1>3. /\ new \in Seq(Entries) /\ Len(new) = L + 1
        /\ \A j \in 1 .. L + 1 :
              new[j] = IF j < s THEN list[j] ELSE IF j = s THEN e ELSE list[j - 1]
    <2>1. new = InsertAt(list, s, e)
      OBVIOUS
    <2>2. s \in 1 .. Len(list) + 1
      BY <1>2
    <2> HIDE DEF s
    <2>3. /\ InsertAt(list, s, e) \in Seq(Entries)
          /\ Len(InsertAt(list, s, e)) = Len(list) + 1
          /\ \A j \in 1 .. Len(list) + 1 :
                InsertAt(list, s, e)[j] =
                   IF j < s THEN list[j] ELSE IF j = s THEN e ELSE list[j - 1]
      BY <2>2, InsertedAt
    <2> QED BY <2>1, <2>3, Zenon
  <1> HIDE DEF s, L
  <1>4. DOMAIN new = 1 .. L + 1
    BY <1>3, LenProperties
  <1>5. \A i \in 1 .. L : list[i].i_startlb \in Int /\ list[i].i_startlb # b
    BY <1>1, EntryFacts DEF BlocksOf, L
  <1>6. ASSUME NEW i \in 1 .. L, i >= s PROVE list[i].i_startlb > b
    <2>1. s \in 1 .. L /\ list[s].i_startlb > b
      <3>1. s \in 1 .. L
        BY <1>1, <1>2, <1>6
      <3> QED BY <1>1, <1>2, <1>5, <3>1
    <2>2. i = s \/ list[s].i_startlb < list[i].i_startlb
      BY <1>1, <1>6, <2>1 DEF SortedList
    <2> QED BY <1>1, <1>5, <2>1, <2>2
  <1>7. \A j \in 1 .. L + 1 : (j < s /\ j \in 1 .. L) \/ j = s \/ (j > s /\ j - 1 \in 1 .. L /\ j - 1 >= s)
    BY <1>1, <1>2
  <1>8. new[s] = e
    BY <1>2, <1>3
  <1>9. \A j \in 1 .. L + 1 : j < s => new[j] = list[j]
    BY <1>3
  <1>10. \A j \in 1 .. L + 1 : j > s => new[j] = list[j - 1]
    BY <1>1, <1>2, <1>3
  <1>11. \A j \in 1 .. L : \E i \in 1 .. L + 1 : new[i] = list[j]
    <2> TAKE j \in 1 .. L
    <2>1. CASE j < s
      <3>1. j \in 1 .. L + 1
        BY <1>1
      <3> QED BY <1>9, <2>1, <3>1
    <2>2. CASE j >= s
      <3>1. j + 1 \in 1 .. L + 1 /\ j + 1 > s /\ (j + 1) - 1 = j
        BY <1>1, <1>2, <2>2
      <3> QED BY <1>10, <3>1
    <2> QED BY <1>1, <1>2, <2>1, <2>2
  <1>12. SortedList(new)
    <2> SUFFICES ASSUME NEW i \in 1 .. L + 1, NEW j \in 1 .. L + 1, i < j
                 PROVE  new[i].i_startlb < new[j].i_startlb
      BY <1>4 DEF SortedList
    <2>1. CASE j < s
      <3>1. i \in 1 .. L /\ j \in 1 .. L /\ i < s
        BY <1>1, <1>2, <2>1
      <3> QED BY <1>1, <1>9, <2>1, <3>1 DEF SortedList
    <2>2. CASE j = s
      <3>1. i \in 1 .. s - 1 /\ i < s
        BY <1>1, <1>2, <2>2
      <3> QED BY <1>2, <1>8, <1>9, <2>2, <3>1
    <2>3. CASE j > s /\ i < s
      <3>1. i \in 1 .. L /\ j - 1 \in 1 .. L /\ i < j - 1
        BY <1>1, <1>2, <2>3
      <3> QED BY <1>1, <1>9, <1>10, <2>3, <3>1 DEF SortedList
    <2>4. CASE j > s /\ i = s
      <3>1. j - 1 \in 1 .. L /\ j - 1 >= s
        BY <1>1, <1>2, <2>4
      <3>2. list[j - 1].i_startlb > b
        BY <1>6, <3>1
      <3> QED BY <1>1, <1>5, <1>8, <1>10, <2>4, <3>1, <3>2
    <2>5. CASE j > s /\ i > s
      <3>1. i - 1 \in 1 .. L /\ j - 1 \in 1 .. L /\ i - 1 < j - 1
        BY <1>1, <1>2, <2>5
      <3> QED BY <1>1, <1>10, <2>5, <3>1 DEF SortedList
    <2> QED BY <1>1, <1>2, <2>1, <2>2, <2>3, <2>4, <2>5
  <1>13. \A i \in DOMAIN new : new[i] = e \/ \E j \in DOMAIN list : new[i] = list[j]
    BY <1>1, <1>4, <1>7, <1>8, <1>9, <1>10
  <1>14. BlocksOf(new) = BlocksOf(list) \cup {b}
    <2>1. BlocksOf(new) \subseteq BlocksOf(list) \cup {b}
      BY <1>13 DEF BlocksOf
    <2>2. b \in BlocksOf(new)
      BY <1>2, <1>4, <1>8 DEF BlocksOf
    <2>3. BlocksOf(list) \subseteq BlocksOf(new)
      BY <1>1, <1>4, <1>11 DEF BlocksOf
    <2> QED BY <2>1, <2>2, <2>3
  <1>15. KeyIn(new, b) = e.p_key
    BY <1>2, <1>3, <1>8, <1>12, KeyInFacts
  <1>16. ASSUME NEW c \in BlocksOf(list) PROVE KeyIn(new, c) = KeyIn(list, c)
    <2>1. PICK j \in 1 .. L : list[j].i_startlb = c
      BY <1>1 DEF BlocksOf
    <2>2. PICK i \in 1 .. L + 1 : new[i] = list[j]
      BY <1>11
    <2>3. KeyIn(new, new[i].i_startlb) = new[i].p_key
      BY <1>3, <1>12, KeyInFacts
    <2>4. KeyIn(list, list[j].i_startlb) = list[j].p_key
      BY KeyInFacts DEF L
    <2> QED BY <2>1, <2>2, <2>3, <2>4
  <1> QED BY <1>3, <1>12, <1>13, <1>14, <1>15, <1>16

(***************************************************************************)
(* Files.                                                                  *)
(***************************************************************************)
Texts == {t \in Seq(Int) : Len(t) <= KeyLen + 1}
KeyTexts == {k \in Seq(Int) : Len(k) = KeyLen}

\* A file that holds the text of a key, or its first cells.
PartOf(t, k) == \A i \in 1 .. Len(t) : t[i] = Text(k)[i]

LEMMA LearnableText ==
    ASSUME NEW b \in Blocks, NEW k \in Learnable[b]
    PROVE  k \in KeyTexts
  <1>1. k \in Seq(Nat) /\ Len(k) = KeyLen
    BY LearnableAssumption
  <1>2. k \in Seq(Int)
    BY <1>1, SeqMonotonic
  <1> QED BY <1>1, <1>2 DEF KeyTexts

LEMMA TextFacts ==
    ASSUME NEW k \in KeyTexts
    PROVE  /\ Text(k) \in Seq(Int) /\ Len(Text(k)) = KeyLen + 1
           /\ \A i \in 1 .. KeyLen : Text(k)[i] = k[i]
           /\ \A i \in 1 .. KeyLen + 1 : Text(k)[i] \in Int
  <1>1. k \in Seq(Int) /\ Len(k) = KeyLen /\ LineEnd \in Int
    BY DEF KeyTexts, LineEnd
  <1>2. /\ Append(k, LineEnd) \in Seq(Int) /\ Len(Append(k, LineEnd)) = Len(k) + 1
        /\ \A i \in 1 .. Len(k) : Append(k, LineEnd)[i] = k[i]
    BY <1>1, AppendProperties
  <1>3. \A i \in 1 .. Len(k) + 1 : Append(k, LineEnd)[i] \in Int
    BY <1>2, ElementOfSeq
  <1> QED BY <1>1, <1>2, <1>3 DEF Text

\* What a write of n cells leaves in a file.
LEMMA OverwriteFacts ==
    ASSUME NEW old \in Texts, NEW k \in KeyTexts, NEW n \in 0 .. KeyLen + 1,
           NEW new, new = Overwrite(old, Text(k), n)
    PROVE  /\ new \in Texts /\ Len(new) = IF n <= Len(old) THEN Len(old) ELSE n
           /\ \A i \in 1 .. Len(new) :
                 new[i] = IF i <= n THEN Text(k)[i] ELSE old[i]
  <1> DEFINE t == Text(k)
             a == SubSeq(t, 1, n)
             z == SubSeq(old, n + 1, Len(old))
  <1>1. KeyLen \in Nat /\ n \in Nat /\ n <= KeyLen + 1
    BY KeyLenAssumption
  <1>2. Len(old) \in Nat /\ Len(old) <= KeyLen + 1 /\ \A i \in 1 .. Len(old) : old[i] \in Int
    BY LenProperties, ElementOfSeq DEF Texts
  <1>3. \A i \in 1 .. n : t[i] \in Int
    BY <1>1, TextFacts
  <1> HIDE DEF t
  <1>4. a \in Seq(Int) /\ Len(a) = n /\ \A i \in 1 .. n : a[i] = t[i]
    <2>1. /\ a \in Seq(Int) /\ Len(a) = IF 1 <= n THEN n - 1 + 1 ELSE 0
          /\ \A i \in 1 .. n - 1 + 1 : a[i] = t[1 + i - 1]
      BY <1>1, <1>3, SubSeqProperties
    <2>2. n - 1 + 1 = n /\ \A i \in 1 .. n : 1 + i - 1 = i
      BY <1>1
    <2> QED BY <1>1, <2>1, <2>2
  <1>5. /\ z \in Seq(Int)
        /\ Len(z) = IF n + 1 <= Len(old) THEN Len(old) - (n + 1) + 1 ELSE 0
        /\ \A i \in 1 .. Len(old) - (n + 1) + 1 : z[i] = old[(n + 1) + i - 1]
    <2>1. \A i \in n + 1 .. Len(old) : old[i] \in Int
      BY <1>1, <1>2
    <2> QED BY <1>1, <1>2, <2>1, SubSeqProperties
  <1>6. new = a \o z
    BY DEF Overwrite, t
  <1> HIDE DEF a, z
  <1>7. /\ a \o z \in Seq(Int) /\ Len(a \o z) = Len(a) + Len(z)
        /\ \A i \in 1 .. Len(a) + Len(z) :
              (a \o z)[i] = IF i <= Len(a) THEN a[i] ELSE z[i - Len(a)]
    BY <1>4, <1>5, ConcatProperties
  <1>8. Len(new) = IF n <= Len(old) THEN Len(old) ELSE n
    BY <1>1, <1>2, <1>4, <1>5, <1>6, <1>7
  <1>9. ASSUME NEW i \in 1 .. Len(new)
        PROVE  new[i] = IF i <= n THEN t[i] ELSE old[i]
    <2>1. new[i] = IF i <= n THEN a[i] ELSE z[i - n]
      BY <1>4, <1>6, <1>7
    <2>2. CASE i <= n
      <3>1. i \in 1 .. n
        BY <1>1, <1>2, <1>8, <2>2
      <3> QED BY <1>4, <2>1, <2>2, <3>1
    <2>3. CASE ~(i <= n)
      <3>1. i - n \in 1 .. Len(old) - (n + 1) + 1 /\ (n + 1) + (i - n) - 1 = i
        BY <1>1, <1>2, <1>8, <2>3
      <3>2. z[i - n] = old[i]
        BY <1>5, <3>1
      <3> QED BY <2>1, <2>3, <3>2
    <2> QED BY <2>2, <2>3
  <1>10. new \in Texts
    BY <1>1, <1>2, <1>6, <1>7, <1>8 DEF Texts
  <1> QED BY <1>8, <1>9, <1>10 DEF t

\* A key that is written over a part of its own text, or whole over anything.
LEMMA OverwrittenPart ==
    ASSUME NEW old \in Texts, NEW k \in KeyTexts, NEW n \in 0 .. KeyLen + 1,
           n = KeyLen + 1 \/ PartOf(old, k),
           NEW new, new = Overwrite(old, Text(k), n)
    PROVE  PartOf(new, k)
  <1>1. KeyLen \in Nat
    BY KeyLenAssumption
  <1>2. /\ Len(new) \in Nat /\ Len(new) <= KeyLen + 1 /\ Len(old) \in Nat
        /\ \A i \in 1 .. Len(new) : new[i] = IF i <= n THEN Text(k)[i] ELSE old[i]
    BY OverwriteFacts, LenProperties DEF Texts
  <1>3. Len(new) = IF n <= Len(old) THEN Len(old) ELSE n
    BY OverwriteFacts
  <1>4. ASSUME NEW i \in 1 .. Len(new) PROVE new[i] = Text(k)[i]
    <2>1. CASE i <= n
      BY <1>2, <2>1
    <2>2. CASE ~(i <= n)
      <3>1. i \in 1 .. Len(old) /\ n # KeyLen + 1
        BY <1>1, <1>2, <1>3, <2>2
      <3> QED BY <1>2, <2>2, <3>1 DEF PartOf
    <2> QED BY <2>1, <2>2
  <1> QED BY <1>4 DEF PartOf

\* What is read from a file that holds a key.
LEMMA ReadText ==
    ASSUME NEW t \in Texts, Len(t) >= KeyLen
    PROVE  /\ SubSeq(t, 1, KeyLen) \in KeyTexts
           /\ \A k \in KeyTexts : PartOf(t, k) => SubSeq(t, 1, KeyLen) = k
  <1> DEFINE a == SubSeq(t, 1, KeyLen)
  <1>1. KeyLen \in Nat /\ Len(t) \in Nat /\ \A i \in 1 .. KeyLen : t[i] \in Int
    BY KeyLenAssumption, LenProperties, ElementOfSeq DEF Texts
  <1>2. a \in Seq(Int) /\ Len(a) = KeyLen /\ \A i \in 1 .. KeyLen : a[i] = t[i]
    <2>1. /\ a \in Seq(Int) /\ Len(a) = IF 1 <= KeyLen THEN KeyLen - 1 + 1 ELSE 0
          /\ \A i \in 1 .. KeyLen - 1 + 1 : a[i] = t[1 + i - 1]
      BY <1>1, SubSeqProperties
    <2>2. KeyLen - 1 + 1 = KeyLen /\ \A i \in 1 .. KeyLen : 1 + i - 1 = i
      BY <1>1
    <2> QED BY <1>1, <2>1, <2>2
  <1> HIDE DEF a
  <1>3. ASSUME NEW k \in KeyTexts, PartOf(t, k) PROVE a = k
    <2>1. k \in Seq(Int) /\ Len(k) = KeyLen
      BY DEF KeyTexts
    <2>2. ASSUME NEW i \in 1 .. KeyLen PROVE a[i] = k[i]
      <3>1. i \in 1 .. Len(t)
        BY <1>1
      <3> QED BY <1>2, <1>3, <3>1, TextFacts DEF PartOf
    <2> QED BY <1>2, <2>1, <2>2, SeqEqual
  <1> QED BY <1>2, <1>3 DEF a, KeyTexts

(***************************************************************************)
(* The invariant of the lists, whatever the files hold.                    *)
(***************************************************************************)
Types ==
    /\ files \in [Blocks -> Texts \cup {NoFile}]
    /\ pc \in [Handles -> Labels]
    /\ p_titles \in [Handles -> Seq(Entries)]
    /\ p_title_key \in [Handles -> Seq(Int) \cup {NoKey}]
    /\ p_key \in [Handles -> Seq(Int) \cup {NoKey}]
    /\ cached \in [Handles -> BOOLEAN]
    /\ b_cache \in [Handles -> BOOLEAN]
    /\ i_block \in [Handles -> Blocks \cup {NoBlock}]
    /\ i_ret \in [Handles -> {-1, 0}]

\* A call beyond the list is about a block that is not in it.
Missed(p) ==
    /\ pc[p] \in Busy => i_block[p] \in Blocks /\ i_block[p] \notin BlocksOf(p_titles[p])
    /\ pc[p] \in HaveKey => p_key[p] \in KeyTexts
    /\ At(p, "WriteFile") => files[i_block[p]] # NoFile

InForce(p) ==
    At(p, "ready") /\ i_block[p] # NoBlock /\ i_ret[p] = 0
        => /\ i_block[p] \in BlocksOf(p_titles[p])
           /\ p_title_key[p] = KeyIn(p_titles[p], i_block[p])

\* A handle that is not open is about no block.
Quiet(p) == At(p, "closed") => i_block[p] = NoBlock

HandleInv(p) == Missed(p) /\ SortedList(p_titles[p]) /\ InForce(p) /\ Quiet(p)

Inv == Types /\ \A p \in Handles : HandleInv(p)

\* What a handle is to itself stays as it is.
Untouched(p) ==
    /\ pc'[p] = pc[p]
    /\ p_titles'[p] = p_titles[p]
    /\ p_title_key'[p] = p_title_key[p]
    /\ p_key'[p] = p_key[p]
    /\ i_block'[p] = i_block[p]
    /\ i_ret'[p] = i_ret[p]

\* No file is removed.
FilesStay == \A b \in Blocks : files[b] # NoFile => files'[b] # NoFile

LEMMA HandleStep ==
    ASSUME Inv, NEW p \in Handles, \A s \in Handles \ {p} : Untouched(s), FilesStay,
           Types', HandleInv(p)'
    PROVE  Inv'
  <1>1. ASSUME NEW s \in Handles, s # p PROVE HandleInv(s)'
    <2>1. HandleInv(s) /\ Untouched(s)
      BY <1>1 DEF Inv
    <2>2. Missed(s)'
      BY <2>1 DEF HandleInv, Missed, Untouched, FilesStay, At, Busy
    <2>3. SortedList(p_titles[s])'
      BY <2>1 DEF HandleInv, Untouched
    <2>4. InForce(s)'
      BY <2>1 DEF HandleInv, InForce, Untouched, At
    <2>5. Quiet(s)'
      BY <2>1 DEF HandleInv, Quiet, Untouched, At
    <2> QED BY <2>2, <2>3, <2>4, <2>5 DEF HandleInv
  <1> QED BY <1>1 DEF Inv

LEMMA EmptyList ==
    /\ <<>> \in Seq(Entries) /\ SortedList(<<>>) /\ BlocksOf(<<>>) = {}
  <1>1. <<>> \in Seq(Entries) /\ Len(<<>>) = 0
    BY EmptySeq
  <1>2. DOMAIN <<>> = {}
    OBVIOUS
  <1> QED BY <1>1, <1>2 DEF SortedList, BlocksOf

LEMMA InitInv == ASSUME Init PROVE Inv
  <1>1. Types
    BY EmptyList DEF Init, Types, Labels
  <1>2. ASSUME NEW p \in Handles PROVE HandleInv(p)
    BY EmptyList DEF Init, HandleInv, Quiet, Missed, InForce, At, Busy, HaveKey
  <1> QED BY <1>1, <1>2 DEF Inv

LEMMA OpenInv == ASSUME Inv, NEW p \in Handles, Open(p) PROVE Inv'
  <1>1. PICK on \in BOOLEAN : cached' = [cached EXCEPT ![p] = on]
    BY DEF Open
  <1>2. /\ pc[p] = "closed" /\ pc' = [pc EXCEPT ![p] = "ready"]
        /\ UNCHANGED <<files, p_titles, p_title_key, local, i_ret>>
    BY DEF Open, At, Goto
  <1>3. /\ pc'[p] = "ready" /\ pc' \in [Handles -> Labels]
        /\ \A s \in Handles \ {p} : pc'[s] = pc[s]
    BY <1>2 DEF Inv, Types, Labels
  <1>4. Types'
    BY <1>1, <1>2, <1>3 DEF Inv, Types, local
  <1>5. HandleInv(p)'
    <2>1. i_block[p] = NoBlock
      BY <1>2 DEF Inv, HandleInv, Quiet, At
    <2> QED BY <1>2, <1>3, <2>1 DEF Inv, HandleInv, Missed, InForce, At, Busy, HaveKey, local, Quiet
  <1>6. \A s \in Handles \ {p} : Untouched(s)
    BY <1>2, <1>3 DEF Untouched, local
  <1>7. FilesStay
    BY <1>2 DEF FilesStay
  <1> QED BY <1>4, <1>5, <1>6, <1>7, HandleStep

LEMMA ForgetInv == ASSUME Inv, NEW p \in Handles, Forget(p) PROVE Inv'
  <1>1. /\ pc' = [pc EXCEPT ![p] = "closed"]
        /\ p_titles' = [p_titles EXCEPT ![p] = <<>>]
        /\ p_title_key' = [p_title_key EXCEPT ![p] = NoKey]
        /\ cached' = [cached EXCEPT ![p] = FALSE]
        /\ i_block' = [i_block EXCEPT ![p] = NoBlock]
        /\ p_key' = [p_key EXCEPT ![p] = NoKey]
        /\ b_cache' = [b_cache EXCEPT ![p] = FALSE]
        /\ i_ret' = [i_ret EXCEPT ![p] = 0]
        /\ UNCHANGED files
    BY DEF Forget, Goto
  <1>2. Types'
    <2>1. pc' \in [Handles -> Labels] /\ p_titles' \in [Handles -> Seq(Entries)]
      BY <1>1, EmptyList DEF Inv, Types, Labels
    <2> QED BY <1>1, <2>1 DEF Inv, Types
  <1>3. pc'[p] = "closed" /\ p_titles'[p] = <<>> /\ i_block'[p] = NoBlock
    BY <1>1 DEF Inv, Types
  <1>4. HandleInv(p)'
    BY <1>3, EmptyList DEF HandleInv, Quiet, Missed, InForce, At, Busy, HaveKey
  <1>5. \A s \in Handles \ {p} : Untouched(s)
    BY <1>1 DEF Inv, Types, Untouched
  <1>6. FilesStay
    BY <1>1 DEF FilesStay
  <1> QED BY <1>2, <1>4, <1>5, <1>6, HandleStep

LEMMA TitleInv == ASSUME Inv, NEW p \in Handles, NEW b \in Blocks, Title(p, b) PROVE Inv'
  <1> DEFINE list == p_titles[p]
             key == list[WalkEnd(list, b)].p_key
             l == IF cached[p] THEN "ReadFile" ELSE "TitleKey"
  <1>1. /\ pc[p] = "ready" /\ i_block' = [i_block EXCEPT ![p] = b]
        /\ UNCHANGED <<files, p_titles, cached, p_key>>
    BY DEF Title, At
  <1>2. list \in Seq(Entries) /\ SortedList(list) /\ cached[p] \in BOOLEAN
    BY DEF Inv, Types, HandleInv
  <1>3. /\ Hit(list, b) => /\ WalkEnd(list, b) \in 1 .. Len(list)
                           /\ list[WalkEnd(list, b)].i_startlb = b
        /\ ~Hit(list, b) => b \notin BlocksOf(list)
    BY <1>2, HitFacts
  <1>4. i_block'[p] = b /\ i_block' \in [Handles -> Blocks \cup {NoBlock}]
        /\ \A s \in Handles \ {p} : i_block'[s] = i_block[s]
    BY <1>1 DEF Inv, Types
  <1>5. FilesStay
    BY <1>1 DEF FilesStay
  <1>6. CASE Hit(list, b) /\ Found(p, b)
    <2>1. /\ p_title_key' = [p_title_key EXCEPT ![p] = key]
          /\ i_ret' = [i_ret EXCEPT ![p] = 0]
          /\ UNCHANGED <<pc, b_cache>>
      BY <1>6 DEF Found, UseKey
    <2>2. /\ KeyIn(list, b) = key /\ b \in BlocksOf(list)
          /\ key \in Seq(Int)
      BY <1>2, <1>3, <1>6, KeyInFacts, LenProperties, EntryFacts DEF BlocksOf
    <2> HIDE DEF key, list
    <2>3. Types'
      BY <1>1, <1>4, <2>1, <2>2 DEF Inv, Types
    <2>4. p_title_key'[p] = key
      BY <2>1 DEF Inv, Types
    <2>5. HandleInv(p)'
      BY <1>1, <1>2, <1>4, <2>1, <2>2, <2>4
         DEF HandleInv, Quiet, Missed, InForce, At, Busy, HaveKey, list
    <2>6. \A s \in Handles \ {p} : Untouched(s)
      BY <1>1, <1>4, <2>1 DEF Inv, Types, Untouched
    <2> QED BY <1>5, <2>3, <2>5, <2>6, HandleStep
  <1>7. CASE /\ ~Hit(list, b)
             /\ b_cache' = [b_cache EXCEPT ![p] = cached[p]]
             /\ Goto(p, l)
             /\ UNCHANGED <<p_title_key, i_ret>>
    <2>1. l \in {"ReadFile", "TitleKey"}
      OBVIOUS
    <2> HIDE DEF l, list
    <2>2. pc'[p] = l /\ pc' \in [Handles -> Labels]
          /\ \A s \in Handles \ {p} : pc'[s] = pc[s]
      BY <1>7, <2>1 DEF Inv, Types, Goto, Labels
    <2>3. b_cache' \in [Handles -> BOOLEAN]
      BY <1>2, <1>7 DEF Inv, Types
    <2>4. Types'
      BY <1>1, <1>4, <1>7, <2>2, <2>3 DEF Inv, Types
    <2>5. HandleInv(p)'
      BY <1>1, <1>2, <1>3, <1>4, <1>7, <2>1, <2>2
         DEF HandleInv, Quiet, Missed, InForce, At, Busy, HaveKey, list
    <2>6. \A s \in Handles \ {p} : Untouched(s)
      BY <1>1, <1>4, <1>7, <2>2 DEF Untouched
    <2> QED BY <1>5, <2>4, <2>5, <2>6, HandleStep
  <1> QED BY <1>6, <1>7 DEF Title

\* What is known of a call that has missed the list.
LEMMA BusyFacts ==
    ASSUME Inv, NEW p \in Handles, pc[p] \in Busy
    PROVE  /\ i_block[p] \in Blocks /\ i_block[p] \notin BlocksOf(p_titles[p])
           /\ p_titles[p] \in Seq(Entries) /\ SortedList(p_titles[p])
           /\ files[i_block[p]] \in Texts \cup {NoFile}
           /\ pc[p] \in HaveKey => p_key[p] \in KeyTexts
           /\ At(p, "WriteFile") => files[i_block[p]] # NoFile
  <1>1. i_block[p] \in Blocks
    BY DEF Inv, HandleInv, Missed
  <1> QED BY <1>1 DEF Inv, Types, HandleInv, Missed

\* A step that changes no more than a label, the local variables and the result.
LEMMA LocalStep ==
    ASSUME Inv, NEW p \in Handles, pc[p] \in Busy,
           NEW l \in Labels, Goto(p, l),
           UNCHANGED <<files, p_titles, p_title_key, cached, i_block>>,
           p_key' \in [Handles -> Seq(Int) \cup {NoKey}],
           b_cache' \in [Handles -> BOOLEAN], i_ret' \in [Handles -> {-1, 0}],
           \A s \in Handles \ {p} : p_key'[s] = p_key[s] /\ i_ret'[s] = i_ret[s],
           l # "closed" /\ l # "WriteFile",
           l = "ready" => i_ret'[p] = -1,
           l \in HaveKey => p_key'[p] \in KeyTexts
    PROVE  Inv'
  <1>1. pc'[p] = l /\ pc' \in [Handles -> Labels] /\ \A s \in Handles \ {p} : pc'[s] = pc[s]
    BY DEF Goto, Inv, Types
  <1>2. Types'
    BY <1>1 DEF Inv, Types
  <1>3. i_block[p] \in Blocks /\ i_block[p] \notin BlocksOf(p_titles[p]) /\ SortedList(p_titles[p])
    BY BusyFacts
  <1>4. HandleInv(p)'
    BY <1>1, <1>3 DEF HandleInv, Quiet, Missed, InForce, At
  <1>5. \A s \in Handles \ {p} : Untouched(s)
    BY <1>1 DEF Untouched
  <1>6. FilesStay
    BY DEF FilesStay
  <1> QED BY <1>2, <1>4, <1>5, <1>6, HandleStep

LEMMA ReadFileInv == ASSUME Inv, NEW p \in Handles, ReadFile(p) PROVE Inv'
  <1> DEFINE text == files[i_block[p]]
             key == SubSeq(text, 1, KeyLen)
  <1>1. /\ pc[p] = "ReadFile" /\ pc[p] \in Busy
        /\ UNCHANGED <<files, p_titles, p_title_key, cached, i_block, i_ret>>
    BY DEF ReadFile, At, Busy
  <1>2. i_ret' \in [Handles -> {-1, 0}] /\ \A s \in Handles : i_ret'[s] = i_ret[s]
    BY <1>1 DEF Inv, Types
  <1>3. text \in Texts \cup {NoFile}
    BY <1>1, BusyFacts
  <1>4. \/ /\ HasKeyText(text)
           /\ p_key' = [p_key EXCEPT ![p] = key]
           /\ b_cache' = [b_cache EXCEPT ![p] = FALSE]
           /\ Goto(p, "Insert")
        \/ Goto(p, "TitleKey") /\ UNCHANGED <<p_key, b_cache>>
    BY DEF ReadFile
  <1> HIDE DEF text
  <1>5. CASE /\ HasKeyText(text)
             /\ p_key' = [p_key EXCEPT ![p] = key]
             /\ b_cache' = [b_cache EXCEPT ![p] = FALSE]
             /\ Goto(p, "Insert")
    <2>1. key \in KeyTexts
      BY <1>3, <1>5, ReadText DEF HasKeyText
    <2>2. key \in Seq(Int)
      BY <2>1 DEF KeyTexts
    <2> HIDE DEF key
    <2>3. /\ p_key' \in [Handles -> Seq(Int) \cup {NoKey}] /\ p_key'[p] = key
          /\ b_cache' \in [Handles -> BOOLEAN]
          /\ \A s \in Handles \ {p} : p_key'[s] = p_key[s]
      BY <1>5, <2>2 DEF Inv, Types
    <2>4. "Insert" \in Labels
      BY DEF Labels
    <2> QED BY <1>1, <1>2, <1>5, <2>1, <2>3, <2>4, LocalStep
  <1>6. CASE Goto(p, "TitleKey") /\ UNCHANGED <<p_key, b_cache>>
    <2>1. "TitleKey" \in Labels /\ "TitleKey" \notin HaveKey
      BY DEF Labels, HaveKey
    <2>2. p_key' \in [Handles -> Seq(Int) \cup {NoKey}] /\ b_cache' \in [Handles -> BOOLEAN]
      BY <1>6 DEF Inv, Types
    <2> QED BY <1>1, <1>2, <1>6, <2>1, <2>2, LocalStep
  <1> QED BY <1>4, <1>5, <1>6

LEMMA TitleKeyInv == ASSUME Inv, NEW p \in Handles, TitleKey(p) PROVE Inv'
  <1>1. /\ pc[p] = "TitleKey" /\ pc[p] \in Busy
        /\ UNCHANGED <<files, p_titles, p_title_key, cached, i_block, b_cache>>
    BY DEF TitleKey, At, Busy
  <1>2. b_cache' \in [Handles -> BOOLEAN]
    BY <1>1 DEF Inv, Types
  <1>3. i_block[p] \in Blocks
    BY <1>1, BusyFacts
  <1>4. ASSUME NEW k \in Learnable[i_block[p]], p_key' = [p_key EXCEPT ![p] = k],
               NEW l \in {"CreateFile", "Insert"}, Goto(p, l), UNCHANGED i_ret
        PROVE  Inv'
    <2>1. k \in KeyTexts /\ k \in Seq(Int)
      BY <1>3, LearnableText DEF KeyTexts
    <2>2. p_key' \in [Handles -> Seq(Int) \cup {NoKey}] /\ p_key'[p] = k
          /\ \A s \in Handles \ {p} : p_key'[s] = p_key[s]
      BY <1>4, <2>1 DEF Inv, Types
    <2>3. i_ret' \in [Handles -> {-1, 0}] /\ \A s \in Handles : i_ret'[s] = i_ret[s]
      BY <1>4 DEF Inv, Types
    <2>4. l \in Labels /\ l # "closed" /\ l # "WriteFile" /\ l # "ready"
      BY DEF Labels
    <2> QED BY <1>1, <1>2, <1>4, <2>1, <2>2, <2>3, <2>4, LocalStep
  <1>5. CASE /\ i_ret' = [i_ret EXCEPT ![p] = -1]
             /\ Goto(p, "ready")
             /\ UNCHANGED p_key
    <2>1. i_ret' \in [Handles -> {-1, 0}] /\ i_ret'[p] = -1
          /\ \A s \in Handles \ {p} : i_ret'[s] = i_ret[s]
      BY <1>5 DEF Inv, Types
    <2>2. p_key' \in [Handles -> Seq(Int) \cup {NoKey}]
      BY <1>5 DEF Inv, Types
    <2>3. "ready" \in Labels /\ "ready" \notin HaveKey
      BY DEF Labels, HaveKey
    <2> QED BY <1>1, <1>2, <1>5, <2>1, <2>2, <2>3, LocalStep
  <1>6. (IF b_cache[p] THEN "CreateFile" ELSE "Insert") \in {"CreateFile", "Insert"}
    OBVIOUS
  <1> QED BY <1>4, <1>5, <1>6 DEF TitleKey

LEMMA CreateFileInv == ASSUME Inv, NEW p \in Handles, CreateFile(p) PROVE Inv'
  <1> DEFINE b == i_block[p]
             text == Created(files[b])
  <1>1. /\ pc[p] = "CreateFile" /\ pc[p] \in Busy /\ pc[p] \in HaveKey
        /\ UNCHANGED <<p_titles, p_title_key, cached, local, i_ret>>
    BY DEF CreateFile, At, Busy, HaveKey
  <1>2. /\ b \in Blocks /\ b \notin BlocksOf(p_titles[p]) /\ SortedList(p_titles[p])
        /\ files[b] \in Texts \cup {NoFile} /\ p_key[p] \in KeyTexts
    BY <1>1, BusyFacts
  <1>3. CASE files' = [files EXCEPT ![b] = text] /\ Goto(p, "WriteFile")
    <2>1. text \in Texts /\ text # NoFile
      <3>1. <<>> \in Texts
        BY EmptySeq, KeyLenAssumption DEF Texts
      <3>2. \A t \in Texts : t # NoFile
        BY NoFileAssumption DEF Texts
      <3> QED BY <1>2, <3>1, <3>2 DEF Created
    <2> HIDE DEF text, b
    <2>2. /\ files' \in [Blocks -> Texts \cup {NoFile}] /\ files'[b] = text
          /\ \A c \in Blocks \ {b} : files'[c] = files[c]
      BY <1>2, <1>3, <2>1 DEF Inv, Types
    <2>3. FilesStay
      BY <2>1, <2>2 DEF FilesStay
    <2>4. pc'[p] = "WriteFile" /\ pc' \in [Handles -> Labels]
          /\ \A s \in Handles \ {p} : pc'[s] = pc[s]
      BY <1>3 DEF Inv, Types, Goto, Labels
    <2>5. Types'
      BY <1>1, <2>2, <2>4 DEF Inv, Types, local
    <2>6. HandleInv(p)'
      BY <1>1, <1>2, <2>1, <2>2, <2>4
         DEF HandleInv, Quiet, Missed, InForce, At, local, b
    <2>7. \A s \in Handles \ {p} : Untouched(s)
      BY <1>1, <2>4 DEF Untouched, local
    <2> QED BY <2>3, <2>5, <2>6, <2>7, HandleStep
  <1>4. CASE Goto(p, "Insert") /\ UNCHANGED files
    <2>1. "Insert" \in Labels
      BY DEF Labels
    <2>2. /\ p_key' \in [Handles -> Seq(Int) \cup {NoKey}] /\ b_cache' \in [Handles -> BOOLEAN]
          /\ i_ret' \in [Handles -> {-1, 0}] /\ p_key' = p_key /\ i_ret' = i_ret
          /\ i_block' = i_block
      BY <1>1 DEF Inv, Types, local
    <2> QED BY <1>1, <1>2, <1>4, <2>1, <2>2, LocalStep
  <1> QED BY <1>3, <1>4 DEF CreateFile

LEMMA WriteFileInv == ASSUME Inv, NEW p \in Handles, WriteFile(p) PROVE Inv'
  <1> DEFINE b == i_block[p]
  <1>1. /\ pc[p] = "WriteFile" /\ pc[p] \in Busy /\ pc[p] \in HaveKey
        /\ pc' = [pc EXCEPT ![p] = "Insert"]
        /\ UNCHANGED <<p_titles, p_title_key, cached, local, i_ret>>
    BY DEF WriteFile, At, Goto, Busy, HaveKey
  <1>2. /\ b \in Blocks /\ b \notin BlocksOf(p_titles[p]) /\ SortedList(p_titles[p])
        /\ files[b] \in Texts /\ p_key[p] \in KeyTexts
    BY <1>1, BusyFacts DEF At
  <1>3. PICK n \in 0 .. KeyLen + 1 :
            files' = [files EXCEPT ![b] = Overwrite(files[b], Text(p_key[p]), n)]
    BY DEF WriteFile
  <1> DEFINE text == Overwrite(files[b], Text(p_key[p]), n)
  <1>4. text \in Texts /\ text # NoFile
    <2>1. text \in Texts
      BY <1>2, OverwriteFacts
    <2> QED BY <2>1, NoFileAssumption DEF Texts
  <1> HIDE DEF text, b
  <1>5. /\ files' \in [Blocks -> Texts \cup {NoFile}] /\ files'[b] = text
        /\ \A c \in Blocks \ {b} : files'[c] = files[c]
    BY <1>2, <1>3, <1>4 DEF Inv, Types, text
  <1>6. FilesStay
    BY <1>4, <1>5 DEF FilesStay
  <1>7. pc'[p] = "Insert" /\ pc' \in [Handles -> Labels]
        /\ \A s \in Handles \ {p} : pc'[s] = pc[s]
    BY <1>1 DEF Inv, Types, Labels
  <1>8. Types'
    BY <1>1, <1>5, <1>7 DEF Inv, Types, local
  <1>9. HandleInv(p)'
    BY <1>1, <1>2, <1>7 DEF HandleInv, Quiet, Missed, InForce, At, local, b
  <1>10. \A s \in Handles \ {p} : Untouched(s)
    BY <1>1, <1>7 DEF Untouched, local
  <1> QED BY <1>6, <1>8, <1>9, <1>10, HandleStep

\* The list, with an entry more.
Extends(new, list, b, k) ==
    /\ new \in Seq(Entries)
    /\ SortedList(new)
    /\ BlocksOf(new) = BlocksOf(list) \cup {b}
    /\ KeyIn(new, b) = k
    /\ \A c \in BlocksOf(list) : KeyIn(new, c) = KeyIn(list, c)
    /\ \A i \in DOMAIN new : \/ new[i] = [i_startlb |-> b, p_key |-> k]
                             \/ \E j \in DOMAIN list : new[i] = list[j]

\* What Insert does, and what comes of the list.
LEMMA InsertFacts ==
    ASSUME Inv, NEW p \in Handles, Insert(p)
    PROVE  /\ pc[p] = "Insert" /\ pc' = [pc EXCEPT ![p] = "ready"]
           /\ UNCHANGED <<files, cached, local>>
           /\ i_block[p] \in Blocks /\ i_block[p] \notin BlocksOf(p_titles[p])
           /\ p_key[p] \in KeyTexts /\ p_key[p] \in Seq(Int)
           /\ \/ /\ i_ret' = [i_ret EXCEPT ![p] = -1]
                 /\ UNCHANGED <<p_titles, p_title_key>>
              \/ /\ \E new : /\ p_titles' = [p_titles EXCEPT ![p] = new]
                             /\ Extends(new, p_titles[p], i_block[p], p_key[p])
                 /\ p_title_key' = [p_title_key EXCEPT ![p] = p_key[p]]
                 /\ i_ret' = [i_ret EXCEPT ![p] = 0]
  <1> DEFINE b == i_block[p]
             list == p_titles[p]
             k == p_key[p]
             e == [i_startlb |-> b, p_key |-> k]
             new == InsertAt(list, Spot(list, b) + 1, e)
  <1>1. /\ pc[p] = "Insert" /\ pc[p] \in Busy /\ pc[p] \in HaveKey
        /\ pc' = [pc EXCEPT ![p] = "ready"] /\ UNCHANGED <<files, cached, local>>
    BY DEF Insert, At, Goto, Busy, HaveKey
  <1>2. /\ b \in Blocks /\ b \notin BlocksOf(list) /\ k \in KeyTexts
        /\ list \in Seq(Entries) /\ SortedList(list)
    BY <1>1, BusyFacts
  <1>3. e \in Entries /\ e.i_startlb = b /\ e.p_key = k /\ k \in Seq(Int)
    BY <1>2 DEF Entries, KeyTexts
  <1>4. \/ /\ p_titles' = [p_titles EXCEPT ![p] = new]
           /\ p_title_key' = [p_title_key EXCEPT ![p] = k]
           /\ i_ret' = [i_ret EXCEPT ![p] = 0]
        \/ /\ i_ret' = [i_ret EXCEPT ![p] = -1]
           /\ UNCHANGED <<p_titles, p_title_key>>
    BY DEF Insert, UseKey
  <1> HIDE DEF e, b, list, k
  <1>5. /\ new \in Seq(Entries) /\ SortedList(new)
        /\ BlocksOf(new) = BlocksOf(list) \cup {b}
        /\ KeyIn(new, b) = e.p_key
        /\ \A c \in BlocksOf(list) : KeyIn(new, c) = KeyIn(list, c)
        /\ \A i \in DOMAIN new : new[i] = e \/ \E j \in DOMAIN list : new[i] = list[j]
    BY <1>2, <1>3, Inserted
  <1> HIDE DEF new
  <1>6. \A i \in DOMAIN new : \/ new[i] = [i_startlb |-> b, p_key |-> k]
                              \/ \E j \in DOMAIN list : new[i] = list[j]
    BY <1>5 DEF e
  <1>7. Extends(new, list, b, k)
    BY <1>3, <1>5, <1>6 DEF Extends
  <1>8. \/ /\ i_ret' = [i_ret EXCEPT ![p] = -1]
           /\ UNCHANGED <<p_titles, p_title_key>>
        \/ /\ \E n : p_titles' = [p_titles EXCEPT ![p] = n] /\ Extends(n, list, b, k)
           /\ p_title_key' = [p_title_key EXCEPT ![p] = k]
           /\ i_ret' = [i_ret EXCEPT ![p] = 0]
    BY <1>4, <1>7, Zenon
  <1> QED BY <1>1, <1>2, <1>3, <1>8 DEF b, list, k

LEMMA InsertInv == ASSUME Inv, NEW p \in Handles, Insert(p) PROVE Inv'
  <1> DEFINE b == i_block[p]
             list == p_titles[p]
             k == p_key[p]
  <1>1. /\ pc[p] = "Insert" /\ pc' = [pc EXCEPT ![p] = "ready"]
        /\ UNCHANGED <<files, cached, local>>
        /\ b \in Blocks /\ k \in Seq(Int)
    BY InsertFacts
  <1>2. \/ /\ i_ret' = [i_ret EXCEPT ![p] = -1]
           /\ UNCHANGED <<p_titles, p_title_key>>
        \/ /\ \E new : p_titles' = [p_titles EXCEPT ![p] = new] /\ Extends(new, list, b, k)
           /\ p_title_key' = [p_title_key EXCEPT ![p] = k]
           /\ i_ret' = [i_ret EXCEPT ![p] = 0]
    BY InsertFacts
  <1>3. /\ pc'[p] = "ready" /\ pc' \in [Handles -> Labels]
        /\ \A s \in Handles \ {p} : pc'[s] = pc[s]
    BY <1>1 DEF Inv, Types, Labels
  <1>4. FilesStay
    BY <1>1 DEF FilesStay
  <1>5. HandleInv(p)
    BY DEF Inv
  <1>6. CASE i_ret' = [i_ret EXCEPT ![p] = -1] /\ UNCHANGED <<p_titles, p_title_key>>
    <2>1. /\ i_ret'[p] = -1 /\ i_ret' \in [Handles -> {-1, 0}]
          /\ \A s \in Handles \ {p} : i_ret'[s] = i_ret[s]
      BY <1>6 DEF Inv, Types
    <2>2. Types'
      BY <1>1, <1>3, <1>6, <2>1 DEF Inv, Types, local
    <2>3. HandleInv(p)'
      BY <1>3, <1>5, <1>6, <2>1
         DEF HandleInv, Quiet, Missed, InForce, At, Busy, HaveKey
    <2>4. \A s \in Handles \ {p} : Untouched(s)
      BY <1>1, <1>3, <1>6, <2>1 DEF Untouched, local
    <2> QED BY <1>4, <2>2, <2>3, <2>4, HandleStep
  <1>7. ASSUME NEW new,
               p_titles' = [p_titles EXCEPT ![p] = new], Extends(new, list, b, k),
               p_title_key' = [p_title_key EXCEPT ![p] = k],
               i_ret' = [i_ret EXCEPT ![p] = 0]
        PROVE  Inv'
    <2> HIDE DEF list, k, b
    <2>1. /\ new \in Seq(Entries) /\ SortedList(new)
          /\ b \in BlocksOf(new) /\ KeyIn(new, b) = k
      BY <1>7 DEF Extends
    <2>2. /\ p_titles'[p] = new /\ p_titles' \in [Handles -> Seq(Entries)]
          /\ p_title_key'[p] = k /\ p_title_key' \in [Handles -> Seq(Int) \cup {NoKey}]
          /\ i_ret' \in [Handles -> {-1, 0}]
          /\ \A s \in Handles \ {p} : /\ p_titles'[s] = p_titles[s]
                                      /\ p_title_key'[s] = p_title_key[s]
                                      /\ i_ret'[s] = i_ret[s]
      BY <1>1, <1>7, <2>1 DEF Inv, Types
    <2>3. Types'
      BY <1>1, <1>3, <2>2 DEF Inv, Types, local
    <2>4. i_block'[p] = b
      BY <1>1 DEF local, b
    <2>5. HandleInv(p)'
      BY <1>3, <2>1, <2>2, <2>4
         DEF HandleInv, Quiet, Missed, InForce, At, Busy, HaveKey
    <2>6. \A s \in Handles \ {p} : Untouched(s)
      BY <1>1, <1>3, <2>2 DEF Untouched, local
    <2> QED BY <1>4, <2>3, <2>5, <2>6, HandleStep
  <1> QED BY <1>2, <1>6, <1>7

LEMMA NextInv == ASSUME Inv, [Next]_vars PROVE Inv'
  <1>1. ASSUME NEW p \in Handles,
               \/ Open(p) \/ Close(p) \/ Kill(p)
               \/ \E b \in Blocks : Title(p, b)
               \/ ReadFile(p) \/ TitleKey(p) \/ CreateFile(p) \/ WriteFile(p) \/ Insert(p)
        PROVE  Inv'
    BY <1>1, OpenInv, ForgetInv, TitleInv, ReadFileInv, TitleKeyInv, CreateFileInv,
       WriteFileInv, InsertInv DEF Close, Kill
  <1>2. CASE UNCHANGED vars
    <2>1. Types'
      BY <1>2 DEF Inv, Types, vars, local
    <2>2. ASSUME NEW p \in Handles PROVE HandleInv(p)'
      <3>1. HandleInv(p)
        BY DEF Inv
      <3> QED BY <1>2, <3>1 DEF HandleInv, Quiet, Missed, InForce, At, vars, local
    <2> QED BY <2>1, <2>2 DEF Inv
  <1> QED BY <1>1, <1>2 DEF Next

LEMMA Invariant == Spec => []Inv
  BY InitInv, NextInv, PTL DEF Spec

\* Lists hold entries of blocks that may be asked for, files no more than a key and
\* its line end, and a call that has a key has a whole one.
THEOREM TitleTypes == Spec => []TypeOK
  <1>1. ASSUME Inv PROVE TypeOK
    <2>1. Types /\ \A p \in Handles : Missed(p)
      BY <1>1 DEF Inv, HandleInv
    <2>2. \A b \in Blocks : files[b] \in Texts \cup {NoFile}
      BY <2>1 DEF Types
    <2>3. files \in [Blocks -> Seq(Int) \cup {NoFile}]
      BY <2>1 DEF Types, Texts
    <2>4. \A b \in Blocks : files[b] # NoFile => Len(files[b]) <= KeyLen + 1
      BY <2>2 DEF Texts
    <2>5. \A p \in Handles : /\ pc[p] \in Busy => i_block[p] \in Blocks
                             /\ pc[p] \in HaveKey => p_key[p] \in Seq(Int)
      BY <2>1 DEF Missed, KeyTexts
    <2> QED BY <2>1, <2>3, <2>4, <2>5 DEF TypeOK, Types
  <1> QED BY <1>1, Invariant, PTL

\* The list is strictly sorted after any sequence of calls, failed ones included, so
\* that the walk of the next call finds each block that is listed and Insert lists
\* none twice.
THEOREM ListAlwaysSorted == Spec => []ListSorted
  <1>1. Inv => ListSorted
    BY DEF Inv, HandleInv, SortedList, ListSorted
  <1> QED BY <1>1, Invariant, PTL

\* After a call that returned 0, by a hit or by an insertion, the key in force is
\* the one that is listed for its block.
THEOREM KeyAlwaysInForce == Spec => []KeyInForce
  <1>1. ASSUME NEW p \in Handles, NEW b
        PROVE  Listed(p) = BlocksOf(p_titles[p]) /\ KeyOf(p, b) = KeyIn(p_titles[p], b)
    BY DEF Listed, BlocksOf, KeyOf, KeyIn
  <1>2. Inv => KeyInForce
    BY <1>1 DEF Inv, HandleInv, InForce, KeyInForce
  <1> QED BY <1>2, Invariant, PTL

(***************************************************************************)
(* Genuine keys.  A handle that writes only a part of its key over another *)
(* key of the same title leaves neither of them: either writes are         *)
(* complete, or a title has one key.                                       *)
(***************************************************************************)
OneKeyEach == \A b \in Blocks : \A k, l \in Learnable[b] : k = l

Untorn == "write" \notin Failures \/ OneKeyEach

FileGenuine(b) == files[b] # NoFile => \E k \in Learnable[b] : PartOf(files[b], k)

ListGenuine(p) ==
    \A i \in DOMAIN p_titles[p] : p_titles[p][i].p_key \in Learnable[p_titles[p][i].i_startlb]

CallGenuine(p) == pc[p] \in HaveKey => p_key[p] \in Learnable[i_block[p]]

Genuine ==
    /\ \A b \in Blocks : FileGenuine(b)
    /\ \A p \in Handles : ListGenuine(p) /\ CallGenuine(p)

StepOf(p) ==
    \/ Open(p) \/ Close(p) \/ Kill(p)
    \/ \E b \in Blocks : Title(p, b)
    \/ ReadFile(p) \/ TitleKey(p) \/ CreateFile(p) \/ WriteFile(p) \/ Insert(p)

LEMMA OthersUntouched ==
    ASSUME Inv, NEW p \in Handles, StepOf(p), NEW s \in Handles, s # p
    PROVE  Untouched(s)
  <1>1. CASE Open(p)
    BY <1>1 DEF Open, Goto, local, Inv, Types, Untouched
  <1>2. CASE Close(p) \/ Kill(p)
    BY <1>2 DEF Close, Kill, Forget, Goto, Inv, Types, Untouched
  <1>3. ASSUME NEW b \in Blocks, Title(p, b) PROVE Untouched(s)
    BY <1>3 DEF Title, Found, UseKey, Goto, Inv, Types, Untouched
  <1>4. CASE ReadFile(p)
    BY <1>4 DEF ReadFile, Goto, Inv, Types, Untouched
  <1>5. CASE TitleKey(p)
    BY <1>5 DEF TitleKey, Goto, Inv, Types, Untouched
  <1>6. CASE CreateFile(p) \/ WriteFile(p)
    BY <1>6 DEF CreateFile, WriteFile, Goto, local, Inv, Types, Untouched
  <1>7. CASE Insert(p)
    <2>1. /\ pc' = [pc EXCEPT ![p] = "ready"]
          /\ UNCHANGED <<files, cached, local>>
          /\ \/ /\ i_ret' = [i_ret EXCEPT ![p] = -1]
                /\ UNCHANGED <<p_titles, p_title_key>>
             \/ /\ \E new : p_titles' = [p_titles EXCEPT ![p] = new]
                /\ p_title_key' = [p_title_key EXCEPT ![p] = p_key[p]]
                /\ i_ret' = [i_ret EXCEPT ![p] = 0]
      BY <1>7, InsertFacts
    <2> QED BY <1>7, <2>1 DEF local, Inv, Types, Untouched
  <1> QED BY <1>1, <1>2, <1>3, <1>4, <1>5, <1>6, <1>7 DEF StepOf

\* What a step does to the lists.
LEMMA ListsChange ==
    ASSUME Inv, NEW p \in Handles, StepOf(p)
    PROVE  \/ UNCHANGED p_titles
           \/ p_titles' = [p_titles EXCEPT ![p] = <<>>]
           \/ /\ Insert(p)
              /\ \E new : /\ p_titles' = [p_titles EXCEPT ![p] = new]
                          /\ Extends(new, p_titles[p], i_block[p], p_key[p])
  <1>1. CASE Insert(p)
    BY <1>1, InsertFacts
  <1>2. CASE ~Insert(p)
    BY <1>2 DEF StepOf, Open, Close, Kill, Forget, Title, ReadFile, TitleKey, CreateFile, WriteFile
  <1> QED BY <1>1, <1>2

\* What a step does to the files.
LEMMA FilesChange ==
    ASSUME Inv, NEW p \in Handles, StepOf(p)
    PROVE  \/ UNCHANGED files
           \/ /\ pc[p] = "CreateFile"
              /\ files' = [files EXCEPT ![i_block[p]] = Created(files[i_block[p]])]
           \/ /\ pc[p] = "WriteFile"
              /\ \E n \in 0 .. KeyLen + 1 :
                    /\ n < KeyLen + 1 => "write" \in Failures
                    /\ files' = [files EXCEPT ![i_block[p]] =
                                    Overwrite(files[i_block[p]], Text(p_key[p]), n)]
  BY DEF StepOf, Open, Close, Kill, Forget, Title, ReadFile, TitleKey, CreateFile, WriteFile,
         Insert, At

\* A file that is there stays and gets no shorter; what is written is genuine.
LEMMA FileStep ==
    ASSUME Inv, Genuine, Untorn, NEW p \in Handles, StepOf(p), NEW b \in Blocks
    PROVE  /\ files[b] # NoFile
                 => files'[b] # NoFile /\ files'[b] \in Texts /\ Len(files'[b]) >= Len(files[b])
           /\ FileGenuine(b)'
  <1>1. FileGenuine(b) /\ files[b] \in Texts \cup {NoFile}
    BY DEF Inv, Types, Genuine
  <1>2. \A t \in Texts : Len(t) \in Nat /\ t # NoFile
    BY LenProperties, NoFileAssumption DEF Texts
  <1>3. CASE files'[b] = files[b]
    BY <1>1, <1>2, <1>3 DEF FileGenuine
  <1>4. ASSUME pc[p] \in {"CreateFile", "WriteFile"}
        PROVE  /\ i_block[p] \in Blocks /\ files[i_block[p]] \in Texts \cup {NoFile}
               /\ p_key[p] \in Learnable[i_block[p]] /\ p_key[p] \in KeyTexts
               /\ pc[p] = "WriteFile" => files[i_block[p]] \in Texts
               /\ files[i_block[p]] # NoFile
                     => \E k \in Learnable[i_block[p]] : PartOf(files[i_block[p]], k)
    <2>1. pc[p] \in Busy /\ pc[p] \in HaveKey
      BY <1>4 DEF Busy, HaveKey
    <2>2. i_block[p] \in Blocks /\ p_key[p] \in Learnable[i_block[p]]
      BY <2>1, BusyFacts DEF Genuine, CallGenuine
    <2>3. FileGenuine(i_block[p])
      BY <2>2 DEF Genuine
    <2> QED BY <2>1, <2>2, <2>3, BusyFacts DEF FileGenuine, At
  <1>5. ASSUME pc[p] = "CreateFile", b = i_block[p],
               files' = [files EXCEPT ![i_block[p]] = Created(files[i_block[p]])]
        PROVE  /\ files[b] # NoFile
                     => files'[b] # NoFile /\ files'[b] \in Texts /\ Len(files'[b]) >= Len(files[b])
               /\ FileGenuine(b)'
    <2>1. files'[b] = IF files[b] = NoFile THEN <<>> ELSE files[b]
      BY <1>5 DEF Inv, Types, Created
    <2>2. CASE files[b] = NoFile
      <3>1. files'[b] = <<>> /\ Len(<<>>) = 0
        BY <2>1, <2>2
      <3>2. 1 .. 0 = {}
        OBVIOUS
      <3>3. \A k : PartOf(<<>>, k)
        BY <3>1, <3>2 DEF PartOf
      <3> QED BY <1>4, <1>5, <2>2, <3>1, <3>3 DEF FileGenuine
    <2>3. CASE files[b] # NoFile
      BY <1>3, <2>1, <2>3
    <2> QED BY <2>2, <2>3
  <1>6. ASSUME pc[p] = "WriteFile", b = i_block[p], NEW n \in 0 .. KeyLen + 1,
               n < KeyLen + 1 => "write" \in Failures,
               files' = [files EXCEPT ![i_block[p]] =
                            Overwrite(files[i_block[p]], Text(p_key[p]), n)]
        PROVE  /\ files[b] # NoFile
                     => files'[b] # NoFile /\ files'[b] \in Texts /\ Len(files'[b]) >= Len(files[b])
               /\ FileGenuine(b)'
    <2> DEFINE old == files[b]
               key == p_key[p]
               new == Overwrite(old, Text(key), n)
    <2>1. files'[b] = new
      BY <1>6 DEF Inv, Types
    <2>2. old \in Texts /\ key \in KeyTexts /\ key \in Learnable[b]
          /\ \E k \in Learnable[b] : PartOf(old, k)
      BY <1>2, <1>4, <1>6
    <2> HIDE DEF old, key, new
    <2>3. new \in Texts /\ Len(new) = IF n <= Len(old) THEN Len(old) ELSE n
      BY <2>2, OverwriteFacts DEF new
    <2>4. n = KeyLen + 1 \/ PartOf(old, key)
      <3>1. CASE n < KeyLen + 1
        <4>1. OneKeyEach
          BY <1>6, <3>1 DEF Untorn
        <4> QED BY <2>2, <4>1 DEF OneKeyEach
      <3>2. n < KeyLen + 1 \/ n = KeyLen + 1
        BY KeyLenAssumption
      <3> QED BY <3>1, <3>2
    <2>5. PartOf(new, key)
      BY <2>2, <2>4, OverwrittenPart DEF new
    <2>6. Len(new) >= Len(old)
      <3>1. Len(old) \in Nat
        BY <1>2, <2>2
      <3> QED BY <2>3, <3>1
    <2> QED BY <1>2, <2>1, <2>2, <2>3, <2>5, <2>6 DEF FileGenuine, old
  <1>7. ASSUME b # i_block[p] \/ UNCHANGED files PROVE files'[b] = files[b]
    BY <1>7, FilesChange DEF Inv, Types
  <1> QED BY <1>3, <1>5, <1>6, <1>7, FilesChange

\* A call has a key of its block, be it from the disc or from a file.
LEMMA CallStep ==
    ASSUME Inv, Genuine, NEW p \in Handles, StepOf(p)
    PROVE  CallGenuine(p)'
  <1> SUFFICES ASSUME pc'[p] \in HaveKey
               PROVE  p_key'[p] \in Learnable[i_block'[p]]
    BY DEF CallGenuine
  <1>1. CASE Open(p) \/ Close(p) \/ Kill(p)
    <2>1. pc'[p] \in {"ready", "closed"}
      BY <1>1 DEF Open, Close, Kill, Forget, Goto, Inv, Types
    <2> QED BY <2>1 DEF HaveKey
  <1>2. ASSUME NEW b \in Blocks, Title(p, b) PROVE FALSE
    <2>1. pc[p] = "ready" /\ (UNCHANGED pc \/ \E l \in {"ReadFile", "TitleKey"} : Goto(p, l))
      BY <1>2 DEF Title, Found, At
    <2>2. pc'[p] \in {"ready", "ReadFile", "TitleKey"}
      BY <2>1 DEF Goto, Inv, Types
    <2> QED BY <2>2 DEF HaveKey
  <1>3. CASE ReadFile(p)
    <2> DEFINE b == i_block[p]
               text == files[b]
               key == SubSeq(text, 1, KeyLen)
    <2>1. /\ pc[p] = "ReadFile" /\ pc[p] \in Busy /\ UNCHANGED i_block
          /\ \/ /\ HasKeyText(text) /\ p_key' = [p_key EXCEPT ![p] = key]
             \/ Goto(p, "TitleKey")
      BY <1>3 DEF ReadFile, At, Busy
    <2>2. b \in Blocks /\ text \in Texts \cup {NoFile} /\ FileGenuine(b)
      BY <2>1, BusyFacts DEF Genuine
    <2>3. CASE Goto(p, "TitleKey")
      <3>1. pc'[p] = "TitleKey"
        BY <2>3 DEF Goto, Inv, Types
      <3> QED BY <3>1 DEF HaveKey
    <2>4. CASE HasKeyText(text) /\ p_key' = [p_key EXCEPT ![p] = key]
      <3>1. PICK k \in Learnable[b] : PartOf(text, k)
        BY <2>2, <2>4 DEF FileGenuine, HasKeyText
      <3>2. text \in Texts /\ Len(text) >= KeyLen /\ k \in KeyTexts
        BY <2>2, <2>4, LearnableText DEF HasKeyText
      <3> HIDE DEF text, b
      <3>3. key = k
        BY <3>1, <3>2, ReadText
      <3>4. p_key'[p] = k
        BY <2>4, <3>3 DEF Inv, Types
      <3> QED BY <2>1, <3>4 DEF b
    <2> QED BY <2>1, <2>3, <2>4
  <1>4. CASE TitleKey(p)
    <2>1. /\ UNCHANGED i_block
          /\ \/ \E k \in Learnable[i_block[p]] : p_key' = [p_key EXCEPT ![p] = k]
             \/ Goto(p, "ready")
      BY <1>4 DEF TitleKey
    <2>2. CASE Goto(p, "ready")
      <3>1. pc'[p] = "ready"
        BY <2>2 DEF Goto, Inv, Types
      <3> QED BY <3>1 DEF HaveKey
    <2> QED BY <2>1, <2>2 DEF Inv, Types
  <1>5. CASE CreateFile(p) \/ WriteFile(p)
    BY <1>5 DEF CreateFile, WriteFile, local, At, HaveKey, Genuine, CallGenuine
  <1>6. CASE Insert(p)
    <2>1. pc'[p] = "ready"
      BY <1>6, InsertFacts DEF Inv, Types
    <2> QED BY <2>1 DEF HaveKey
  <1> QED BY <1>1, <1>2, <1>3, <1>4, <1>5, <1>6 DEF StepOf

LEMMA ListStep ==
    ASSUME Inv, Genuine, NEW p \in Handles, StepOf(p)
    PROVE  ListGenuine(p)'
  <1> DEFINE list == p_titles[p]
             b == i_block[p]
             k == p_key[p]
  <1>1. CASE UNCHANGED p_titles
    BY <1>1 DEF Genuine, ListGenuine
  <1>2. CASE p_titles' = [p_titles EXCEPT ![p] = <<>>]
    <2>1. p_titles'[p] = <<>> /\ DOMAIN <<>> = {}
      BY <1>2 DEF Inv, Types
    <2> QED BY <2>1 DEF ListGenuine
  <1>3. ASSUME NEW new, p_titles' = [p_titles EXCEPT ![p] = new],
               Extends(new, list, b, k), Insert(p)
        PROVE  ListGenuine(p)'
    <2>1. k \in Learnable[b]
      <3>1. pc[p] = "Insert"
        BY <1>3 DEF Insert, At
      <3> QED BY <3>1 DEF Genuine, CallGenuine, HaveKey
    <2>2. \A i \in DOMAIN list : list[i].p_key \in Learnable[list[i].i_startlb]
      BY DEF Genuine, ListGenuine
    <2>3. p_titles'[p] = new
      BY <1>3 DEF Inv, Types
    <2> HIDE DEF list, b, k
    <2>4. \A i \in DOMAIN new : \/ new[i] = [i_startlb |-> b, p_key |-> k]
                                \/ \E j \in DOMAIN list : new[i] = list[j]
      BY <1>3 DEF Extends
    <2>5. ASSUME NEW i \in DOMAIN new
          PROVE  new[i].p_key \in Learnable[new[i].i_startlb]
      BY <2>1, <2>2, <2>4
    <2> QED BY <2>3, <2>5 DEF ListGenuine
  <1> QED BY <1>1, <1>2, <1>3, ListsChange

LEMMA GenuineInit == ASSUME Init PROVE Genuine
  BY DEF Init, Genuine, FileGenuine, ListGenuine, CallGenuine, HaveKey

LEMMA GenuineNext == ASSUME Inv, Genuine, Untorn, [Next]_vars PROVE Genuine'
  <1>1. ASSUME NEW p \in Handles, StepOf(p) PROVE Genuine'
    <2>1. ASSUME NEW s \in Handles PROVE ListGenuine(s)' /\ CallGenuine(s)'
      <3>1. CASE s = p
        BY <1>1, <3>1, CallStep, ListStep
      <3>2. CASE s # p
        <4>1. Untouched(s)
          BY <1>1, <3>2, OthersUntouched
        <4> QED BY <4>1 DEF Genuine, ListGenuine, CallGenuine, Untouched
      <3> QED BY <3>1, <3>2
    <2> QED BY <1>1, <2>1, FileStep DEF Genuine
  <1>2. CASE UNCHANGED vars
    BY <1>2 DEF Genuine, FileGenuine, ListGenuine, CallGenuine, vars, local
  <1> QED BY <1>1, <1>2 DEF Next, StepOf

LEMMA GenuineAlways == ASSUME Untorn PROVE Spec => []Genuine
  BY Invariant, GenuineInit, GenuineNext, PTL DEF Spec

\* Every listed key is one that dvdcss_titlekey yields for its block, if writes are
\* complete or a title yields one key: no file that other handles have half written,
\* or were killed over, gives a call a key that is of no title.
THEOREM ListedAlwaysGenuine == Untorn => (Spec => []ListedKeysGenuine)
  <1> SUFFICES ASSUME Untorn PROVE Spec => []ListedKeysGenuine
    OBVIOUS
  <1>1. Genuine => ListedKeysGenuine
    BY DEF Genuine, ListGenuine, ListedKeysGenuine
  <1> QED BY <1>1, GenuineAlways, PTL

LEMMA KeptByStep ==
    ASSUME OneKeyEach, Inv, Genuine, Genuine', [Next]_vars
    PROVE  [KeptStep]_vars
  <1> SUFFICES ASSUME Next PROVE KeptStep
    OBVIOUS
  <1>1. PICK p \in Handles : StepOf(p)
    BY DEF Next, StepOf
  <1>2. ASSUME NEW b \in Blocks, HasKeyText(files[b])
        PROVE  HasKeyText(files'[b]) /\ SubSeq(files'[b], 1, KeyLen) = SubSeq(files[b], 1, KeyLen)
    <2>1. files[b] # NoFile /\ Len(files[b]) >= KeyLen /\ files[b] \in Texts
      BY <1>2 DEF HasKeyText, Inv, Types
    <2>2. files'[b] # NoFile /\ files'[b] \in Texts /\ Len(files'[b]) >= Len(files[b])
      BY <1>1, <2>1, FileStep DEF Untorn
    <2>3. KeyLen \in Nat /\ Len(files[b]) \in Nat /\ Len(files'[b]) \in Nat
      BY <2>1, <2>2, KeyLenAssumption, LenProperties DEF Texts
    <2>4. Len(files'[b]) >= KeyLen
      BY <2>1, <2>2, <2>3
    <2>5. PICK k \in Learnable[b] : PartOf(files[b], k)
      BY <2>1 DEF Genuine, FileGenuine
    <2>6. PICK l \in Learnable[b] : PartOf(files'[b], l)
      BY <2>2 DEF Genuine, FileGenuine
    <2>7. l = k /\ k \in KeyTexts
      BY LearnableText DEF OneKeyEach
    <2>8. SubSeq(files[b], 1, KeyLen) = k /\ SubSeq(files'[b], 1, KeyLen) = k
      BY <2>1, <2>2, <2>4, <2>5, <2>6, <2>7, ReadText
    <2> QED BY <2>2, <2>4, <2>8 DEF HasKeyText
  <1> QED BY <1>2 DEF KeptStep

\* Where a title yields one key, a file that holds it holds it for ever: no handle
\* makes it shorter or writes another one, however late, in however small pieces.
THEOREM FilesAlwaysKept == OneKeyEach => (Spec => FilesKept)
  <1> SUFFICES ASSUME OneKeyEach PROVE Spec => FilesKept
    OBVIOUS
  <1>1. Untorn
    BY DEF Untorn
  <1>2. Inv /\ Genuine /\ Genuine' /\ [Next]_vars => [KeptStep]_vars
    BY KeptByStep
  <1>3. Spec => []Genuine
    BY <1>1, GenuineAlways
  <1> QED BY <1>2, <1>3, Invariant, PTL DEF Spec, FilesKept

(***************************************************************************)
(* The refinement.                                                         *)
(***************************************************************************)
TableOf(list) == [b \in Blocks |-> IF b \in BlocksOf(list) THEN KeyIn(list, b) ELSE NoKey]

LEMMA TableMapped ==
    /\ table = [p \in Handles |-> TableOf(p_titles[p])]
    /\ table' = [p \in Handles |-> TableOf(p_titles'[p])]
  BY DEF table, TableOf, Listed, BlocksOf, KeyOf, KeyIn

LEMMA NoList == TableOf(<<>>) = [b \in Blocks |-> NoKey]
  BY DEF TableOf, BlocksOf

LEMMA TableInit == ASSUME Init PROVE Table!Init
  BY NoList, TableMapped DEF Init, Table!Init, Table!Empty

LEMMA TableStep ==
    ASSUME Inv, Genuine, [Next]_vars
    PROVE  [Table!Next]_table
  <1>1. CASE UNCHANGED vars
    BY <1>1, TableMapped DEF vars
  <1>2. ASSUME NEW p \in Handles, StepOf(p)
        PROVE  [Table!Next]_table
    <2> DEFINE list == p_titles[p]
               b == i_block[p]
               k == p_key[p]
    <2>1. CASE UNCHANGED p_titles
      BY <2>1, TableMapped
    <2>2. CASE p_titles' = [p_titles EXCEPT ![p] = <<>>]
      <3>1. p_titles'[p] = <<>> /\ \A s \in Handles \ {p} : p_titles'[s] = p_titles[s]
        BY <2>2 DEF Inv, Types
      <3>2. Table!Forget(p)
        BY <3>1, NoList, TableMapped DEF Table!Forget, Table!Empty
      <3> QED BY <3>2 DEF Table!Next
    <2>3. ASSUME NEW new, p_titles' = [p_titles EXCEPT ![p] = new],
                 Extends(new, list, b, k), Insert(p)
          PROVE  Table!Next
      <3>1. pc[p] = "Insert" /\ b \in Blocks /\ b \notin BlocksOf(list)
        BY <2>3, InsertFacts
      <3>2. k \in Learnable[b]
        BY <3>1 DEF Genuine, CallGenuine, HaveKey
      <3>3. p_titles'[p] = new /\ \A s \in Handles \ {p} : p_titles'[s] = p_titles[s]
        BY <2>3 DEF Inv, Types
      <3> HIDE DEF list, b, k
      <3>4. TableOf(list)[b] = NoKey
        BY <3>1 DEF TableOf
      <3>5. TableOf(new) = [TableOf(list) EXCEPT ![b] = k]
        BY <2>3, <3>1 DEF TableOf, Extends
      <3>6. table[p] = TableOf(list) /\ table'[p] = TableOf(new)
        BY <3>3, TableMapped DEF list
      <3>7. table' = [table EXCEPT ![p] = TableOf(new)]
        BY <3>3, TableMapped
      <3>8. Table!Learn(p, b)
        BY <3>2, <3>4, <3>5, <3>6, <3>7 DEF Table!Learn
      <3> QED BY <3>1, <3>8 DEF Table!Next
    <2> QED BY <1>2, <2>1, <2>2, <2>3, ListsChange
  <1> QED BY <1>1, <1>2 DEF Next, StepOf

\* To its user a handle is a table that learns the key of a block once, from those
\* dvdcss_titlekey yields for it, and neither forgets nor changes it before it is
\* closed: under the condition of ListedAlwaysGenuine, the list and the files on
\* disk implement KeyTable.
THEOREM ImplementsTable == Untorn => (Spec => TableSpec)
  <1> SUFFICES ASSUME Untorn PROVE Spec => TableSpec
    OBVIOUS
  <1>1. Init => Table!Init
    BY TableInit
  <1>2. Inv /\ Genuine /\ [Next]_vars => [Table!Next]_table
    BY TableStep
  <1> QED BY <1>1, <1>2, Invariant, GenuineAlways, PTL DEF Spec, TableSpec, Table!Spec

=============================================================================
