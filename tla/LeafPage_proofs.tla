---------------------------- MODULE LeafPage_proofs ----------------------------
(***************************************************************************)
(* For leaves of every size: the arrays stay sorted through the shifts of  *)
(* insert and through split, and the loop of lookup, which is right only   *)
(* on sorted keys, ends at the place BPlusTreePage names.                  *)
(***************************************************************************)
EXTENDS LeafPage, BPlusTreePage_proofs

\* The middle of a range that is not empty lies inside it.
LEMMA MiddleInside ==
  ASSUME NEW l \in Int, NEW h \in Int, l <= h
  PROVE  l + (h - l) \div 2 \in l .. h
OBVIOUS

\* What the cells of a side are good for.
LEMMA KeyTypes ==
  ASSUME TypeOK, NEW s \in Sides, NEW n \in 0 .. LeafMax - 1
  PROVE  keyAt(s, n) \in Nat /\ valueAt(s, n) \in Nat
<1>1. n \in Cells /\ LeafMax + n \in Cells
  BY LeafMaxAssumption DEF Cells
<1>2. cells[s] \in [Cells -> Nat]
  BY DEF TypeOK
<1>3. cells[s][n] \in Nat /\ cells[s][LeafMax + n] \in Nat
  BY <1>1, <1>2
<1> QED  BY <1>3 DEF keyAt, valueAt, KeyCell, ValueCell

-----------------------------------------------------------------------------
(***************************************************************************)
(* lookup.                                                                 *)
(***************************************************************************)
\* If the keys before a place are below the one looked for, and those from the
\* place on are not, then the place is the one LeafLookup names.
LEMMA PlaceIsLookup ==
  ASSUME TypeOK, NEW s \in Sides, NEW k \in Nat, NEW place \in 0 .. current_size[s],
         \A n \in 0 .. place - 1 : keyAt(s, n) < k,
         \A n \in place .. current_size[s] - 1 : keyAt(s, n) >= k
  PROVE  place + 1 = LeafLookup(Entries(s), k)
<1> DEFINE size   == current_size[s]
           passes == {j \in 1 .. size : keyAt(s, j - 1) >= k} \cup {size + 1}
<1>1. size \in 0 .. LeafMax /\ LeafMax \in Nat
  BY LeafMaxAssumption DEF TypeOK
<1>2. DOMAIN Entries(s) = 1 .. size /\ Len(Entries(s)) = size
  BY <1>1 DEF Entries
<1>3. \A j \in 1 .. size : Entries(s)[j].key = keyAt(s, j - 1)
  BY <1>1 DEF Entries, EntryAt, Entry
<1>4. {j \in DOMAIN Entries(s) : Entries(s)[j].key >= k} \cup {Len(Entries(s)) + 1}
        = passes
  BY <1>2, <1>3
<1>5. LeafLookup(Entries(s), k) = Min(passes)
  BY <1>4 DEF LeafLookup, FirstPlace
<1>6. passes \in SUBSET Int /\ place + 1 \in passes
  BY <1>1
<1>7. ASSUME NEW j \in passes  PROVE place + 1 <= j
  <2>1. CASE j = size + 1
    BY <1>1, <2>1
  <2>2. CASE j \in 1 .. size /\ keyAt(s, j - 1) >= k
    <3>1. keyAt(s, j - 1) \in Nat
      BY <1>1, <2>2, KeyTypes
    <3>2. ~ (j - 1 \in 0 .. place - 1)
      BY <2>2, <3>1
    <3> QED  BY <1>1, <2>2, <3>2
  <2> QED  BY <2>1, <2>2
<1>8. Min(passes) = place + 1
  <2> HIDE DEF passes
  <2> QED  BY <1>6, <1>7, MinIs
<1> QED  BY <1>5, <1>8

\* When the loop ends, low and index have met.
LEMMA PlaceFound ==
  ASSUME TypeOK, Narrows, Searched
  PROVE  /\ index \in 0 .. current_size[on]
         /\ \A n \in 0 .. index - 1 : keyAt(on, n) < key
         /\ \A n \in index .. current_size[on] - 1 : keyAt(on, n) >= key
<1>1. low = index /\ index \in Nat /\ current_size[on] \in Nat
  BY LeafMaxAssumption DEF TypeOK, Narrows, Searched
<1> QED  BY <1>1 DEF TypeOK, Narrows, Searched

LEMMA NarrowsFinds ==
  ASSUME TypeOK, Narrows
  PROVE  LookupRight
<1>1. SUFFICES ASSUME Searched  PROVE index + 1 = LeafLookup(Entries(on), key)
  BY DEF LookupRight
<1> QED  BY <1>1, PlaceFound, PlaceIsLookup DEF TypeOK

\* One round of the loop.
LEMMA SearchStepKeepsInv ==
  ASSUME IndInv, SearchStep
  PROVE  IndInv'
<1> DEFINE mid == low + (high - low) \div 2
<1>0. TypeOK /\ Sorted /\ Narrows /\ Merges /\ LeafMax \in Nat
  BY LeafMaxAssumption DEF IndInv
<1>1. /\ pc = "search" /\ pc' = "search" /\ low <= high
      /\ cells' = cells /\ current_size' = current_size /\ op' = op /\ on' = on
      /\ key' = key /\ value' = value /\ i' = i /\ temp' = temp
  BY DEF SearchStep, pages
<1>2. mid \in low .. high /\ low \in Nat /\ high \in Nat /\ index = high + 1
      /\ index <= current_size[on] /\ current_size[on] \in 0 .. LeafMax
      /\ on \in Sides /\ key \in Nat
  BY <1>0, <1>1, MiddleInside DEF TypeOK, Narrows
<1>3. /\ mid \in Nat /\ mid < current_size[on]
      /\ \A n \in 0 .. current_size[on] - 1 : keyAt(on, n) \in Nat
  BY <1>0, <1>2, KeyTypes
<1>4. CASE NotBelow(mid)
  <2>1. index' = mid /\ high' = mid - 1 /\ low' = low
    BY <1>4 DEF SearchStep
  <2>2. \A n \in mid .. current_size[on] - 1 : keyAt(on, n) >= key
    <3>1. SUFFICES ASSUME NEW n \in mid .. current_size[on] - 1
                   PROVE  keyAt(on, n) >= key
      OBVIOUS
    <3>2. keyAt(on, mid) >= key
      BY <1>4 DEF NotBelow
    <3>3. n = mid \/ keyAt(on, mid) < keyAt(on, n)
      BY <1>0, <1>2, <1>3, <3>1 DEF Sorted
    <3> QED  BY <1>2, <1>3, <3>1, <3>2, <3>3
  <2>3. Narrows'
    BY <1>0, <1>1, <1>2, <1>3, <2>1, <2>2 DEF Narrows, keyAt
  <2>4. TypeOK'
    BY <1>0, <1>1, <1>2, <1>3, <2>1 DEF TypeOK
  <2> QED  BY <1>0, <1>1, <2>3, <2>4 DEF IndInv, Sorted, Merges, keyAt
<1>5. CASE ~ NotBelow(mid)
  <2>1. low' = mid + 1 /\ index' = index /\ high' = high
    BY <1>5 DEF SearchStep, GoRight
  <2>2. \A n \in 0 .. mid : keyAt(on, n) < key
    <3>1. SUFFICES ASSUME NEW n \in 0 .. mid
                   PROVE  keyAt(on, n) < key
      OBVIOUS
    <3>2. keyAt(on, mid) < key
      BY <1>2, <1>3, <1>5 DEF NotBelow
    <3>3. n = mid \/ keyAt(on, n) < keyAt(on, mid)
      BY <1>0, <1>2, <1>3, <3>1 DEF Sorted
    <3> QED  BY <1>2, <1>3, <3>1, <3>2, <3>3
  <2>3. Narrows'
    BY <1>0, <1>1, <1>2, <1>3, <2>1, <2>2 DEF Narrows, keyAt
  <2>4. TypeOK'
    BY <1>0, <1>1, <1>2, <1>3, <2>1 DEF TypeOK
  <2> QED  BY <1>0, <1>1, <2>3, <2>4 DEF IndInv, Sorted, Merges, keyAt
<1> QED  BY <1>4, <1>5

\* The start of a search, for a call and for each insert of a split.
LEMMA BeginSearchNarrows ==
  ASSUME TypeOK, NEW s \in Sides, NEW k \in Nat, NEW v \in Nat, BeginSearch(s, k, v)
  PROVE  /\ Narrows'
         /\ low' \in 0 .. LeafMax /\ high' \in -1 .. LeafMax - 1
         /\ index' \in 0 .. LeafMax
<1>1. current_size[s] \in 0 .. LeafMax /\ LeafMax \in Nat
  BY LeafMaxAssumption DEF TypeOK
<1> QED  BY <1>1 DEF BeginSearch, pages, Narrows

-----------------------------------------------------------------------------
(***************************************************************************)
(* insert.                                                                 *)
(***************************************************************************)
\* A memmove inside the array.
LEMMA MemmoveCells ==
  ASSUME NEW from \in [Cells -> Nat], NEW dest \in Nat, NEW src \in Nat,
         NEW count \in Nat, src + count <= 2 * LeafMax
  PROVE  /\ Memmove(from, dest, src, count) \in [Cells -> Nat]
         /\ \A c \in Cells :
              Memmove(from, dest, src, count)[c] =
                IF dest <= c /\ c < dest + count THEN from[c - dest + src] ELSE from[c]
<1> DEFINE new(c) == IF c \in dest .. dest + count - 1
                     THEN from[c - dest + src] ELSE from[c]
<1>1. LeafMax \in Nat
  BY LeafMaxAssumption
<1>2. DOMAIN from = Cells
  OBVIOUS
<1>3. ASSUME NEW c \in Cells
      PROVE  /\ new(c) \in Nat
             /\ c \in dest .. dest + count - 1 <=> dest <= c /\ c < dest + count
  <2>1. c \in Int /\ 0 <= c /\ c < 2 * LeafMax
    BY <1>1, <1>3 DEF Cells
  <2>2. CASE dest <= c /\ c < dest + count
    <3>1. c - dest + src \in Cells
      BY <1>1, <2>1, <2>2 DEF Cells
    <3> QED  BY <2>1, <2>2, <3>1
  <2>3. CASE ~ (dest <= c /\ c < dest + count)
    BY <2>1, <2>3
  <2> QED  BY <2>2, <2>3
<1>4. Memmove(from, dest, src, count) = [c \in Cells |-> new(c)]
  BY <1>2 DEF Memmove
<1> QED  BY <1>3, <1>4

\* A shift of the keys, or of the values, by one place.
LEMMA ShiftedCells ==
  ASSUME NEW from \in [Cells -> Nat], NEW first \in Nat, NEW count \in Nat,
         first + count <= 2 * LeafMax
  PROVE  /\ Shifted(from, first, count) \in [Cells -> Nat]
         /\ \A c \in Cells : c <= first => Shifted(from, first, count)[c] = from[c]
         /\ \A c \in Cells : first + count < c => Shifted(from, first, count)[c] = from[c]
         /\ \A c \in Cells : first < c /\ c <= first + count
               => Shifted(from, first, count)[c] = from[c - 1]
<1> DEFINE dest == first + 1
           to   == Memmove(from, dest, first, count)
<1>1. dest \in Nat
  OBVIOUS
<1>2. to = Shifted(from, first, count)
  BY DEF Shifted
<1>3. \A c \in Cells : c \in Int
  BY LeafMaxAssumption DEF Cells
<1> HIDE DEF dest, to
<1>4. /\ to \in [Cells -> Nat]
      /\ \A c \in Cells : to[c] = IF dest <= c /\ c < dest + count
                                  THEN from[c - dest + first] ELSE from[c]
  BY <1>1, MemmoveCells DEF to
<1>5. ASSUME NEW c \in Cells
      PROVE  /\ c <= first => ~ (dest <= c)
             /\ first + count < c => ~ (c < dest + count)
             /\ first < c /\ c <= first + count =>
                  dest <= c /\ c < dest + count /\ c - dest + first = c - 1
  BY <1>3 DEF dest
<1>6. ASSUME NEW c \in Cells, first < c, c <= first + count
      PROVE  to[c] = from[c - 1]
  BY <1>4, <1>5, <1>6
<1> QED  BY <1>2, <1>4, <1>5, <1>6

\* Where the cells of keys and values are.
LEMMA CellPlaces ==
  ASSUME NEW n \in 0 .. LeafMax - 1
  PROVE  n \in Cells /\ ValueCell(n) \in Cells /\ ValueCell(n) = LeafMax + n
BY LeafMaxAssumption DEF Cells, ValueCell

\* The cells InsertTakes leaves: the entries before index stay, the new one is
\* at index, and the entries that were behind it are one place further on.
LEMMA InsertShifts ==
  ASSUME TypeOK, Narrows, InsertTakes
  PROVE  /\ cells' \in [Sides -> [Cells -> Nat]]
         /\ \A s \in Sides \ {on} : cells'[s] = cells[s]
         /\ \A n \in 0 .. index - 1 :
               /\ cells'[on][n] = cells[on][n]
               /\ cells'[on][ValueCell(n)] = cells[on][ValueCell(n)]
         /\ cells'[on][index] = key /\ cells'[on][ValueCell(index)] = value
         /\ \A n \in index + 1 .. current_size[on] :
               /\ cells'[on][n] = cells[on][n - 1]
               /\ cells'[on][ValueCell(n)] = cells[on][ValueCell(n - 1)]
<1> DEFINE size    == current_size[on]
           behind  == size - index
           moved   == Shifted(cells[on], KeyCell(index), behind)
           shifted == Shifted(moved, ValueCell(index), behind)
           filled  == [shifted EXCEPT ![KeyCell(index)] = key,
                                      ![ValueCell(index)] = value]
<1>1. /\ index \in 0 .. size /\ size \in 0 .. LeafMax - 1 /\ LeafMax \in Nat
      /\ on \in Sides /\ key \in Nat /\ value \in Nat
      /\ cells[on] \in [Cells -> Nat] /\ cells \in [Sides -> [Cells -> Nat]]
  BY PlaceFound, LeafMaxAssumption DEF TypeOK, InsertTakes, Refused, IsFull
<1>2. cells' = [cells EXCEPT ![on] = filled]
  BY DEF InsertTakes
<1>3. /\ index + behind = size /\ behind \in Nat /\ size \in Nat /\ index \in Nat
      /\ index + behind <= 2 * LeafMax /\ LeafMax + index + behind <= 2 * LeafMax
  BY <1>1
<1>4. KeyCell(index) = index
  BY DEF KeyCell
<1> HIDE DEF size, behind
<1>5. /\ moved \in [Cells -> Nat]
      /\ \A c \in Cells : c <= index => moved[c] = cells[on][c]
      /\ \A c \in Cells : index + behind < c => moved[c] = cells[on][c]
      /\ \A c \in Cells : index < c /\ c <= index + behind => moved[c] = cells[on][c - 1]
  <2>1. moved = Shifted(cells[on], index, behind)
    BY <1>4
  <2> HIDE DEF moved
  <2> QED  BY <1>1, <1>3, <2>1, ShiftedCells
<1> HIDE DEF moved
<1>6. /\ shifted \in [Cells -> Nat]
      /\ \A c \in Cells : c <= LeafMax + index => shifted[c] = moved[c]
      /\ \A c \in Cells : LeafMax + index < c /\ c <= LeafMax + index + behind
            => shifted[c] = moved[c - 1]
  <2> DEFINE first == LeafMax + index
  <2>1. first \in Nat /\ first + behind <= 2 * LeafMax
    BY <1>1, <1>3
  <2>2. shifted = Shifted(moved, first, behind)
    BY DEF ValueCell
  <2> HIDE DEF first, shifted
  <2>3. /\ shifted \in [Cells -> Nat]
        /\ \A c \in Cells : c <= first => shifted[c] = moved[c]
        /\ \A c \in Cells : first < c /\ c <= first + behind
              => shifted[c] = moved[c - 1]
    BY <1>3, <1>5, <2>1, <2>2, ShiftedCells
  <2> QED  BY <2>3 DEF first
<1> HIDE DEF shifted
<1>7. index \in 0 .. LeafMax - 1
  BY <1>1
<1>8. index \in Cells /\ ValueCell(index) \in Cells /\ ValueCell(index) = LeafMax + index
  BY <1>7, CellPlaces
<1>9. /\ filled \in [Cells -> Nat]
      /\ filled[index] = key /\ filled[ValueCell(index)] = value
      /\ \A c \in Cells : c # index /\ c # ValueCell(index) => filled[c] = shifted[c]
  <2>1. ValueCell(index) # index
    BY <1>1, <1>8
  <2> QED  BY <1>1, <1>4, <1>6, <1>8, <2>1
<1> HIDE DEF filled
<1>10. cells'[on] = filled /\ \A s \in Sides \ {on} : cells'[s] = cells[s]
  BY <1>1, <1>2
<1>11. cells' \in [Sides -> [Cells -> Nat]]
  BY <1>1, <1>2, <1>9
<1>12. ASSUME NEW n \in 0 .. index - 1
       PROVE  /\ filled[n] = cells[on][n]
              /\ filled[ValueCell(n)] = cells[on][ValueCell(n)]
  <2>1. n \in 0 .. LeafMax - 1
    BY <1>1, <1>12
  <2>2. n \in Cells /\ ValueCell(n) \in Cells /\ ValueCell(n) = LeafMax + n
    BY <2>1, CellPlaces
  <2>3. n <= index /\ n <= LeafMax + index /\ n # index /\ n # ValueCell(index)
    BY <1>1, <1>8, <1>12
  <2>4. /\ ValueCell(n) <= LeafMax + index /\ index + behind < ValueCell(n)
        /\ ValueCell(n) # index /\ ValueCell(n) # ValueCell(index)
    BY <1>1, <1>3, <1>8, <1>12, <2>2
  <2>5. filled[n] = cells[on][n]
    BY <1>5, <1>6, <1>9, <2>2, <2>3
  <2>6. filled[ValueCell(n)] = cells[on][ValueCell(n)]
    BY <1>5, <1>6, <1>9, <2>2, <2>4
  <2> QED  BY <2>5, <2>6
<1>13. ASSUME NEW n \in index + 1 .. size
       PROVE  /\ filled[n] = cells[on][n - 1]
              /\ filled[ValueCell(n)] = cells[on][ValueCell(n - 1)]
  <2>1. n \in 0 .. LeafMax - 1 /\ n - 1 \in 0 .. LeafMax - 1
    BY <1>1, <1>13
  <2>2. /\ n \in Cells /\ ValueCell(n) \in Cells /\ ValueCell(n) = LeafMax + n
        /\ ValueCell(n - 1) \in Cells /\ ValueCell(n - 1) = LeafMax + (n - 1)
    BY <2>1, CellPlaces
  <2>3. /\ index < n /\ n <= index + behind /\ n <= LeafMax + index
        /\ n # index /\ n # ValueCell(index)
    BY <1>1, <1>3, <1>8, <1>13, <2>1
  <2>4. /\ LeafMax + index < ValueCell(n) /\ ValueCell(n) <= LeafMax + index + behind
        /\ ValueCell(n) - 1 = ValueCell(n - 1)
        /\ ValueCell(n) # index /\ ValueCell(n) # ValueCell(index)
        /\ index + behind < ValueCell(n - 1)
    BY <1>1, <1>3, <1>8, <1>13, <2>2
  <2>5. filled[n] = cells[on][n - 1]
    BY <1>5, <1>6, <1>9, <2>2, <2>3
  <2>6. filled[ValueCell(n)] = cells[on][ValueCell(n - 1)]
    <3>1. filled[ValueCell(n)] = moved[ValueCell(n) - 1]
      BY <1>6, <1>9, <2>2, <2>4
    <3>2. moved[ValueCell(n - 1)] = cells[on][ValueCell(n - 1)]
      BY <1>5, <2>2, <2>4
    <3> QED  BY <2>4, <3>1, <3>2
  <2> QED  BY <2>5, <2>6
<1> QED  BY <1>9, <1>10, <1>11, <1>12, <1>13 DEF size

\* An insert that is not refused.
LEMMA InsertTakesKeepsInv ==
  ASSUME IndInv, InsertTakes
  PROVE  IndInv'
<1>0. TypeOK /\ Sorted /\ Narrows /\ Merges /\ LeafMax \in Nat
  BY LeafMaxAssumption DEF IndInv
<1> DEFINE size == current_size[on]
<1>1. /\ Searched /\ op # "lookup" /\ ~ Refused
      /\ pc' = (IF op = "split" THEN "deal" ELSE "idle")
      /\ current_size' = [current_size EXCEPT ![on] = @ + 1]
      /\ op' = op /\ on' = on /\ key' = key /\ value' = value
      /\ low' = low /\ high' = high /\ index' = index /\ i' = i /\ temp' = temp
  BY DEF InsertTakes, search
<1>2. /\ index \in 0 .. size /\ size \in 0 .. LeafMax - 1
      /\ on \in Sides /\ key \in Nat
      /\ \A n \in 0 .. index - 1 : keyAt(on, n) < key
      /\ \A n \in index .. size - 1 : keyAt(on, n) >= key
  BY <1>0, <1>1, PlaceFound DEF TypeOK, Refused, IsFull
<1>3. /\ current_size' \in [Sides -> 0 .. LeafMax]
      /\ current_size'[on] = size + 1
      /\ \A s \in Sides \ {on} : current_size'[s] = current_size[s]
  BY <1>0, <1>1, <1>2 DEF TypeOK
<1>4. TypeOK'
  BY <1>0, <1>1, <1>3, InsertShifts DEF TypeOK
<1> DEFINE old(n) == cells[on][n]
           new(n) == cells'[on][n]
<1>5. /\ \A n \in 0 .. index - 1 : new(n) = old(n)
      /\ new(index) = key
      /\ \A n \in index + 1 .. size : new(n) = old(n - 1)
  BY <1>0, InsertShifts
<1>6. /\ \A n \in 0 .. size - 1 : old(n) \in Nat
      /\ \A m, n \in 0 .. size - 1 : m < n => old(m) < old(n)
      /\ \A n \in 0 .. index - 1 : old(n) < key
  BY <1>0, <1>2, KeyTypes DEF Sorted, keyAt, KeyCell
<1>7. \A n \in index .. size - 1 : key < old(n)
  <2>1. SUFFICES ASSUME NEW n \in index .. size - 1  PROVE key < old(n)
    OBVIOUS
  <2>2. old(index) # key
    BY <1>1, <1>2, <2>1 DEF Refused, HasKey, keyAt, KeyCell
  <2>3. old(index) >= key
    BY <1>2, <2>1 DEF keyAt, KeyCell
  <2>4. n = index \/ old(index) < old(n)
    BY <1>2, <1>6, <2>1
  <2> HIDE DEF old
  <2> QED  BY <1>2, <1>6, <2>1, <2>2, <2>3, <2>4
<1>8. Sorted'
  <2>1. SUFFICES ASSUME NEW s \in Sides, NEW m \in 0 .. current_size'[s] - 1,
                        NEW n \in 0 .. current_size'[s] - 1, m < n
                 PROVE  cells'[s][m] < cells'[s][n]
    BY DEF Sorted, keyAt, KeyCell
  <2>2. CASE s # on
    BY <1>0, <1>3, <2>1, <2>2, InsertShifts DEF Sorted, keyAt, KeyCell
  <2>3. CASE s = on
    <3> SUFFICES new(m) < new(n)
      BY <2>3
    <3> HIDE DEF old, new
    <3>1. m \in 0 .. size /\ n \in 0 .. size
      BY <1>2, <1>3, <2>1, <2>3
    <3>2. CASE n < index
      BY <1>2, <1>5, <1>6, <2>1, <3>1, <3>2
    <3>3. CASE n = index
      BY <1>2, <1>5, <1>6, <2>1, <3>1, <3>3
    <3>4. CASE n > index
      <4>1. n - 1 \in index .. size - 1 /\ new(n) = old(n - 1)
        BY <1>2, <1>5, <3>1, <3>4
      <4>2. key < old(n - 1) /\ old(n - 1) \in Nat
        BY <1>2, <1>6, <1>7, <4>1
      <4>3. CASE m < index
        BY <1>2, <1>5, <1>6, <3>1, <4>1, <4>2, <4>3
      <4>4. CASE m = index
        BY <1>5, <4>1, <4>2, <4>4
      <4>5. CASE m > index
        <5>1. m - 1 \in 0 .. size - 1 /\ m - 1 < n - 1 /\ new(m) = old(m - 1)
          BY <1>2, <1>5, <2>1, <3>1, <4>5
        <5> QED  BY <1>2, <1>6, <4>1, <5>1
      <4> QED  BY <1>2, <3>1, <4>3, <4>4, <4>5
    <3> QED  BY <1>2, <3>1, <3>2, <3>3, <3>4
  <2> QED  BY <2>2, <2>3
<1>9. Narrows' /\ Merges'
  BY <1>0, <1>1 DEF Narrows, Merges, Searched
<1> QED  BY <1>4, <1>8, <1>9 DEF IndInv

-----------------------------------------------------------------------------
(***************************************************************************)
(* split, and the steps that only go on to another place in the code.      *)
(***************************************************************************)
\* What an entry is made of.
LEMMA PairTypes ==
  /\ \A k, v \in Nat : Entry(k, v) \in Pairs
  /\ \A e \in Pairs : e.key \in Nat /\ e.value \in Nat
BY DEF Pairs, Entry

\* One entry more.
LEMMA OneMore ==
  ASSUME NEW T, NEW t \in Seq(T), NEW e \in T
  PROVE  /\ Append(t, e) \in Seq(T) /\ Len(Append(t, e)) = Len(t) + 1
         /\ t \o <<e>> \in Seq(T)   /\ Len(t \o <<e>>) = Len(t) + 1
<1>1. Len(t) \in Nat /\ <<e>> \in Seq(T) /\ Len(<<e>>) = 1
  OBVIOUS
<1> QED  BY <1>1

\* One round of the merge.
LEMMA MergeStepKeepsInv ==
  ASSUME IndInv, MergeStep
  PROVE  IndInv'
<1> DEFINE size  == current_size["page"]
           front == IF ~ Inserted /\ key < keyAt("page", i)
                    THEN Append(temp, NewEntry) ELSE temp
<1>0. TypeOK /\ Sorted /\ Merges /\ LeafMax \in Nat
  BY LeafMaxAssumption DEF IndInv
<1>1. /\ pc = "merge" /\ i < size /\ temp' = front \o <<EntryAt("page", i)>>
      /\ i' = i + 1 /\ pc' = pc /\ cells' = cells /\ current_size' = current_size
      /\ on' = on /\ key' = key /\ value' = value
      /\ low' = low /\ high' = high /\ index' = index /\ op' = op
  BY DEF MergeStep, pages, search
<1>2. /\ temp \in Seq(Pairs) /\ Len(temp) \in {i, i + 1} /\ i \in Nat
      /\ size \in 0 .. LeafMax /\ "page" \in Sides
  BY <1>0, <1>1 DEF TypeOK, Merges, Sides
<1>3. NewEntry \in Pairs /\ EntryAt("page", i) \in Pairs
  <2>1. i \in 0 .. LeafMax - 1
    BY <1>0, <1>1, <1>2
  <2>2. keyAt("page", i) \in Nat /\ valueAt("page", i) \in Nat
    BY <1>0, <1>2, <2>1, KeyTypes
  <2>3. key \in Nat /\ value \in Nat
    BY <1>0 DEF TypeOK
  <2> QED  BY <2>2, <2>3, PairTypes DEF NewEntry, EntryAt
<1>4. front \in Seq(Pairs) /\ Len(front) \in {i, i + 1}
  <2>1. CASE ~ Inserted /\ key < keyAt("page", i)
    <3>1. Len(temp) = i
      BY <1>2, <2>1 DEF Inserted
    <3> QED  BY <1>2, <1>3, <2>1, <3>1, OneMore
  <2>2. CASE ~ (~ Inserted /\ key < keyAt("page", i))
    BY <1>2, <2>2
  <2> QED  BY <2>1, <2>2
<1>5. temp' \in Seq(Pairs) /\ Len(temp') \in {i', i' + 1} /\ Len(temp') \in Nat
  <2> HIDE DEF front
  <2>1. /\ front \o <<EntryAt("page", i)>> \in Seq(Pairs)
        /\ Len(front \o <<EntryAt("page", i)>>) = Len(front) + 1
    BY <1>3, <1>4, OneMore
  <2>2. temp' \in Seq(Pairs) /\ Len(temp') = Len(front) + 1
    BY <1>1, <2>1
  <2> QED  BY <1>1, <1>2, <1>4, <2>2
<1>6. i' \in 0 .. LeafMax /\ i' <= size /\ Len(temp') <= LeafMax + 1
  <2> HIDE DEF front, size
  <2>1. i' = i + 1 /\ i < size
    BY <1>1
  <2> QED  BY <1>0, <1>2, <1>5, <2>1
<1>7. TypeOK'
  BY <1>0, <1>1, <1>5, <1>6 DEF TypeOK
<1>8. Sorted' /\ Narrows' /\ Merges'
  BY <1>0, <1>1, <1>5, <1>6 DEF Sorted, Narrows, Merges, keyAt
<1> QED  BY <1>7, <1>8 DEF IndInv

\* The end of the merge: both sides are emptied.
LEMMA MergeDoneKeepsInv ==
  ASSUME IndInv, MergeDone
  PROVE  IndInv'
<1>0. TypeOK /\ Sorted /\ Merges /\ LeafMax \in Nat
  BY LeafMaxAssumption DEF IndInv
<1>1. /\ pc = "merge" /\ i = current_size["page"]
      /\ temp' = (IF Inserted THEN temp ELSE Append(temp, NewEntry))
      /\ cells' = [cells EXCEPT !["sibling"] = ZeroCells]
      /\ current_size' = [s \in Sides |-> 0]
      /\ pc' = "deal" /\ i' = 0 /\ op' = op /\ on' = on
      /\ key' = key /\ value' = value
      /\ low' = low /\ high' = high /\ index' = index
  BY DEF MergeDone, search
<1>2. /\ temp \in Seq(Pairs) /\ Len(temp) \in {i, i + 1} /\ i \in 0 .. LeafMax
      /\ NewEntry \in Pairs
  <2>1. /\ temp \in Seq(Pairs) /\ Len(temp) \in {i, i + 1} /\ i \in 0 .. LeafMax
        /\ key \in Nat /\ value \in Nat
    BY <1>0, <1>1 DEF TypeOK, Merges, Sides
  <2> QED  BY <2>1, PairTypes DEF NewEntry
<1>3. temp' \in Seq(Pairs) /\ Len(temp') <= LeafMax + 1 /\ Len(temp') \in Nat
  <2>1. CASE Inserted
    BY <1>0, <1>1, <1>2, <2>1
  <2>2. CASE ~ Inserted
    <3>1. Len(temp) = i
      BY <1>2, <2>2 DEF Inserted
    <3>2. temp' \in Seq(Pairs) /\ Len(temp') = i + 1
      BY <1>1, <1>2, <2>2, <3>1, OneMore
    <3> QED  BY <1>0, <1>2, <3>2
  <2> QED  BY <2>1, <2>2
<1>4. cells' \in [Sides -> [Cells -> Nat]]
  BY <1>0, <1>1 DEF TypeOK, ZeroCells
<1>5. current_size' \in [Sides -> 0 .. LeafMax] /\ i' \in 0 .. LeafMax + 1
  BY <1>0, <1>1
<1>6. TypeOK'
  BY <1>0, <1>1, <1>3, <1>4, <1>5 DEF TypeOK
<1>7. Sorted'
  BY <1>1 DEF Sorted
<1>8. Narrows' /\ Merges'
  BY <1>1, <1>3 DEF Narrows, Merges
<1> QED  BY <1>6, <1>7, <1>8 DEF IndInv

\* An entry of the temporary arrays.
LEMMA OneOf ==
  ASSUME NEW T, NEW t \in Seq(T), NEW n \in 1 .. Len(t)
  PROVE  t[n] \in T
OBVIOUS

\* Dealing: the next entry is inserted into its half.
LEMMA DealStepKeepsInv ==
  ASSUME IndInv, DealStep
  PROVE  IndInv'
<1>0. TypeOK /\ Sorted /\ Merges /\ LeafMax \in Nat
  BY LeafMaxAssumption DEF IndInv
<1> DEFINE e    == temp[i + 1]
           side == DealtTo(i)
<1>1. /\ pc = "deal" /\ i < Len(temp) /\ BeginSearch(side, e.key, e.value)
      /\ i' = i + 1 /\ op' = op /\ temp' = temp
  BY DEF DealStep
<1>2. /\ side \in Sides /\ e.key \in Nat /\ e.value \in Nat
      /\ i + 1 \in 0 .. LeafMax + 1 /\ i + 1 <= Len(temp)
  <2>1. /\ temp \in Seq(Pairs) /\ Len(temp) <= LeafMax + 1
        /\ i \in Nat /\ Len(temp) \in Nat
    BY <1>0 DEF TypeOK
  <2>2. i + 1 \in 1 .. Len(temp)
    BY <1>1, <2>1
  <2>3. e.key \in Nat /\ e.value \in Nat
    <3>1. e \in Pairs
      BY <2>1, <2>2, OneOf
    <3> QED  BY <3>1, PairTypes
  <2>4. side \in Sides
    BY DEF DealtTo, Sides
  <2> QED  BY <1>0, <2>1, <2>2, <2>3, <2>4
<1>3. /\ Narrows' /\ low' \in 0 .. LeafMax /\ high' \in -1 .. LeafMax - 1
      /\ index' \in 0 .. LeafMax
  BY <1>0, <1>1, <1>2, BeginSearchNarrows
<1>4. /\ pc' = "search" /\ on' = side /\ key' = e.key /\ value' = e.value
      /\ cells' = cells /\ current_size' = current_size
  BY <1>1 DEF BeginSearch, pages
<1>5. TypeOK'
  BY <1>0, <1>1, <1>2, <1>3, <1>4 DEF TypeOK
<1>6. Sorted' /\ Merges'
  BY <1>0, <1>1, <1>2, <1>4 DEF Sorted, Merges, keyAt
<1> QED  BY <1>3, <1>5, <1>6 DEF IndInv

\* A call of the tree.
LEMMA CallKeepsInv ==
  ASSUME IndInv, NEW name \in {"lookup", "insert"}, NEW k \in Nat, NEW v \in Nat,
         Call(name, k, v)
  PROVE  IndInv'
<1>0. TypeOK /\ Sorted /\ Merges /\ LeafMax \in Nat
  BY LeafMaxAssumption DEF IndInv
<1>1. /\ op' = name /\ BeginSearch("page", k, v) /\ i' = i /\ temp' = temp
      /\ "page" \in Sides
  BY DEF Call, Sides
<1>2. /\ Narrows' /\ low' \in 0 .. LeafMax /\ high' \in -1 .. LeafMax - 1
      /\ index' \in 0 .. LeafMax
  BY <1>0, <1>1, BeginSearchNarrows
<1>3. /\ pc' = "search" /\ on' = "page" /\ key' = k /\ value' = v
      /\ cells' = cells /\ current_size' = current_size
  BY <1>1 DEF BeginSearch, pages
<1>4. TypeOK'
  BY <1>0, <1>1, <1>2, <1>3 DEF TypeOK
<1>5. Sorted' /\ Merges'
  BY <1>0, <1>1, <1>3 DEF Sorted, Merges, keyAt
<1> QED  BY <1>2, <1>4, <1>5 DEF IndInv

\* The tree goes on with one half.
LEMMA SplitReturnsKeepsInv ==
  ASSUME IndInv, NEW side \in Sides, SplitReturns(side)
  PROVE  IndInv'
<1>0. TypeOK /\ Sorted /\ LeafMax \in Nat
  BY LeafMaxAssumption DEF IndInv
<1>1. /\ cells' = [cells EXCEPT !["page"] = cells[side], !["sibling"] = ZeroCells]
      /\ current_size' = [current_size EXCEPT !["page"] = current_size[side],
                                              !["sibling"] = 0]
      /\ pc' = "idle" /\ op' = "insert" /\ i' = 0 /\ temp' = << >>
      /\ on' = on /\ key' = key /\ value' = value
      /\ low' = low /\ high' = high /\ index' = index
  BY DEF SplitReturns, search
<1>2. ZeroCells \in [Cells -> Nat] /\ Sides = {"page", "sibling"}
  BY DEF ZeroCells, Sides
<1>3. /\ cells' \in [Sides -> [Cells -> Nat]]
      /\ current_size' \in [Sides -> 0 .. LeafMax]
      /\ cells'["page"] = cells[side] /\ current_size'["page"] = current_size[side]
      /\ current_size'["sibling"] = 0
  BY <1>0, <1>1, <1>2 DEF TypeOK
<1>4. TypeOK'
  <2>1. temp' \in Seq(Pairs) /\ Len(temp') <= LeafMax + 1
    <3>1. << >> \in Seq(Pairs) /\ Len(<< >>) = 0
      OBVIOUS
    <3> QED  BY <1>0, <1>1, <3>1
  <2>2. i' \in 0 .. LeafMax + 1
    BY <1>0, <1>1
  <2>3. /\ on' \in Sides /\ key' \in Nat /\ value' \in Nat
        /\ low' \in 0 .. LeafMax /\ high' \in -1 .. LeafMax - 1
        /\ index' \in 0 .. LeafMax
    BY <1>0, <1>1 DEF TypeOK
  <2> QED  BY <1>3, <2>1, <2>2, <2>3 DEF TypeOK
<1>5. Sorted'
  <2>1. SUFFICES ASSUME NEW s \in Sides, NEW m \in 0 .. current_size'[s] - 1,
                        NEW n \in 0 .. current_size'[s] - 1, m < n
                 PROVE  cells'[s][m] < cells'[s][n]
    BY DEF Sorted, keyAt, KeyCell
  <2>2. CASE s = "page"
    BY <1>0, <1>3, <2>1, <2>2 DEF Sorted, keyAt, KeyCell
  <2>3. CASE s = "sibling"
    BY <1>3, <2>1, <2>3
  <2> QED  BY <1>2, <2>1, <2>2, <2>3
<1>6. Narrows' /\ Merges'
  BY <1>1 DEF Narrows, Merges
<1> QED  BY <1>4, <1>5, <1>6 DEF IndInv

\* insert or lookup comes back, or split begins.
LEMMA ReturnKeepsInv ==
  ASSUME IndInv, LookupReturns \/ InsertRefused \/ Split
  PROVE  IndInv'
<1>0. TypeOK /\ Sorted /\ Narrows /\ Merges /\ LeafMax \in Nat
  BY LeafMaxAssumption DEF IndInv
<1>1. /\ cells' = cells /\ current_size' = current_size /\ on' = on
      /\ key' = key /\ value' = value
      /\ low' = low /\ high' = high /\ index' = index
  BY DEF LookupReturns, InsertRefused, Split, pages, search
<1>2. Sorted'
  BY <1>0, <1>1 DEF Sorted, keyAt
<1>3. CASE Split
  <2>1. pc' = "merge" /\ op' = "split" /\ i' = 0 /\ temp' = << >>
        /\ current_size["page"] \in Nat
    BY <1>0, <1>3 DEF Split, TypeOK, Sides
  <2>2. TypeOK'
    BY <1>0, <1>1, <2>1 DEF TypeOK
  <2>3. Narrows' /\ Merges'
    BY <1>1, <2>1 DEF Narrows, Merges
  <2> QED  BY <1>2, <2>2, <2>3 DEF IndInv
<1>4. CASE LookupReturns \/ InsertRefused
  <2>1. pc = "search" /\ pc' # "search" /\ pc' # "merge"
        /\ op' = op /\ i' = i /\ temp' = temp
    BY <1>4 DEF LookupReturns, InsertRefused, Searched
  <2>2. TypeOK' /\ Narrows' /\ Merges'
    BY <1>0, <1>1, <2>1 DEF TypeOK, Narrows, Merges
  <2> QED  BY <1>2, <2>2 DEF IndInv
<1> QED  BY <1>3, <1>4

-----------------------------------------------------------------------------
(***************************************************************************)
(* Arrays and sequences.                                                   *)
(***************************************************************************)
\* A row of cells as a sequence of entries.
LEMMA RowIsSequence ==
  ASSUME NEW row \in [Cells -> Nat], NEW size \in 0 .. LeafMax, NEW es,
         es = [n \in 1 .. size |-> Entry(row[n - 1], row[ValueCell(n - 1)])]
  PROVE  es \in Seq(Pairs) /\ Len(es) = size
<1>1. size \in Nat
  BY LeafMaxAssumption
<1>2. ASSUME NEW n \in 1 .. size
      PROVE  Entry(row[n - 1], row[ValueCell(n - 1)]) \in Pairs
  <2>1. n - 1 \in 0 .. LeafMax - 1
    BY LeafMaxAssumption
  <2>2. n - 1 \in Cells /\ ValueCell(n - 1) \in Cells
    BY <2>1, CellPlaces
  <2>3. row[n - 1] \in Nat /\ row[ValueCell(n - 1)] \in Nat
    BY <2>2
  <2> QED  BY <2>3, PairTypes
<1>3. es \in [1 .. size -> Pairs]
  BY <1>2
<1>4. es \in Seq(Pairs) /\ Len(es) = size
  BY <1>1, <1>3
<1> QED  BY <1>4

\* The entries of a side as a sequence.
LEMMA EntriesTypes ==
  ASSUME TypeOK, NEW s \in Sides
  PROVE  /\ Entries(s) \in Seq(Pairs)
         /\ Len(Entries(s)) = current_size[s]
         /\ \A n \in 1 .. current_size[s] : Entries(s)[n] = EntryAt(s, n - 1)
<1>1. cells[s] \in [Cells -> Nat] /\ current_size[s] \in 0 .. LeafMax
  BY DEF TypeOK
<1>2. Entries(s) = [n \in 1 .. current_size[s] |->
                      Entry(cells[s][n - 1], cells[s][ValueCell(n - 1)])]
  BY DEF Entries, EntryAt, keyAt, valueAt, KeyCell
<1>3. \A n \in 1 .. current_size[s] : Entries(s)[n] = EntryAt(s, n - 1)
  BY DEF Entries
<1>4. Entries(s) \in Seq(Pairs) /\ Len(Entries(s)) = current_size[s]
  BY <1>1, <1>2, RowIsSequence
<1> QED  BY <1>3, <1>4

\* LeafHas, once the place is found.
LEMMA HasKeyIsLeafHas ==
  ASSUME TypeOK, Narrows, Searched
  PROVE  /\ LeafLookup(Entries(on), key) = index + 1
         /\ LeafHas(Entries(on), key) <=> HasKey
<1>1. /\ on \in Sides /\ key \in Nat
      /\ index \in 0 .. current_size[on] /\ current_size[on] \in Nat
  BY PlaceFound, LeafMaxAssumption DEF TypeOK
<1>2. LeafLookup(Entries(on), key) = index + 1
  BY <1>1, PlaceFound, PlaceIsLookup
<1>3. index + 1 <= Len(Entries(on)) <=> index < current_size[on]
  BY <1>1, EntriesTypes
<1>4. ASSUME index < current_size[on]
      PROVE  Entries(on)[index + 1].key = keyAt(on, index)
  <2>1. index + 1 \in 1 .. current_size[on] /\ index + 1 - 1 = index
    BY <1>1, <1>4
  <2>2. Entries(on)[index + 1] = EntryAt(on, index + 1 - 1)
    BY <1>1, <2>1, EntriesTypes
  <2>3. Entries(on)[index + 1] = EntryAt(on, index)
    BY <2>1, <2>2
  <2> QED  BY <2>3 DEF EntryAt, Entry
<1> QED  BY <1>2, <1>3, <1>4 DEF LeafHas, HasKey

LEMMA InsertTakesEntry ==
  ASSUME IndInv, InsertTakes
  PROVE  Entries(on)' = LeafInsert(Entries(on), NewEntry)
<1> DEFINE size  == current_size[on]
           new   == InsertAt(Entries(on), index + 1, NewEntry)
<1>0. TypeOK /\ Narrows /\ TypeOK' /\ Searched /\ ~ Refused /\ LeafMax \in Nat
  BY InsertTakesKeepsInv, LeafMaxAssumption DEF IndInv, InsertTakes
<1>1. /\ on \in Sides /\ on' = on /\ size \in 0 .. LeafMax - 1
      /\ index \in 0 .. size /\ current_size'[on] = size + 1 /\ NewEntry \in Pairs
  <2>1. NewEntry \in Pairs
    <3>1. key \in Nat /\ value \in Nat
      BY <1>0 DEF TypeOK
    <3> QED  BY <3>1, PairTypes DEF NewEntry
  <2>2. on \in Sides /\ index \in 0 .. size /\ size \in 0 .. LeafMax - 1
    <3>1. on \in Sides /\ size \in 0 .. LeafMax
      BY <1>0 DEF TypeOK
    <3>2. ~ (size >= LeafMax)
      BY <1>0 DEF Refused, IsFull
    <3>3. index \in 0 .. size
      BY <1>0, PlaceFound
    <3> HIDE DEF size
    <3> QED  BY <1>0, <3>1, <3>2, <3>3
  <2>3. on' = on /\ current_size'[on] = size + 1
    BY <1>0, <2>2 DEF TypeOK, InsertTakes
  <2> QED  BY <2>1, <2>2, <2>3
<1>2. LeafInsert(Entries(on), NewEntry) = new
  <2>1. NewEntry.key = key
    BY DEF NewEntry, Entry
  <2>2. Len(Entries(on)) < LeafMax
    BY <1>0, <1>1, EntriesTypes
  <2>3. ~ LeafHas(Entries(on), key) /\ LeafLookup(Entries(on), key) = index + 1
    BY <1>0, HasKeyIsLeafHas DEF Refused
  <2> QED  BY <2>1, <2>2, <2>3 DEF LeafInsert, LeafAccepts
<1>3. /\ new \in Seq(Pairs) /\ Len(new) = size + 1
      /\ \A n \in 1 .. index : new[n] = Entries(on)[n]
      /\ new[index + 1] = NewEntry
      /\ \A n \in index + 2 .. size + 1 : new[n] = Entries(on)[n - 1]
  <2> DEFINE t == Entries(on)
             j == index + 1
  <2>1. t \in Seq(Pairs) /\ Len(t) = size /\ NewEntry \in Pairs
    BY <1>0, <1>1, EntriesTypes
  <2> HIDE DEF t, size
  <2>2. j \in 1 .. Len(t) + 1
    BY <1>1, <2>1
  <2>3. new = InsertAt(t, j, NewEntry)
    BY DEF t
  <2>4. j - 1 = index /\ j + 1 = index + 2
    BY <1>1
  <2> HIDE DEF j, new
  <2>5. new \in Seq(Pairs) /\ Len(new) = Len(t) + 1
    BY <2>1, <2>2, <2>3, InsertAtElements
  <2>6. \A n \in 1 .. j - 1 : new[n] = t[n]
    <3> SUFFICES ASSUME NEW n \in 1 .. j - 1  PROVE new[n] = t[n]
      OBVIOUS
    <3>1. n < j /\ n \in 1 .. Len(t) + 1
      BY <2>1, <2>2
    <3>2. InsertAt(t, j, NewEntry)[n] = t[n]
      BY <2>1, <2>2, <3>1, InsertAtElement
    <3> QED  BY <2>3, <3>2
  <2>7. new[j] = NewEntry
    BY <2>1, <2>2, <2>3, InsertAtElements
  <2>8. \A n \in j + 1 .. Len(t) + 1 : new[n] = t[n - 1]
    <3> SUFFICES ASSUME NEW n \in j + 1 .. Len(t) + 1  PROVE new[n] = t[n - 1]
      OBVIOUS
    <3>1. n > j /\ n \in 1 .. Len(t) + 1
      BY <2>1, <2>2
    <3>2. InsertAt(t, j, NewEntry)[n] = t[n - 1]
      BY <2>1, <2>2, <3>1, InsertAtElement
    <3> QED  BY <2>3, <3>2
  <2>9. new[index + 1] = NewEntry
    BY <2>7 DEF j
  <2> QED  BY <2>1, <2>4, <2>5, <2>6, <2>8, <2>9 DEF t
<1> HIDE DEF new
<1>4. /\ Entries(on)' = [n \in 1 .. size + 1 |-> EntryAt(on, n - 1)']
      /\ \A n \in 0 .. size : EntryAt(on, n)' =
           Entry(cells'[on][n], cells'[on][ValueCell(n)])
  BY <1>1 DEF Entries, EntryAt, keyAt, valueAt, KeyCell
<1>5. \A n \in 1 .. size : Entries(on)[n] =
         Entry(cells[on][n - 1], cells[on][ValueCell(n - 1)])
  <2>1. \A n \in 1 .. size : Entries(on)[n] = EntryAt(on, n - 1)
    BY <1>0, <1>1, EntriesTypes
  <2> QED  BY <2>1 DEF EntryAt, keyAt, valueAt, KeyCell
<1>6. ASSUME NEW n \in 1 .. size + 1  PROVE Entries(on)'[n] = new[n]
  <2>1. /\ n - 1 \in 0 .. size /\ n \in Int
        /\ Entries(on)'[n] = Entry(cells'[on][n - 1], cells'[on][ValueCell(n - 1)])
    BY <1>1, <1>4
  <2>2. CASE n < index + 1
    <3>1. n - 1 \in 0 .. index - 1 /\ n \in 1 .. size
      BY <1>1, <2>1, <2>2
    <3>2. n \in 1 .. index
      BY <1>1, <2>1, <2>2
    <3>3. new[n] = Entries(on)[n]
      BY <1>3, <3>2
    <3>4. new[n] = Entry(cells[on][n - 1], cells[on][ValueCell(n - 1)])
      BY <1>5, <3>1, <3>3
    <3> QED  BY <1>0, <2>1, <3>1, <3>4, InsertShifts
  <2>3. CASE n = index + 1
    <3>1. n - 1 = index
      BY <1>1, <2>3
    <3>2. new[n] = Entry(key, value)
      BY <1>1, <1>3, <2>3 DEF NewEntry
    <3> QED  BY <1>0, <2>1, <3>1, <3>2, InsertShifts
  <2>4. CASE n > index + 1
    <3>1. n - 1 \in index + 1 .. size /\ n - 1 \in 1 .. size
      BY <1>1, <2>1, <2>4
    <3>2. n \in index + 2 .. size + 1
      BY <1>1, <2>1, <2>4
    <3>3. new[n] = Entries(on)[n - 1]
      BY <1>3, <3>2
    <3>4. new[n] = Entry(cells[on][n - 1 - 1], cells[on][ValueCell(n - 1 - 1)])
      BY <1>5, <3>1, <3>3
    <3> QED  BY <1>0, <2>1, <3>1, <3>4, InsertShifts
  <2> QED  BY <1>1, <2>1, <2>2, <2>3, <2>4
<1>7. Entries(on)' \in Seq(Pairs) /\ Len(Entries(on)') = size + 1
  <2>1. cells'[on] \in [Cells -> Nat] /\ size + 1 \in 0 .. LeafMax
    BY <1>0, <1>1 DEF TypeOK
  <2>2. Entries(on)' = [n \in 1 .. size + 1 |->
                          Entry(cells'[on][n - 1], cells'[on][ValueCell(n - 1)])]
    BY <1>1 DEF Entries, EntryAt, keyAt, valueAt, KeyCell
  <2> HIDE DEF size
  <2> QED  BY <2>1, <2>2, RowIsSequence
<1>8. Entries(on)' = new
  BY <1>3, <1>6, <1>7, SeqEqual
<1> QED  BY <1>2, <1>8

-----------------------------------------------------------------------------
LEMMA InitGivesInv ==
  Init => IndInv
<1> SUFFICES ASSUME Init  PROVE IndInv
  OBVIOUS
<1>1. LeafMax \in Nat \ {0}
  BY LeafMaxAssumption
<1>2. TypeOK
  BY <1>1 DEF Init, TypeOK, ZeroCells, Sides
<1> QED  BY <1>2 DEF Init, IndInv, Sorted, Narrows, Merges

LEMMA NextKeepsInv ==
  IndInv /\ [Next]_vars => IndInv'
<1> SUFFICES ASSUME IndInv, [Next]_vars  PROVE IndInv'
  OBVIOUS
<1>1. CASE Calls
  <2>1. PICK name \in {"lookup", "insert"}, k \in Nat, v \in Nat : Call(name, k, v)
    BY <1>1, KeysAssumption, ValuesAssumption DEF Calls
  <2> QED  BY <2>1, CallKeepsInv
<1>2. CASE SearchStep
  BY <1>2, SearchStepKeepsInv
<1>3. CASE LookupReturns \/ InsertRefused \/ Split
  BY <1>3, ReturnKeepsInv
<1>4. CASE InsertTakes
  BY <1>4, InsertTakesKeepsInv
<1>5. CASE MergeStep
  BY <1>5, MergeStepKeepsInv
<1>6. CASE MergeDone
  BY <1>6, MergeDoneKeepsInv
<1>7. CASE DealStep
  BY <1>7, DealStepKeepsInv
<1>8. CASE \E side \in Sides : SplitReturns(side)
  BY <1>8, SplitReturnsKeepsInv
<1>9. CASE UNCHANGED vars
  BY <1>9 DEF vars, pages, search, IndInv, TypeOK, Sorted, Narrows, Merges, keyAt
<1> QED  BY <1>1, <1>2, <1>3, <1>4, <1>5, <1>6, <1>7, <1>8, <1>9 DEF Next, Work

\* The invariant, for every size of leaf, set of keys and set of values.
THEOREM LeafInvariant == Spec => []IndInv
BY InitGivesInv, NextKeepsInv, PTL DEF Spec

\* No index, counter or array of lookup, insert and split leaves its bounds.
THEOREM LeafTypes == Spec => []TypeOK
<1>1. IndInv => TypeOK
  BY DEF IndInv
<1> QED  BY <1>1, LeafInvariant, PTL

\* The keys of both halves ascend through every insert and split.
THEOREM KeysAscend == Spec => []Sorted
<1>1. IndInv => Sorted
  BY DEF IndInv
<1> QED  BY <1>1, LeafInvariant, PTL

\* lookup by halving ends where searching one by one would: at the first key
\* that is not below the one looked for.
THEOREM HalvingFindsThePlace == Spec => []LookupRight
<1>1. IndInv => LookupRight
  BY NarrowsFinds DEF IndInv
<1> QED  BY <1>1, LeafInvariant, PTL

-----------------------------------------------------------------------------
(***************************************************************************)
(* split as a whole.  Splits says what the arrays hold at every point of   *)
(* it; with that, every step is a step of the table or changes nothing.    *)
(***************************************************************************)
SplitInv == IndInv /\ Splits

\* Both outcomes of insert are LeafInsert.
LEMMA InsertReturns ==
  ASSUME IndInv, InsertTakes \/ InsertRefused
  PROVE  Entries(on)' = LeafInsert(Entries(on), NewEntry)
<1>1. CASE InsertRefused
  <2>1. TypeOK /\ Narrows /\ Searched /\ Refused /\ LeafMax \in Nat
    BY <1>1, LeafMaxAssumption DEF IndInv, InsertRefused
  <2>2. Entries(on)' = Entries(on)
    BY <1>1 DEF InsertRefused, pages, Entries, EntryAt, keyAt, valueAt
  <2>3. Len(Entries(on)) = current_size[on] /\ current_size[on] \in Nat
    BY <2>1, EntriesTypes DEF TypeOK
  <2>4. ~ LeafAccepts(Entries(on), key)
    BY <2>1, <2>3, HasKeyIsLeafHas DEF LeafAccepts, Refused, IsFull
  <2> QED  BY <2>2, <2>4 DEF LeafInsert, NewEntry, Entry
<1>2. CASE InsertTakes
  BY <1>2, InsertTakesEntry
<1> QED  BY <1>1, <1>2

\* The two memmoves of insert keep keys and values together and lose no entry,
\* for leaves of every size: insert is LeafInsert.
THEOREM InsertIsLeafInsert == Spec => InsertsEntry
<1>1. IndInv /\ [Next]_vars
        => [InsertTakes \/ InsertRefused
              => Entries(on)' = LeafInsert(Entries(on), NewEntry)]_vars
  BY InsertReturns
<1> QED  BY <1>1, LeafInvariant, PTL DEF Spec, InsertsEntry

\* insert leaves the other page as it is.
LEMMA OthersStay ==
  ASSUME IndInv, InsertTakes \/ InsertRefused, NEW s \in Sides \ {on}
  PROVE  Entries(s)' = Entries(s)
<1>1. cells'[s] = cells[s] /\ current_size'[s] = current_size[s]
  <2>1. CASE InsertRefused
    BY <2>1 DEF InsertRefused, pages
  <2>2. CASE InsertTakes
    <3>1. cells'[s] = cells[s]
      BY <2>2, InsertShifts DEF IndInv
    <3>2. current_size'[s] = current_size[s]
      BY <2>2 DEF IndInv, TypeOK, InsertTakes
    <3> QED  BY <3>1, <3>2
  <2> QED  BY <2>1, <2>2
<1> QED  BY <1>1 DEF Entries, EntryAt, keyAt, valueAt

\* Calls that change neither page.
LEMMA EntriesStay ==
  ASSUME UNCHANGED pages, NEW s
  PROVE  Entries(s)' = Entries(s)
BY DEF pages, Entries, EntryAt, keyAt, valueAt

\* Between the steps of a split, and when nothing happens.
LEMMA NothingChanges ==
  ASSUME Splits, UNCHANGED <<pages, pc, op, on, key, value, i, temp, before>>
  PROVE  Splits'
BY Zenon DEF Splits, Merging, Dealing, Dealt, DealtTo, NewEntry, pages, Entries, EntryAt,
             keyAt, valueAt

\* The page is full or has the key when split begins, which has seen nothing yet.
LEMMA SplitBegins ==
  ASSUME IndInv, Splits, Split
  PROVE  Splits'
<1>1. /\ pc = "refused" /\ pc' = "merge" /\ op' = "split"
      /\ before' = Entries("page") /\ i' = 0 /\ temp' = << >>
      /\ key' = key /\ value' = value /\ UNCHANGED pages
  BY DEF Split
<1>2. key \in Keys /\ value \in Values /\ ~ LeafAccepts(Entries("page"), key)
  BY <1>1 DEF Splits
<1>3. Entries("page")' = Entries("page")
  BY <1>1, EntriesStay
<1>4. SubSeq(before', 1, 0) = << >>
  BY SubSeqEmpty
<1>5. ~ \E n \in 1 .. 0 : key' < before'[n].key
  OBVIOUS
<1>6. temp' = IF \E n \in 1 .. i' : key' < before'[n].key
              THEN Merged(SubSeq(before', 1, i'), NewEntry') ELSE SubSeq(before', 1, i')
  BY <1>1, <1>4, <1>5
<1>7. Merging'
  BY <1>1, <1>2, <1>3, <1>6 DEF Merging
<1> QED  BY <1>1, <1>7 DEF Splits

\* A round of the merge loop.
LEMMA MergeStepMerges ==
  ASSUME IndInv, Splits, MergeStep
  PROVE  Splits'
<1> DEFINE seen == SubSeq(before, 1, i)
           more == SubSeq(before, 1, i + 1)
           next == before[i + 1]
<1>1. /\ pc = "merge" /\ pc' = pc /\ op' = op /\ key' = key /\ value' = value
      /\ before' = before /\ i' = i + 1 /\ UNCHANGED pages
      /\ i < current_size["page"]
      /\ temp' = (IF ~ Inserted /\ key < keyAt("page", i)
                  THEN Append(temp, NewEntry) ELSE temp) \o <<EntryAt("page", i)>>
  BY DEF MergeStep
<1>2. /\ op = "split" /\ before = Entries("page")
      /\ key \in Keys /\ value \in Values /\ ~ LeafAccepts(before, key)
      /\ temp = IF \E n \in 1 .. i : key < before[n].key
                THEN Merged(seen, NewEntry) ELSE seen
  BY <1>1 DEF Splits, Merging
<1>3. /\ TypeOK /\ i \in Nat /\ current_size["page"] \in Nat /\ "page" \in Sides
  BY LeafMaxAssumption DEF IndInv, TypeOK, Sides
<1>4. /\ before \in Seq(Pairs) /\ Len(before) = current_size["page"]
      /\ next = EntryAt("page", i)
  <2>1. i + 1 \in 1 .. current_size["page"] /\ i + 1 - 1 = i
    BY <1>1, <1>3
  <2> QED  BY <1>2, <1>3, <2>1, EntriesTypes
<1>5. i \in 0 .. Len(before) - 1 /\ i + 1 \in 1 .. Len(before) /\ i + 1 - 1 = i
      /\ i \in 0 .. Len(before)
  BY <1>1, <1>3, <1>4
<1>6. NewEntry \in Pairs /\ NewEntry.key = key /\ next.key = keyAt("page", i)
  BY <1>2, <1>4, KeysAssumption, ValuesAssumption DEF NewEntry, Entry, EntryAt, Pairs
<1>7. seen \in Seq(Pairs) /\ Len(seen) = i
  BY <1>4, <1>5, FirstPart
<1> HIDE DEF next, seen, more
<1>8. \A n \in 1 .. i + 1 : n \in 1 .. i \/ n = i + 1
  BY <1>3
<1>9. temp' = IF \E n \in 1 .. i + 1 : key < before[n].key
              THEN Merged(more, NewEntry) ELSE more
  <2>1. CASE \E n \in 1 .. i : key < before[n].key
    <3>1. temp = Merged(seen, NewEntry)
      BY <1>2, <2>1
    <3>2. Len(temp) = i + 1
      BY <1>6, <1>7, <3>1, MergedLength
    <3>3. Inserted
      BY <1>3, <3>2 DEF Inserted
    <3>4. temp' = Merged(seen, NewEntry) \o <<before[i + 1]>>
      BY <1>1, <1>4, <3>1, <3>3 DEF next
    <3>5. Merged(more, NewEntry) = Merged(seen, NewEntry) \o <<before[i + 1]>>
      BY <1>4, <1>5, <1>6, <2>1, MergedBefore DEF more, seen
    <3>6. \E n \in 1 .. i + 1 : key < before[n].key
      BY <1>3, <2>1
    <3> QED  BY <3>4, <3>5, <3>6
  <2>2. CASE ~ \E n \in 1 .. i : key < before[n].key
    <3>1. temp = seen /\ ~ Inserted
      BY <1>2, <1>3, <1>7, <2>2 DEF Inserted
    <3>2. CASE key < before[i + 1].key
      <4>1. temp' = Append(seen, NewEntry) \o <<before[i + 1]>>
        BY <1>1, <1>4, <1>6, <3>1, <3>2 DEF next
      <4>2. Merged(more, NewEntry) = Append(seen, NewEntry) \o <<before[i + 1]>>
        BY <1>4, <1>5, <1>6, <2>2, <3>2, MergedHere DEF more, seen
      <4>3. \E n \in 1 .. i + 1 : key < before[n].key
        BY <1>3, <3>2
      <4> QED  BY <4>1, <4>2, <4>3
    <3>3. CASE ~ (key < before[i + 1].key)
      <4>1. temp' = seen \o <<before[i + 1]>>
        BY <1>1, <1>4, <1>6, <3>1, <3>3 DEF next
      <4>2. 1 \in 1 .. Len(before) /\ i + 1 \in 1 .. Len(before)
        BY <1>5
      <4>3. more = seen \o <<before[i + 1]>>
        BY <1>4, <1>5, <4>2, SubSeqRecursiveSecond DEF more, seen
      <4>4. ~ \E n \in 1 .. i + 1 : key < before[n].key
        BY <1>8, <2>2, <3>3
      <4> QED  BY <4>1, <4>3, <4>4
    <3> QED  BY <3>2, <3>3
  <2> QED  BY <2>1, <2>2
<1>10. NewEntry' = NewEntry
  BY <1>1 DEF NewEntry
<1>11. Entries("page")' = Entries("page")
  BY <1>1, EntriesStay
<1>12. Merging'
  <2>1. temp' = IF \E n \in 1 .. i' : key' < before'[n].key
                THEN Merged(SubSeq(before', 1, i'), NewEntry') ELSE SubSeq(before', 1, i')
    BY <1>1, <1>9, <1>10 DEF more
  <2> QED  BY <1>1, <1>2, <1>11, <2>1 DEF Merging
<1> QED  BY <1>1, <1>2, <1>12 DEF Splits

\* Of nothing dealt yet, both halves are empty.
LEMMA NothingDealt ==
  ASSUME NEW s \in Seq(Pairs)
  PROVE  LET cut == SplitPoint(s)
         IN  /\ Filled(SubSeq(s, 1, IF 0 < cut THEN 0 ELSE cut)) = << >>
             /\ Filled(SubSeq(s, cut + 1, 0)) = << >>
<1> DEFINE cut == SplitPoint(s)
<1>1. cut \in Nat
  BY DEF SplitPoint
<1> HIDE DEF cut
<1>2. (IF 0 < cut THEN 0 ELSE cut) = 0
  BY <1>1
<1>3. SubSeq(s, 1, 0) = << >> /\ SubSeq(s, cut + 1, 0) = << >>
  BY <1>1, SubSeqEmpty
<1> QED  BY <1>2, <1>3, FilledNone DEF cut

\* The loop ends with all entries and the new one, and two empty pages.
LEMMA MergeEnds ==
  ASSUME IndInv, Splits, MergeDone
  PROVE  Splits'
<1> DEFINE seen == SubSeq(before, 1, i)
<1>1. /\ pc = "merge" /\ pc' = "deal" /\ op' = op /\ key' = key /\ value' = value
      /\ before' = before /\ i' = 0 /\ i = current_size["page"]
      /\ temp' = IF Inserted THEN temp ELSE Append(temp, NewEntry)
      /\ current_size' = [s \in Sides |-> 0]
  BY DEF MergeDone
<1>2. /\ op = "split" /\ before = Entries("page")
      /\ key \in Keys /\ value \in Values /\ ~ LeafAccepts(before, key)
      /\ temp = IF \E n \in 1 .. i : key < before[n].key
                THEN Merged(seen, NewEntry) ELSE seen
  BY <1>1 DEF Splits, Merging
<1>3. /\ TypeOK /\ i \in Nat /\ "page" \in Sides /\ "sibling" \in Sides
  BY DEF IndInv, TypeOK, Sides
<1>4. before \in Seq(Pairs) /\ Len(before) = i
  BY <1>1, <1>2, <1>3, EntriesTypes
<1>5. seen = before
  BY <1>4, SubSeqFull
<1>6. NewEntry \in Pairs /\ NewEntry.key = key /\ NewEntry = Entry(key, value)
  BY <1>2, KeysAssumption, ValuesAssumption DEF NewEntry, Entry, Pairs
<1> HIDE DEF seen
<1>7. temp' = Merged(before, NewEntry)
  <2>1. CASE \E n \in 1 .. i : key < before[n].key
    <3>1. temp = Merged(before, NewEntry)
      BY <1>2, <1>5, <2>1
    <3>2. Len(temp) = i + 1
      BY <1>4, <1>6, <3>1, MergedLength
    <3>3. Inserted
      BY <1>3, <3>2 DEF Inserted
    <3> QED  BY <1>1, <3>1, <3>3
  <2>2. CASE ~ \E n \in 1 .. i : key < before[n].key
    <3>1. temp = before /\ ~ Inserted
      BY <1>2, <1>3, <1>4, <1>5, <2>2 DEF Inserted
    <3>2. \A n \in 1 .. Len(before) : ~ (NewEntry.key < before[n].key)
      BY <1>4, <1>6, <2>2
    <3>3. Merged(before, NewEntry) = Append(before, NewEntry)
      BY <1>4, <1>6, <3>2, MergedAtEnd
    <3> QED  BY <1>1, <3>1, <3>3
  <2> QED  BY <2>1, <2>2
<1>8. temp' \in Seq(Pairs)
  BY <1>4, <1>6, <1>7, MergedLength
<1>9. Entries("page")' = << >> /\ Entries("sibling")' = << >>
  <2>1. current_size'["page"] = 0 /\ current_size'["sibling"] = 0
    BY <1>1, <1>3
  <2>2. \A f : f = [n \in 1 .. 0 |-> f[n]] => f = << >>
    OBVIOUS
  <2> QED  BY <2>1, <2>2 DEF Entries
<1>10. Dealing'
  <2>1. \E k \in Keys, v \in Values :
          temp' = Merged(before', Entry(k, v)) /\ ~ LeafAccepts(before', k)
    BY <1>1, <1>2, <1>6, <1>7
  <2>2. Dealt' = 0 /\ pc' # "search"
    BY <1>1 DEF Dealt
  <2>3. /\ Filled(SubSeq(temp', 1, IF 0 < SplitPoint(temp') THEN 0 ELSE SplitPoint(temp'))) = << >>
        /\ Filled(SubSeq(temp', SplitPoint(temp') + 1, 0)) = << >>
    BY <1>8, NothingDealt
  <2> QED  BY <1>9, <2>1, <2>2, <2>3 DEF Dealing
<1> QED  BY <1>1, <1>2, <1>10 DEF Splits

\* The next entry goes to its half.
LEMMA DealBegins ==
  ASSUME IndInv, Splits, DealStep
  PROVE  Splits'
<1> DEFINE e == temp[i + 1]
<1>1. /\ pc = "deal" /\ pc' = "search" /\ op' = op /\ on' = DealtTo(i)
      /\ key' = e.key /\ value' = e.value
      /\ before' = before /\ temp' = temp /\ i' = i + 1 /\ UNCHANGED pages
      /\ i < Len(temp)
  BY DEF DealStep, BeginSearch
<1>2. op = "split" /\ Dealing
  BY <1>1 DEF Splits
<1>3. i \in Nat /\ temp \in Seq(Pairs)
  BY DEF IndInv, TypeOK
<1>4. e \in Pairs
  <2>1. i + 1 \in 1 .. Len(temp)
    BY <1>1, <1>3
  <2> QED  BY <1>3, <2>1, OneOf
<1>5. NewEntry' = e
  BY <1>1, <1>4 DEF NewEntry, Entry, Pairs
<1>6. i' > 0 /\ i' - 1 = i
  BY <1>1, <1>3
<1>7. Dealt' = Dealt
  BY <1>1, <1>6 DEF Dealt
<1>8. (on = DealtTo(i - 1))' /\ (NewEntry = temp[i])'
  <2>1. (on = DealtTo(i - 1))'
    BY <1>1, <1>6 DEF DealtTo
  <2> QED  BY <1>1, <1>5, <2>1
<1>9. Entries("page")' = Entries("page") /\ Entries("sibling")' = Entries("sibling")
  BY <1>1, EntriesStay
<1>10. Dealing'
  <2>1. \E k \in Keys, v \in Values :
          temp' = Merged(before', Entry(k, v)) /\ ~ LeafAccepts(before', k)
    BY <1>1, <1>2 DEF Dealing
  <2>2. Entries("page")' = Filled(SubSeq(temp', 1, IF Dealt' < SplitPoint(temp')
                                                   THEN Dealt' ELSE SplitPoint(temp')))
    BY <1>1, <1>2, <1>7, <1>9 DEF Dealing
  <2>3. Entries("sibling")' = Filled(SubSeq(temp', SplitPoint(temp') + 1, Dealt'))
    BY <1>1, <1>2, <1>7, <1>9 DEF Dealing
  <2> QED  BY <1>1, <1>6, <1>8, <2>1, <2>2, <2>3 DEF Dealing
<1> QED  BY <1>1, <1>2, <1>10 DEF Splits

\* ... and insert adds it there, or refuses it as LeafInsert does.
LEMMA DealInserts ==
  ASSUME IndInv, IndInv', Splits, InsertTakes \/ InsertRefused, op = "split"
  PROVE  Splits'
<1> DEFINE cut == SplitPoint(temp)
           low_end == IF i - 1 < cut THEN i - 1 ELSE cut
           next_end == IF i < cut THEN i ELSE cut
<1>1. /\ pc = "search" /\ pc' = "deal" /\ op' = "split"
      /\ before' = before /\ temp' = temp /\ i' = i /\ on' = on
  BY DEF InsertTakes, InsertRefused, Searched
<1>2. Dealing
  BY <1>1 DEF Splits
<1>3. /\ i > 0 /\ on = DealtTo(i - 1) /\ NewEntry = temp[i]
      /\ Dealt = i - 1 /\ Dealt' = i
  BY <1>1, <1>2 DEF Dealing, Dealt
<1>4. /\ Entries("page") = Filled(SubSeq(temp, 1, low_end))
      /\ Entries("sibling") = Filled(SubSeq(temp, cut + 1, i - 1))
  BY <1>2, <1>3 DEF Dealing
<1>5. /\ temp \in Seq(Pairs) /\ Len(temp) \in Nat /\ i \in Nat /\ i \in 1 .. Len(temp)
      /\ cut \in 0 .. Len(temp)
  <2>1. temp \in Seq(Pairs) /\ i \in Nat /\ i <= Len(temp)
    BY <1>1 DEF IndInv, TypeOK, Merges
  <2> QED  BY <1>3, <2>1 DEF SplitPoint
<1>6. Entries(on)' = LeafInsert(Entries(on), temp[i])
  BY <1>3, InsertReturns
<1> HIDE DEF cut
<1>7. /\ Entries("page")' = Filled(SubSeq(temp, 1, next_end))
      /\ Entries("sibling")' = Filled(SubSeq(temp, cut + 1, i))
  <2>1. CASE i - 1 < cut
    <3>1. on = "page"
      BY <1>3, <2>1 DEF DealtTo, cut
    <3>2. low_end = i - 1 /\ next_end = i
      BY <1>5, <2>1
    <3>3. Entries("page")' = LeafInsert(Filled(SubSeq(temp, 1, i - 1)), temp[i])
      <4>1. Entries(on)' = Entries("page")'
        BY <1>1, <3>1 DEF Entries, EntryAt, keyAt, valueAt
      <4>2. Entries("page")' = LeafInsert(Entries("page"), temp[i])
        BY <1>6, <3>1, <4>1
      <4> QED  BY <1>4, <3>2, <4>2
    <3>4. Filled(SubSeq(temp, 1, i)) = LeafInsert(Filled(SubSeq(temp, 1, i - 1)), temp[i])
      <4>1. 1 \in 1 .. Len(temp)
        BY <1>5
      <4> QED  BY <1>5, <4>1, FilledNext
    <3>5. Entries("sibling")' = Entries("sibling")
      <4>1. "sibling" \in Sides \ {on}
        BY <3>1 DEF Sides
      <4> QED  BY <4>1, OthersStay
    <3>6. SubSeq(temp, cut + 1, i - 1) = << >> /\ SubSeq(temp, cut + 1, i) = << >>
      BY <1>5, <2>1, SubSeqEmpty
    <3> QED  BY <1>4, <3>2, <3>3, <3>4, <3>5, <3>6
  <2>2. CASE ~ (i - 1 < cut)
    <3>1. on = "sibling"
      BY <1>3, <2>2 DEF DealtTo, cut
    <3>2. low_end = cut /\ next_end = cut
      BY <1>5, <2>2
    <3>3. Entries("sibling")' = LeafInsert(Filled(SubSeq(temp, cut + 1, i - 1)), temp[i])
      <4>1. Entries(on)' = Entries("sibling")'
        BY <1>1, <3>1 DEF Entries, EntryAt, keyAt, valueAt
      <4>2. Entries("sibling")' = LeafInsert(Entries("sibling"), temp[i])
        BY <1>6, <3>1, <4>1
      <4> QED  BY <1>4, <4>2
    <3>4. Filled(SubSeq(temp, cut + 1, i))
            = LeafInsert(Filled(SubSeq(temp, cut + 1, i - 1)), temp[i])
      <4>1. cut + 1 \in 1 .. Len(temp) /\ i \in cut + 1 .. Len(temp)
        BY <1>5, <2>2
      <4> QED  BY <1>5, <4>1, FilledNext
    <3>5. Entries("page")' = Entries("page")
      <4>1. "page" \in Sides \ {on}
        BY <3>1 DEF Sides
      <4> QED  BY <4>1, OthersStay
    <3> QED  BY <1>4, <3>2, <3>3, <3>4, <3>5
  <2> QED  BY <2>1, <2>2
<1>8. Dealing'
  <2>1. \E k \in Keys, v \in Values :
          temp' = Merged(before', Entry(k, v)) /\ ~ LeafAccepts(before', k)
    BY <1>1, <1>2 DEF Dealing
  <2>2. Entries("page")' = Filled(SubSeq(temp', 1, IF Dealt' < SplitPoint(temp')
                                                   THEN Dealt' ELSE SplitPoint(temp')))
    BY <1>1, <1>3, <1>7 DEF cut
  <2>3. Entries("sibling")' = Filled(SubSeq(temp', SplitPoint(temp') + 1, Dealt'))
    BY <1>1, <1>3, <1>7 DEF cut
  <2> QED  BY <1>1, <2>1, <2>2, <2>3 DEF Dealing
<1> QED  BY <1>1, <1>8 DEF Splits

\* insert for the tree.
LEMMA InsertForTree ==
  ASSUME IndInv, Splits, InsertTakes \/ InsertRefused, op # "split"
  PROVE  Splits'
<1>1. /\ pc = "search" /\ op = "insert" /\ op' = "insert" /\ on = "page"
      /\ key \in Keys /\ value \in Values /\ key' = key /\ value' = value
  BY DEF InsertTakes, InsertRefused, Searched, Splits
<1>2. CASE InsertTakes
  <2>1. pc' = "idle"
    BY <1>2 DEF InsertTakes
  <2> QED  BY <1>1, <2>1 DEF Splits
<1>3. CASE InsertRefused
  <2>1. pc' = "refused"
    BY <1>3 DEF InsertRefused
  <2>2. Entries("page")' = Entries("page")
    BY <1>3, EntriesStay DEF InsertRefused
  <2>3. ~ LeafAccepts(Entries("page"), key)
    <3>1. TypeOK /\ Narrows /\ Searched /\ Refused /\ LeafMax \in Nat
      BY <1>3, LeafMaxAssumption DEF IndInv, InsertRefused
    <3>2. Len(Entries("page")) = current_size["page"] /\ current_size["page"] \in Nat
      BY <1>1, <3>1, EntriesTypes DEF TypeOK
    <3> QED  BY <1>1, <3>1, <3>2, HasKeyIsLeafHas DEF LeafAccepts, Refused, IsFull
  <2> QED  BY <1>1, <2>1, <2>2, <2>3 DEF Splits
<1> QED  BY <1>2, <1>3

LEMMA SplitInvKept ==
  SplitInv /\ [Next]_vars => SplitInv'
<1> SUFFICES ASSUME SplitInv, [Next]_vars  PROVE SplitInv'
  OBVIOUS
<1>0. IndInv /\ Splits /\ IndInv'
  BY NextKeepsInv DEF SplitInv
<1>1. CASE Calls
  <2>1. PICK name \in {"lookup", "insert"}, k \in Keys, v \in Nat :
          Call(name, k, v) /\ (name = "insert" => v \in Values)
    BY <1>1, ValuesAssumption DEF Calls
  <2>2. /\ pc' = "search" /\ op' = name /\ on' = "page" /\ key' = k /\ value' = v
    BY <2>1 DEF Call, BeginSearch
  <2>3. Splits'
    BY <2>1, <2>2 DEF Splits
  <2> QED  BY <1>0, <2>3 DEF SplitInv
<1>2. CASE SearchStep
  <2>1. Splits'
    BY <1>0, <1>2, NothingChanges DEF SearchStep
  <2> QED  BY <1>0, <2>1 DEF SplitInv
<1>3. CASE LookupReturns
  <2>1. pc' = "idle" /\ op' = "lookup"
    BY <1>3 DEF LookupReturns
  <2>2. Splits'
    BY <2>1 DEF Splits
  <2> QED  BY <1>0, <2>2 DEF SplitInv
<1>4. CASE InsertTakes \/ InsertRefused
  <2>1. Splits'
    BY <1>0, <1>4, DealInserts, InsertForTree
  <2> QED  BY <1>0, <2>1 DEF SplitInv
<1>5. CASE Split
  BY <1>0, <1>5, SplitBegins DEF SplitInv
<1>6. CASE MergeStep
  BY <1>0, <1>6, MergeStepMerges DEF SplitInv
<1>7. CASE MergeDone
  BY <1>0, <1>7, MergeEnds DEF SplitInv
<1>8. CASE DealStep
  BY <1>0, <1>8, DealBegins DEF SplitInv
<1>9. CASE \E side \in Sides : SplitReturns(side)
  <2>1. pc' = "idle" /\ op' = "insert"
    BY <1>9 DEF SplitReturns
  <2>2. Splits'
    BY <2>1 DEF Splits
  <2> QED  BY <1>0, <2>2 DEF SplitInv
<1>10. CASE UNCHANGED vars
  <2>1. Splits'
    BY <1>0, <1>10, NothingChanges DEF vars, search
  <2> QED  BY <1>0, <2>1 DEF SplitInv
<1> QED  BY <1>1, <1>2, <1>3, <1>4, <1>5, <1>6, <1>7, <1>8, <1>9, <1>10 DEF Next, Work

LEMMA SplitInvHolds == Spec => []SplitInv
<1>1. Init => SplitInv
  BY InitGivesInv DEF Init, SplitInv, Splits
<1> QED  BY <1>1, SplitInvKept, PTL DEF Spec

\* At every point of a split, in the middle of its loops too, the temporary
\* arrays and the two pages hold what the expressions of BPlusTreePage say.
THEOREM LeafSplits == Spec => []Splits
<1>1. SplitInv => Splits
  BY DEF SplitInv
<1> QED  BY <1>1, SplitInvHolds, PTL

-----------------------------------------------------------------------------
(***************************************************************************)
(* The refinement.  The table's operators are those of BPlusTreePage, seen *)
(* through the instance.                                                   *)
(***************************************************************************)
LEMMA SameLookup == \A s, k : Table!LeafLookup(s, k) = LeafLookup(s, k)
BY DEF Table!LeafLookup, LeafLookup, Table!FirstPlace, FirstPlace, Table!Min, Min

LEMMA SameInsertAt == \A s, n, e : Table!InsertAt(s, n, e) = InsertAt(s, n, e)
BY DEF Table!InsertAt, InsertAt

LEMMA SameAccepts == \A s, k : Table!LeafAccepts(s, k) <=> LeafAccepts(s, k)
BY SameLookup DEF Table!LeafAccepts, LeafAccepts, Table!LeafHas, LeafHas

LEMMA SameInsert == \A s, e : Table!LeafInsert(s, e) = LeafInsert(s, e)
BY SameLookup, SameInsertAt, SameAccepts DEF Table!LeafInsert, LeafInsert

LEMMA SameEntry == \A k, v : Table!Entry(k, v) = Entry(k, v)
BY DEF Table!Entry, Entry

LEMMA SameMerged == \A s, e : Table!Merged(s, e) = Merged(s, e)
BY SameInsertAt
   DEF Table!Merged, Merged, Table!MergePlace, MergePlace, Table!FirstPlace,
       FirstPlace, Table!Min, Min

LEMMA SameFilled == \A s : Table!Filled(s) = Filled(s)
BY Zenon
   DEF Table!Filled, Filled, Table!FoldLeft, FoldLeft, Table!MapThenFoldSet,
       MapThenFoldSet, Table!LeafInsert, LeafInsert, Table!LeafAccepts,
       LeafAccepts, Table!LeafHas, LeafHas, Table!LeafLookup, LeafLookup,
       Table!FirstPlace, FirstPlace, Table!Min, Min, Table!Max, Max,
       Table!InsertAt, InsertAt

LEMMA SameHalves ==
  \A s : Table!LeftHalf(s) = LeftHalf(s) /\ Table!RightHalf(s) = RightHalf(s)
BY SameFilled
   DEF Table!LeftHalf, LeftHalf, Table!RightHalf, RightHalf, Table!SplitPoint, SplitPoint

\* What the table sees of a leaf.
Seen == IF op = "split" THEN before ELSE Entries("page")

\* insert is Take.
LEMMA InsertTakesToTable ==
  ASSUME SplitInv, InsertTakes, op # "split"
  PROVE  \E k \in Keys, v \in Values : Seen' = LeafInsert(Seen, Entry(k, v))
<1>1. IndInv /\ Splits
  BY DEF SplitInv
<1>2. /\ op = "insert" /\ op' = "insert" /\ on = "page" /\ on' = "page"
      /\ key \in Keys /\ value \in Values
  BY <1>1 DEF InsertTakes, Searched, Splits
<1>3. Entries(on)' = LeafInsert(Entries(on), Entry(key, value))
  BY <1>1, InsertReturns DEF NewEntry
<1>4. Entries(on)' = Entries("page")'
  BY <1>2 DEF Entries, EntryAt, keyAt, valueAt
<1> QED  BY <1>2, <1>3, <1>4 DEF Seen

\* The return of split is Halve.
LEMMA SplitReturnsToTable ==
  ASSUME SplitInv, NEW side \in Sides, SplitReturns(side)
  PROVE  \E k \in Keys, v \in Values :
           LET all == Merged(Seen, Entry(k, v))
           IN  /\ ~ LeafAccepts(Seen, k)
               /\ Seen' \in {LeftHalf(all), RightHalf(all)}
<1>1. TypeOK /\ Splits
  BY DEF SplitInv, IndInv
<1>2. /\ pc = "deal" /\ i = Len(temp) /\ op' = "insert"
      /\ cells' = [cells EXCEPT !["page"] = cells[side], !["sibling"] = ZeroCells]
      /\ current_size' = [current_size EXCEPT !["page"] = current_size[side],
                                              !["sibling"] = 0]
  BY DEF SplitReturns
<1>3. op = "split" /\ Dealing /\ Dealt = Len(temp)
  BY <1>1, <1>2 DEF Splits, Dealt
<1>4. PICK k \in Keys, v \in Values :
        temp = Merged(before, Entry(k, v)) /\ ~ LeafAccepts(before, k)
  BY <1>3 DEF Dealing
<1>5. Entries("page") = LeftHalf(temp) /\ Entries("sibling") = RightHalf(temp)
  <2> DEFINE cut == SplitPoint(temp)
  <2>1. temp \in Seq(Pairs) /\ Len(temp) \in Nat
    BY <1>1 DEF TypeOK
  <2>2. (IF Len(temp) < cut THEN Len(temp) ELSE cut) = cut
    BY <2>1 DEF SplitPoint
  <2> HIDE DEF cut
  <2> QED  BY <1>3, <2>2 DEF Dealing, LeftHalf, RightHalf, cut
<1>6. Entries("page")' = Entries(side)
  <2>1. cells'["page"] = cells[side] /\ current_size'["page"] = current_size[side]
    BY <1>1, <1>2 DEF TypeOK, Sides
  <2> QED  BY <2>1 DEF Entries, EntryAt, keyAt, valueAt
<1>7. side = "page" \/ side = "sibling"
  BY DEF Sides
<1>8. Seen = before /\ Seen' = Entries("page")'
  BY <1>2, <1>3 DEF Seen
<1> QED  BY <1>4, <1>5, <1>6, <1>7, <1>8

\* All other steps leave what the table sees as it is.
LEMMA OthersStutter ==
  ASSUME SplitInv,
         \/ Calls \/ SearchStep \/ LookupReturns \/ InsertRefused \/ Split
         \/ MergeStep \/ MergeDone \/ DealStep \/ UNCHANGED vars
         \/ InsertTakes /\ op = "split"
  PROVE  Seen' = Seen
<1>1. Splits
  BY DEF SplitInv
<1>2. UNCHANGED pages => Entries("page")' = Entries("page")
  BY EntriesStay
<1>3. CASE Calls
  BY <1>1, <1>2, <1>3 DEF Calls, Call, BeginSearch, Seen, Splits
<1>4. CASE SearchStep
  BY <1>2, <1>4 DEF SearchStep, Seen
<1>5. CASE LookupReturns
  BY <1>2, <1>5 DEF LookupReturns, Seen
<1>6. CASE InsertRefused
  BY <1>2, <1>6 DEF InsertRefused, Seen
<1>7. CASE Split
  BY <1>1, <1>2, <1>7 DEF Split, Seen, Splits
<1>8. CASE MergeStep
  BY <1>2, <1>8 DEF MergeStep, Seen
<1>9. CASE MergeDone
  BY <1>1, <1>9 DEF MergeDone, Seen, Splits, Merging
<1>10. CASE DealStep
  BY <1>2, <1>10 DEF DealStep, BeginSearch, Seen
<1>11. CASE UNCHANGED vars
  BY <1>2, <1>11 DEF vars, Seen
<1>12. CASE InsertTakes /\ op = "split"
  BY <1>12 DEF InsertTakes, Seen
<1> QED  BY <1>3, <1>4, <1>5, <1>6, <1>7, <1>8, <1>9, <1>10, <1>11, <1>12

\* Arrays, memmoves and loops are a leaf: every insert is one Take of the table
\* and every split one Halve, for leaves of every size and any keys and values.
THEOREM LeafIsATable == Spec => ImplementsLeafTable
<1>1. Init => Table!TableInit
  <2> SUFFICES ASSUME Init  PROVE Seen = << >>
    BY DEF Table!TableInit, Seen
  <2>1. op = "lookup" /\ current_size["page"] = 0
    BY DEF Init, Sides
  <2>2. \A f : f = [n \in 1 .. 0 |-> f[n]] => f = << >>
    OBVIOUS
  <2> QED  BY <2>1, <2>2 DEF Seen, Entries
<1>2. SplitInv /\ [Next]_vars => [Table!TableNext]_(Seen)
  <2> SUFFICES ASSUME SplitInv, [Next]_vars, Seen' # Seen
               PROVE  Table!TableNext
    OBVIOUS
  <2>1. CASE InsertTakes /\ op # "split"
    <3>1. PICK k \in Keys, v \in Values : Seen' = LeafInsert(Seen, Entry(k, v))
      BY <2>1, InsertTakesToTable
    <3>2. Table!Take(Table!Entry(k, v))
      BY <3>1, SameInsert, SameEntry DEF Table!Take, Seen
    <3> QED  BY <3>2 DEF Table!TableNext
  <2>2. ASSUME NEW side \in Sides, SplitReturns(side)  PROVE Table!TableNext
    <3>1. PICK k \in Keys, v \in Values :
             LET all == Merged(Seen, Entry(k, v))
             IN  /\ ~ LeafAccepts(Seen, k)
                 /\ Seen' \in {LeftHalf(all), RightHalf(all)}
      BY <2>2, SplitReturnsToTable
    <3>2. Entry(k, v).key = k
      BY DEF Entry
    <3>3. Table!Halve(Table!Entry(k, v))
      BY <3>1, <3>2, SameAccepts, SameEntry, SameMerged, SameHalves DEF Table!Halve, Seen
    <3> QED  BY <3>3 DEF Table!TableNext
  <2> QED  BY <2>1, <2>2, OthersStutter DEF Next, Work
<1> QED  BY <1>1, <1>2, SplitInvHolds, PTL
         DEF Spec, ImplementsLeafTable, Table!TableSpec, Seen
=============================================================================
