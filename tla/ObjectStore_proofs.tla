------------------------- MODULE ObjectStore_proofs --------------------------
(***************************************************************************)
(* Records and directory stay intact on a page of any size that 16 bits    *)
(* can address, for records of any sizes; the free space is exact; and the *)
(* object that was put there comes back.                                   *)
(***************************************************************************)
EXTENDS ObjectStore, IntervalInduction

\* The number that 16-bit arithmetic wraps at is only used through these two
\* facts: it is a number, and nothing wraps while it stays in range.
LEMMA WordType == Word \in Nat
BY SMT DEF Word

LEMMA NoWrap ==
  ASSUME NEW x \in Int, 0 <= x, x < Word
  PROVE  x % Word = x
BY SMT DEF Word

\* On a page laid out as Layout says, getFreeSpace is the gap between
\* directory and records, and a record that fits is put right below the last.
LEMMA Gap ==
  ASSUME TypeOK, Layout
  PROVE  /\ GetFreeSpace = free_ptr - (HeaderSize + Len(slots) * SlotSize)
         /\ \A size \in 0 .. Word - 1 : Fits(size) =>
               /\ Place(size) = free_ptr - size /\ size > 0
               /\ HeaderSize + (Len(slots) + 1) * SlotSize <= free_ptr - size
<1>0. Word \in Nat /\ PageSize \in 12 .. Word - 1
  BY PageSizeAssumption, WordType DEF HeaderSize
<1>1. /\ Len(slots) \in Nat /\ free_ptr \in Nat /\ free_ptr <= PageSize
      /\ 12 + Len(slots) * 4 <= free_ptr
  BY <1>0 DEF TypeOK, Layout, HeaderSize, SlotSize
<1> DEFINE e == 12 + Len(slots) * 4
<1>2. e \in 0 .. Word - 1 /\ free_ptr - e \in 0 .. Word - 1
  BY <1>0, <1>1
<1>3. GetFreeSpace = free_ptr - e
  <2>1. e % Word = e /\ (free_ptr - e) % Word = free_ptr - e
    BY <1>0, <1>2, NoWrap
  <2> QED  BY <2>1, Zenon DEF GetFreeSpace, HeaderSize, SlotSize
<1>4. ASSUME NEW size \in 0 .. Word - 1, Fits(size)
      PROVE  /\ Place(size) = free_ptr - size /\ size > 0
             /\ 12 + (Len(slots) + 1) * 4 <= free_ptr - size
  <2>1. size # 0 /\ free_ptr - e >= size + 4 /\ size \in 0 .. Word - 1
    BY <1>3, <1>4 DEF Fits, SlotSize
  <2>2. free_ptr - size \in 0 .. Word - 1
    BY <1>0, <1>1, <1>2, <2>1
  <2>3. Place(size) = free_ptr - size
    BY <1>0, <2>2, NoWrap DEF Place
  <2> QED  BY <1>1, <2>1, <2>3
<1> QED  BY <1>3, <1>4 DEF HeaderSize, SlotSize

\* init.
LEMMA InitInv == Init => IndInv
BY PageSizeAssumption, WordType
   DEF Init, IndInv, TypeOK, Layout, RecordsIntact, DirectoryIntact,
       HeaderSize, SlotSize, OfNobody

\* insertRecord of a record that fits.
LEMMA InsertKeepsInv ==
  ASSUME IndInv, NEW size \in 0 .. Word - 1, InsertRecord(size)
  PROVE  IndInv'
<1> DEFINE n == Len(slots) + 1
           slot == [offset |-> Place(size), size |-> size]
<1>0. /\ Word \in Nat /\ PageSize \in 12 .. Word - 1 /\ size \in 0 .. Word - 1
      /\ TypeOK /\ Layout /\ RecordsIntact /\ DirectoryIntact
  BY PageSizeAssumption, WordType DEF IndInv, HeaderSize
<1>1. /\ Place(size) = free_ptr - size /\ size > 0
      /\ 12 + n * 4 <= free_ptr - size
  <2>1. Fits(size) /\ size \in 0 .. Word - 1
    BY <1>0 DEF InsertRecord
  <2> QED  BY <1>0, <2>1, Gap DEF HeaderSize, SlotSize
<1>2. /\ free_ptr \in Nat /\ free_ptr <= PageSize
      /\ Len(slots) \in Nat /\ n \in Nat /\ n > 0
      /\ slots \in Seq([offset : 0 .. Word - 1, size : 0 .. Word - 1])
      /\ bytes \in [Bytes -> Int]
  BY <1>0 DEF TypeOK, Layout
<1>3. slot \in [offset : 0 .. Word - 1, size : 0 .. Word - 1]
  BY <1>0, <1>1, <1>2
<1>4. /\ free_ptr' = free_ptr - size
      /\ slots' = Append(slots, slot)
  BY <1>1 DEF InsertRecord
<1>5. /\ slots' \in Seq([offset : 0 .. Word - 1, size : 0 .. Word - 1])
      /\ Len(slots') = n /\ DOMAIN slots' = 1 .. n /\ slots'[n] = slot
      /\ \A i \in 1 .. n - 1 : slots'[i] = slots[i] /\ i \in DOMAIN slots
  BY <1>2, <1>3, <1>4
<1>6. /\ slot.offset = free_ptr - size /\ slot.size = size
  BY <1>1
<1> HIDE DEF slot
<1>7. /\ bytes' \in [Bytes -> Int]
      /\ \A b \in Bytes :
           /\ b \in SlotBytes(n) => bytes'[b] = OfSlot(n)
           /\ b \notin SlotBytes(n) /\ b \in RecordBytes(slot) =>
                bytes'[b] = OfRecord(n)
           /\ b \notin SlotBytes(n) /\ b \notin RecordBytes(slot) =>
                bytes'[b] = bytes[b]
  <2>1. bytes' = [b \in Bytes |-> IF b \in SlotBytes(n) THEN OfSlot(n)
                                 ELSE IF b \in RecordBytes(slot) THEN OfRecord(n)
                                 ELSE bytes[b]]
    BY DEF InsertRecord, slot
  <2>2. OfSlot(n) \in Int /\ OfRecord(n) \in Int
    BY <1>2 DEF OfSlot, OfRecord
  <2> QED  BY <1>2, <2>1, <2>2
<1>8. \A i \in 1 .. n - 1 : free_ptr <= slots[i].offset
                            /\ slots[i].offset + slots[i].size <= PageSize
                            /\ slots[i].offset \in Nat /\ slots[i].size \in Nat
  <2> SUFFICES ASSUME NEW i \in 1 .. n - 1
               PROVE  /\ free_ptr <= slots[i].offset
                      /\ slots[i].offset + slots[i].size <= PageSize
                      /\ slots[i].offset \in Nat /\ slots[i].size \in Nat
    OBVIOUS
  <2>1. i \in DOMAIN slots
    BY <1>5
  <2> DEFINE Slots == [offset : 0 .. Word - 1, size : 0 .. Word - 1]
  <2>2. slots[i] \in Slots
    <3>1. slots \in Seq(Slots)
      BY <1>2
    <3> HIDE DEF Slots
    <3> QED  BY <2>1, <3>1
  <2>3. /\ free_ptr <= slots[i].offset
        /\ slots[i].offset + slots[i].size <= PageSize
    BY <1>0, <2>1, Zenon DEF Layout
  <2>4. slots[i].offset \in Nat /\ slots[i].size \in Nat
    BY <1>0, <2>2
  <2> QED  BY <2>3, <2>4
<1>a. TypeOK'
  BY <1>0, <1>1, <1>2, <1>4, <1>5, <1>7 DEF TypeOK
<1>b. Layout'
  <2>1. /\ 12 + Len(slots') * 4 <= free_ptr' /\ free_ptr' <= PageSize
    BY <1>0, <1>1, <1>2, <1>4, <1>5
  <2>2. ASSUME NEW i \in 1 .. n
        PROVE  /\ free_ptr' <= slots'[i].offset
               /\ slots'[i].offset + slots'[i].size <= PageSize
    <3>1. CASE i = n
      BY <1>0, <1>1, <1>2, <1>4, <1>5, <1>6, <3>1
    <3>2. CASE i # n
      <4>1. i \in 1 .. n - 1
        BY <1>2, <3>2
      <4> QED  BY <1>0, <1>2, <1>4, <1>5, <1>8, <4>1
    <3> QED  BY <3>1, <3>2
  <2> QED  BY <1>5, <2>1, <2>2 DEF Layout, HeaderSize, SlotSize
<1>c. RecordsIntact'
  <2>1. ASSUME NEW i \in 1 .. n, NEW b \in RecordBytes(slots'[i])
        PROVE  b \in Bytes /\ bytes'[b] = OfRecord(i)
    <3>1. CASE i = n
      <4>1. b \in RecordBytes(slot)
        BY <1>5, <2>1, <3>1
      <4>2. b \in free_ptr - size .. free_ptr - 1
        BY <1>0, <1>2, <1>6, <4>1 DEF RecordBytes
      <4>3. b \in Bytes /\ b \notin SlotBytes(n)
        BY <1>0, <1>1, <1>2, <4>2 DEF Bytes, SlotBytes, HeaderSize, SlotSize
      <4> QED  BY <1>7, <3>1, <4>1, <4>3
    <3>2. CASE i # n
      <4>0. i \in 1 .. n - 1
        BY <1>2, <3>2
      <4>1. i \in 1 .. n - 1 /\ slots'[i] = slots[i]
        BY <1>5, <4>0, Zenon
      <4>2. b \in RecordBytes(slots[i]) /\ i \in DOMAIN slots
        BY <1>5, <4>1
      <4>3. b \in Bytes /\ bytes[b] = OfRecord(i)
        BY <1>0, <4>2 DEF RecordsIntact
      <4>4. b \in Int /\ free_ptr <= b
        BY <1>2, <1>8, <4>1, <4>2 DEF RecordBytes
      <4>5. b \notin SlotBytes(n) /\ b \notin RecordBytes(slot)
        BY <1>0, <1>1, <1>2, <1>6, <4>4
           DEF SlotBytes, RecordBytes, HeaderSize, SlotSize
      <4> QED  BY <1>7, <4>3, <4>5
    <3> QED  BY <3>1, <3>2
  <2> QED  BY <1>5, <2>1 DEF RecordsIntact
<1>d. DirectoryIntact'
  <2>1. ASSUME NEW i \in 1 .. n, NEW b \in SlotBytes(i)
        PROVE  b \in Bytes /\ bytes'[b] = OfSlot(i)
    <3>1. b \in 12 + (i - 1) * 4 .. 12 + i * 4 - 1 /\ i \in Nat
      BY <1>2 DEF SlotBytes, HeaderSize, SlotSize
    <3>2. b < 12 + n * 4 /\ b >= 0
      BY <1>2, <3>1
    <3>3. b \in Bytes /\ b \notin RecordBytes(slot)
      BY <1>0, <1>1, <1>2, <1>6, <3>1, <3>2 DEF Bytes, RecordBytes
    <3>4. CASE i = n
      BY <1>7, <3>3, <3>4
    <3>5. CASE i # n
      <4>0. i \in 1 .. n - 1 /\ b < 12 + (n - 1) * 4
        BY <1>2, <3>1, <3>5
      <4>1. b \notin SlotBytes(n) /\ i \in DOMAIN slots
        BY <1>2, <1>5, <3>1, <4>0 DEF SlotBytes, HeaderSize, SlotSize
      <4>2. bytes[b] = OfSlot(i)
        BY <1>0, <4>1 DEF DirectoryIntact
      <4> QED  BY <1>7, <3>3, <4>1, <4>2
    <3> QED  BY <3>4, <3>5
  <2> QED  BY <1>5, <2>1 DEF DirectoryIntact
<1> QED  BY <1>a, <1>b, <1>c, <1>d DEF IndInv

\* So do the other calls.
LEMMA StepKeepsInv ==
  ASSUME IndInv, [Next]_vars
  PROVE  IndInv'
<1>1. ASSUME NEW size \in Sizes, InsertRecord(size)  PROVE  IndInv'
  BY <1>1, SizesAssumption, InsertKeepsInv
<1>2. CASE UNCHANGED vars
  BY <1>2 DEF vars, IndInv, TypeOK, Layout, RecordsIntact, DirectoryIntact
<1> QED  BY <1>1, <1>2 DEF Next, RefuseRecord

\* The invariant holds in every state.
THEOREM PageInvariant == Spec => []IndInv
<1>1. IndInv /\ [Next]_vars => IndInv'
  BY StepKeepsInv
<1> QED  BY <1>1, InitInv, PTL DEF Spec

\* No record of a page is ever overwritten, by another record or by the
\* directory, and none reaches out of the page.
THEOREM RecordsStayIntact == Spec => []RecordsIntact
<1>1. IndInv => RecordsIntact
  BY DEF IndInv
<1> QED  BY <1>1, PageInvariant, PTL

\* The directory, too, is where insertRecord wrote it: no record grows down
\* into it, and no entry into another.
THEOREM DirectoryStaysIntact == Spec => []DirectoryIntact
<1>1. IndInv => DirectoryIntact
  BY DEF IndInv
<1> QED  BY <1>1, PageInvariant, PTL

-----------------------------------------------------------------------------
(***************************************************************************)
(* The sum of what the records take.  The fold is a function on the sets   *)
(* of slots; that there is one is shown first.                             *)
(***************************************************************************)
Room(s) == FoldLeft(LAMBDA room, sl : room - SlotSize - sl.size,
                    PageSize - HeaderSize, s)

IsFold(f, s, n) ==
  f = [t \in SUBSET (1 .. n) |->
         IF t = {} THEN PageSize - HeaderSize
         ELSE f[t \ {Max(t)}] - SlotSize - s[Max(t)].size]

LEMMA FoldExists ==
  ASSUME NEW s, NEW N \in Nat
  PROVE  \E f : IsFold(f, s, N)
<1> DEFINE good == {n \in 0 .. N : \E f : IsFold(f, s, n)}
           base == PageSize - HeaderSize
           Take(room, m) == room - SlotSize - s[m].size
<1>1. 0 \in good
  <2>1. SUBSET (1 .. 0) = {{}}
    OBVIOUS
  <2>2. IsFold([t \in SUBSET (1 .. 0) |-> base], s, 0)
    BY <2>1 DEF IsFold
  <2> QED  BY <2>2
<1>2. ASSUME NEW n \in 0 .. N - 1, n \in good  PROVE n + 1 \in good
  <2>1. PICK f : IsFold(f, s, n)
    BY <1>2
  <2> DEFINE g == [t \in SUBSET (1 .. n + 1) |->
                    IF n + 1 \in t THEN Take(f[t \ {n + 1}], n + 1) ELSE f[t]]
  <2>2. ASSUME NEW t \in SUBSET (1 .. n + 1), n + 1 \in t
        PROVE  g[t] = Take(g[t \ {Max(t)}], Max(t))
    <3>1. Max(t) = n + 1
      BY <2>2, MaxIs
    <3>2. t \ {n + 1} \in SUBSET (1 .. n + 1) /\ n + 1 \notin t \ {n + 1}
      OBVIOUS
    <3>3. g[t \ {n + 1}] = f[t \ {n + 1}]
      BY <3>2
    <3> QED  BY <2>2, <3>1, <3>3
  <2>3. ASSUME NEW t \in SUBSET (1 .. n + 1), n + 1 \notin t, t # {}
        PROVE  g[t] = Take(g[t \ {Max(t)}], Max(t))
    <3>1. t \in SUBSET (1 .. n) /\ t \ {Max(t)} \in SUBSET (1 .. n)
      <4>1. \A m \in t : m \in 1 .. n
        BY <2>3
      <4> QED  BY <4>1
    <3>2. t \ {Max(t)} \in SUBSET (1 .. n + 1) /\ n + 1 \notin t \ {Max(t)}
      BY <2>3
    <3>3. g[t \ {Max(t)}] = f[t \ {Max(t)}] /\ g[t] = f[t]
      BY <2>3, <3>2
    <3>4. f[t] = Take(f[t \ {Max(t)}], Max(t))
      BY <2>1, <2>3, <3>1 DEF IsFold
    <3> QED  BY <3>3, <3>4
  <2>4. g[{}] = base
    <3>1. {} \in SUBSET (1 .. n) /\ {} \in SUBSET (1 .. n + 1) /\ n + 1 \notin {}
      OBVIOUS
    <3>2. f[{}] = base
      BY <2>1, <3>1 DEF IsFold
    <3> QED  BY <3>1, <3>2
  <2>5. g = [t \in SUBSET (1 .. n + 1) |-> g[t]]
    OBVIOUS
  <2> HIDE DEF g
  <2>6. \A t \in SUBSET (1 .. n + 1) :
          g[t] = IF t = {} THEN base ELSE Take(g[t \ {Max(t)}], Max(t))
    BY <2>2, <2>3, <2>4
  <2>7. IsFold(g, s, n + 1)
    BY <2>5, <2>6 DEF IsFold
  <2> QED  BY <2>7
<1> HIDE DEF good
<1>3. good = 0 .. N
  <2>1. good \in SUBSET (0 .. N)
    BY DEF good
  <2> QED  BY <1>1, <1>2, <2>1, Induction
<1>4. N \in good
  BY <1>3
<1> QED  BY <1>4 DEF good

\* The sums in between: room[n] is what the first n records leave.
IsRoom(room, s) ==
  /\ room[0] = PageSize - HeaderSize
  /\ \A n \in 1 .. Len(s) : room[n] = room[n - 1] - SlotSize - s[n].size

LEMMA RoomSteps ==
  ASSUME NEW T, NEW s \in Seq(T)
  PROVE  \E room : IsRoom(room, s) /\ Room(s) = room[Len(s)]
<1> DEFINE f    == CHOOSE f : IsFold(f, s, Len(s))
           room == [n \in 0 .. Len(s) |-> f[1 .. n]]
<1>1. Len(s) \in Nat /\ DOMAIN s = 1 .. Len(s)
  OBVIOUS
<1>2. IsFold(f, s, Len(s))
  BY <1>1, FoldExists
<1>3. Room(s) = f[1 .. Len(s)]
  BY <1>1 DEF Room, FoldLeft, MapThenFoldSet, IsFold
<1> HIDE DEF f
<1>4. room[0] = PageSize - HeaderSize
  <2>1. 1 .. 0 = {} /\ {} \in SUBSET (1 .. Len(s))
    OBVIOUS
  <2>2. f[{}] = PageSize - HeaderSize
    BY <1>2, <2>1 DEF IsFold
  <2> QED  BY <1>1, <2>1, <2>2
<1>5. ASSUME NEW n \in 1 .. Len(s)
      PROVE  room[n] = room[n - 1] - SlotSize - s[n].size
  <2>1. n \in Nat \ {0} /\ 1 .. n \in SUBSET (1 .. Len(s))
    BY <1>1
  <2>2. Max(1 .. n) = n
    BY <2>1, LastOf
  <2>3. (1 .. n) \ {n} = 1 .. n - 1 /\ 1 .. n # {}
    BY <2>1, LastOf
  <2>4. f[1 .. n] = f[1 .. n - 1] - SlotSize - s[n].size
    BY <1>2, <2>1, <2>2, <2>3 DEF IsFold
  <2> QED  BY <1>1, <2>4
<1>6. room[Len(s)] = f[1 .. Len(s)]
  BY <1>1
<1> QED  BY <1>3, <1>4, <1>5, <1>6 DEF IsRoom

LEMMA RoomOfNone == Room(<< >>) = PageSize - HeaderSize
<1>1. << >> \in Seq(Int) /\ Len(<< >>) = 0
  OBVIOUS
<1>2. PICK room : IsRoom(room, << >>) /\ Room(<< >>) = room[Len(<< >>)]
  BY <1>1, RoomSteps
<1> QED  BY <1>1, <1>2 DEF IsRoom

\* One more record takes its size and a slot.
LEMMA RoomAfter ==
  ASSUME NEW T, NEW s \in Seq(T), NEW sl \in T
  PROVE  Room(Append(s, sl)) = Room(s) - SlotSize - sl.size
<1> DEFINE new == Append(s, sl)
           n   == Len(s)
<1>1. /\ n \in Nat /\ new \in Seq(T) /\ Len(new) = n + 1
      /\ \A i \in 1 .. n : new[i] = s[i]
      /\ new[n + 1] = sl
  OBVIOUS
<1> HIDE DEF new
<1>2. PICK a : IsRoom(a, s) /\ Room(s) = a[n]
  BY RoomSteps
<1>3. PICK b : IsRoom(b, new) /\ Room(new) = b[n + 1]
  BY <1>1, RoomSteps
<1> DEFINE good == {i \in 0 .. n : a[i] = b[i]}
<1>4. 0 \in good
  BY <1>1, <1>2, <1>3 DEF IsRoom
<1>5. ASSUME NEW i \in 0 .. n - 1, i \in good  PROVE i + 1 \in good
  <2>1. i + 1 \in 1 .. n /\ i + 1 \in 1 .. n + 1 /\ i + 1 - 1 = i /\ i + 1 \in 0 .. n
    BY <1>1
  <2>2. a[i + 1] = a[i] - SlotSize - s[i + 1].size
    BY <1>2, <2>1 DEF IsRoom
  <2>3. b[i + 1] = b[i] - SlotSize - new[i + 1].size
    BY <1>1, <1>3, <2>1 DEF IsRoom
  <2> QED  BY <1>1, <1>5, <2>1, <2>2, <2>3
<1>6. good = 0 .. n
  <2>1. good \in SUBSET (0 .. n)
    OBVIOUS
  <2> HIDE DEF good
  <2> QED  BY <1>1, <1>4, <1>5, <2>1, Induction
<1>7. a[n] = b[n]
  BY <1>1, <1>6
<1>8. n + 1 \in 1 .. n + 1 /\ n + 1 - 1 = n
  BY <1>1
<1>9. b[n + 1] = b[n] - SlotSize - sl.size
  BY <1>1, <1>3, <1>8 DEF IsRoom
<1> QED  BY <1>2, <1>3, <1>7, <1>9 DEF new

\* The free space is the gap between directory and records, as the header says;
\* and what an insertRecord takes from the gap it takes from the sum.
PageInv == IndInv /\ FreeSpaceExact

LEMMA GapNow ==
  IndInv => GetFreeSpace = free_ptr - (HeaderSize + Len(slots) * SlotSize)
BY Gap DEF IndInv

LEMMA GapNext ==
  IndInv' => (GetFreeSpace = free_ptr - (HeaderSize + Len(slots) * SlotSize))'
BY GapNow, PTL

LEMMA ExactNow == FreeSpaceExact <=> GetFreeSpace = Room(slots)
BY Zenon DEF FreeSpaceExact, Room

LEMMA ExactNext == FreeSpaceExact' <=> (GetFreeSpace = Room(slots))'
BY ExactNow, PTL

LEMMA InitPageInv == Init => PageInv
<1> SUFFICES ASSUME Init  PROVE  PageInv
  OBVIOUS
<1>1. IndInv
  BY InitInv
<1>2. GetFreeSpace = free_ptr - (HeaderSize + Len(slots) * SlotSize)
  BY <1>1, GapNow
<1>3. free_ptr = PageSize /\ slots = << >> /\ Len(slots) = 0 /\ PageSize \in Int
  BY PageSizeAssumption, WordType DEF Init, HeaderSize
<1>4. GetFreeSpace = Room(slots)
  BY <1>2, <1>3, RoomOfNone DEF HeaderSize, SlotSize
<1> QED  BY <1>1, <1>4, ExactNow DEF PageInv

LEMMA InsertKeepsPageInv ==
  ASSUME PageInv, NEW size \in 0 .. Word - 1, InsertRecord(size)
  PROVE  PageInv'
<1> DEFINE slot == [offset |-> Place(size), size |-> size]
           Slots == [offset : 0 .. Word - 1, size : 0 .. Word - 1]
<1>1. IndInv /\ TypeOK /\ Layout /\ GetFreeSpace = Room(slots) /\ Fits(size)
  BY ExactNow DEF PageInv, IndInv, InsertRecord
<1>2. IndInv'
  BY <1>1, InsertKeepsInv
<1>3. /\ GetFreeSpace = free_ptr - (HeaderSize + Len(slots) * SlotSize)
      /\ Place(size) = free_ptr - size
  BY <1>1, Gap
<1>4. (GetFreeSpace = free_ptr - (HeaderSize + Len(slots) * SlotSize))'
  BY <1>2, GapNext
<1>5. slots \in Seq(Slots) /\ slot \in Slots /\ slot.size = size
      /\ free_ptr \in Nat /\ size \in Nat
  <2>1. Place(size) \in 0 .. Word - 1
    BY <1>2 DEF IndInv, TypeOK, InsertRecord
  <2> QED  BY <1>1, <2>1, WordType DEF TypeOK
<1>6. slots' = Append(slots, slot) /\ free_ptr' = free_ptr - size
  BY <1>3 DEF InsertRecord
<1> HIDE DEF slot, Slots
<1>7. Len(slots) \in Nat /\ Len(slots') = Len(slots) + 1
  BY <1>5, <1>6
<1>8. Room(slots') = Room(slots) - SlotSize - size
  BY <1>5, <1>6, RoomAfter
<1>9. GetFreeSpace' = GetFreeSpace - SlotSize - size
  <2>1. GetFreeSpace' = free_ptr' - (HeaderSize + Len(slots') * SlotSize)
    BY <1>4
  <2> QED  BY <1>3, <1>5, <1>6, <1>7, <2>1 DEF HeaderSize, SlotSize
<1>10. (GetFreeSpace = Room(slots))'
  BY <1>1, <1>8, <1>9
<1> QED  BY <1>2, <1>10, ExactNext DEF PageInv

LEMMA StepKeepsPageInv ==
  ASSUME PageInv, [Next]_vars
  PROVE  PageInv'
<1>1. ASSUME NEW size \in Sizes, InsertRecord(size)  PROVE  PageInv'
  BY <1>1, SizesAssumption, InsertKeepsPageInv
<1>2. CASE UNCHANGED vars
  <2>1. IndInv'
    BY <1>2, StepKeepsInv DEF PageInv
  <2>2. GetFreeSpace = Room(slots)
    BY ExactNow DEF PageInv
  <2>3. (GetFreeSpace = Room(slots))'
    BY <1>2, <2>2 DEF vars, GetFreeSpace
  <2> QED  BY <2>1, <2>3, ExactNext DEF PageInv
<1> QED  BY <1>1, <1>2 DEF Next, RefuseRecord

\* getFreeSpace, computed in 16 bits from two fields of the header, is always
\* the size of the page less header, directory and all records in it.
THEOREM FreeSpaceIsExact == Spec => []FreeSpaceExact
<1>1. PageInv /\ [Next]_vars => PageInv'
  BY StepKeepsPageInv
<1>2. PageInv => FreeSpaceExact
  BY DEF PageInv
<1> QED  BY <1>1, <1>2, InitPageInv, PTL DEF Spec

-----------------------------------------------------------------------------
(***************************************************************************)
(* The objects.                                                            *)
(***************************************************************************)
LEMMA WrapType ==
  ASSUME NEW x \in Nat
  PROVE  x % Word \in 0 .. Word - 1 /\ x % Word <= x
BY SMTT(30) DEF Word

\* The sizes and pieces of each kind, spelled out.
LEMMA OfUser ==
  ASSUME NEW n
  PROVE  /\ SerializedSize(User(n)) = 6 + (2 + n)
         /\ Serialized(User(n)) =
              {Piece(0, 4, 1), Piece(4, 2, 2), Piece(6, 2, n % Word),
               Piece(8, n % Word, n % Word)}
BY DEF SerializedSize, Serialized, User, TextSize

LEMMA OfSensorData ==
  /\ SerializedSize(SensorData) = 20
  /\ Serialized(SensorData) = {Piece(0, 4, 1), Piece(4, 8, 2), Piece(12, 8, 3)}
BY DEF SerializedSize, Serialized, SensorData

LEMMA OfCourse ==
  ASSUME NEW t, NEW s
  PROVE  /\ SerializedSize(Course(t, s)) = 4 + (2 + t) + 2 + 4 * s
         /\ Serialized(Course(t, s)) =
              {Piece(0, 4, 1), Piece(4, 2, t % Word),
               Piece(6, t % Word, t % Word),
               Piece(6 + (t % Word), 2, s % Word),
               Piece(8 + (t % Word), 4 * (s % Word), s % Word)}
BY DEF SerializedSize, Serialized, Course, TextSize

\* The number of bytes of an object, and of what is kept of it.
LEMMA SizeType ==
  ASSUME NEW o \in Objects
  PROVE  SerializedSize(o) \in Nat /\ RecordSize(o) \in 0 .. Word - 1
<1>1. SerializedSize(o) \in Nat
  <2>1. CASE o = SensorData
    BY <2>1, OfSensorData
  <2>2. ASSUME NEW n \in Lengths, o = User(n)  PROVE SerializedSize(o) \in Nat
    BY <2>2, OfUser, LengthsAssumption
  <2>3. ASSUME NEW t \in Lengths, NEW s \in Students, o = Course(t, s)
        PROVE  SerializedSize(o) \in Nat
    <3>1. t \in Nat /\ s \in Nat
      BY LengthsAssumption
    <3> QED  BY <2>3, <3>1, OfCourse
  <2> QED  BY <2>1, <2>2, <2>3 DEF Objects
<1> QED  BY <1>1, WrapType DEF RecordSize

\* What is read where one piece is.
LEMMA ReadsPiece ==
  ASSUME NEW buffer, NEW p \in buffer.pieces, p.at + p.len <= buffer.size,
         \A q \in buffer.pieces : q.at = p.at /\ q.len = p.len => q = p
  PROVE  Reads(buffer, p.at, p.len) = p.value
<1> DEFINE there == {piece \in buffer.pieces : /\ piece.at = p.at /\ piece.len = p.len
                                               /\ p.at + p.len <= buffer.size}
<1>1. there = {p}
  OBVIOUS
<1>2. (CHOOSE piece \in there : TRUE) = p
  BY <1>1
<1> HIDE DEF there
<1>3. (IF there = {} THEN Unknown ELSE (CHOOSE piece \in there : TRUE).value) = p.value
  BY <1>1, <1>2
<1> QED  BY <1>3 DEF there, Reads

LEMMA PieceFields ==
  ASSUME NEW at, NEW len, NEW value
  PROVE  /\ Piece(at, len, value).at = at /\ Piece(at, len, value).len = len
         /\ Piece(at, len, value).value = value
BY DEF Piece

\* A user whose name fits is read as it was written.
LEMMA UserComesBack ==
  ASSUME NEW n \in Nat, 8 + n < Word, NEW buffer,
         buffer.pieces = Serialized(User(n)), buffer.size = 8 + n
  PROVE  UserFrom(buffer) = User(n)
<1>1. n % Word = n /\ Unknown \notin Nat
  BY NoWrap, WordType, UnknownAssumption
<1>2. buffer.pieces = {Piece(0, 4, 1), Piece(4, 2, 2), Piece(6, 2, n), Piece(8, n, n)}
  BY <1>1, OfUser
<1>3. ASSUME NEW p \in buffer.pieces
      PROVE  /\ p.at + p.len <= buffer.size
             /\ \A q \in buffer.pieces : q.at = p.at /\ q.len = p.len => q = p
  BY <1>2, PieceFields
<1>4. \A p \in buffer.pieces : Reads(buffer, p.at, p.len) = p.value
  BY <1>3, ReadsPiece
<1>5. /\ Reads(buffer, 0, 4) = 1 /\ Reads(buffer, 4, 2) = 2
      /\ Reads(buffer, 6, 2) = n /\ Reads(buffer, 8, n) = n
  BY <1>2, <1>4, PieceFields
<1>6. n * 1 = n /\ n # Unknown
  BY <1>1
<1>7. ReadsCounted(buffer, 8, n, 1) = n
  BY <1>5, <1>6 DEF ReadsCounted
<1> QED  BY <1>5, <1>7 DEF UserFrom, User

LEMMA SensorDataComesBack ==
  ASSUME NEW buffer,
         buffer.pieces = Serialized(SensorData), buffer.size = 20
  PROVE  SensorDataFrom(buffer) = SensorData
<1>1. buffer.pieces = {Piece(0, 4, 1), Piece(4, 8, 2), Piece(12, 8, 3)}
  BY OfSensorData
<1>2. ASSUME NEW p \in buffer.pieces
      PROVE  /\ p.at + p.len <= buffer.size
             /\ \A q \in buffer.pieces : q.at = p.at /\ q.len = p.len => q = p
  BY <1>1, PieceFields
<1>3. \A p \in buffer.pieces : Reads(buffer, p.at, p.len) = p.value
  BY <1>2, ReadsPiece
<1>4. /\ Reads(buffer, 0, 4) = 1 /\ Reads(buffer, 4, 8) = 2
      /\ Reads(buffer, 12, 8) = 3
  BY <1>1, <1>3, PieceFields
<1> QED  BY <1>4 DEF SensorDataFrom, SensorData

\* So is a course; its reader finds the students behind the title.
LEMMA CourseComesBack ==
  ASSUME NEW t \in Nat, NEW s \in Nat, 8 + t + 4 * s < Word, NEW buffer,
         buffer.pieces = Serialized(Course(t, s)), buffer.size = 8 + t + 4 * s
  PROVE  CourseFrom(buffer) = Course(t, s)
<1>1. t % Word = t /\ s % Word = s /\ Unknown \notin Nat
  BY NoWrap, WordType, UnknownAssumption
<1>2. buffer.pieces = {Piece(0, 4, 1), Piece(4, 2, t), Piece(6, t, t),
                       Piece(6 + t, 2, s), Piece(8 + t, 4 * s, s)}
  BY <1>1, OfCourse
<1>3. ASSUME NEW p \in buffer.pieces
      PROVE  /\ p.at + p.len <= buffer.size
             /\ \A q \in buffer.pieces : q.at = p.at /\ q.len = p.len => q = p
  <2>1. p.at + p.len <= buffer.size
    BY <1>2, PieceFields
  <2>2. \A q \in buffer.pieces : q.at = p.at /\ q.len = p.len => q = p
    BY <1>2, PieceFields
  <2> QED  BY <2>1, <2>2
<1>4. \A p \in buffer.pieces : Reads(buffer, p.at, p.len) = p.value
  BY <1>3, ReadsPiece
<1>5. /\ Reads(buffer, 0, 4) = 1 /\ Reads(buffer, 4, 2) = t
      /\ Reads(buffer, 6, t) = t /\ Reads(buffer, 6 + t, 2) = s
      /\ Reads(buffer, 8 + t, 4 * s) = s
  BY <1>2, <1>4, PieceFields
<1>6. t * 1 = t /\ t # Unknown /\ s * 4 = 4 * s /\ s # Unknown
  BY <1>1
<1>7. ReadsCounted(buffer, 6, t, 1) = t
  BY <1>5, <1>6 DEF ReadsCounted
<1>8. StudentsFrom(buffer, t) = s
  BY <1>5, <1>6 DEF StudentsFrom, ReadsCounted
<1> QED  BY <1>5, <1>7, <1>8 DEF CourseFrom, Course

\* Serializing any object and reading it back from all of its bytes.
LEMMA ComesBack ==
  ASSUME NEW o \in Objects, SerializedSize(o) < Word, NEW buffer,
         buffer.pieces = Serialized(o), buffer.size = SerializedSize(o)
  PROVE  Deserialized(o.kind, buffer) = o
<1>1. CASE o = SensorData
  <2>1. SensorDataFrom(buffer) = o
    BY <1>1, OfSensorData, SensorDataComesBack
  <2>2. o.kind = "sensor"
    BY <1>1 DEF SensorData
  <2> QED  BY <2>1, <2>2 DEF Deserialized
<1>2. ASSUME NEW n \in Lengths, o = User(n)
      PROVE  Deserialized(o.kind, buffer) = o
  <2>1. n \in Nat /\ SerializedSize(o) = 8 + n
    BY <1>2, OfUser, LengthsAssumption
  <2>2. UserFrom(buffer) = o
    BY <1>2, <2>1, UserComesBack
  <2>3. o.kind = "user"
    BY <1>2 DEF User
  <2> QED  BY <2>2, <2>3 DEF Deserialized
<1>3. ASSUME NEW t \in Lengths, NEW s \in Students, o = Course(t, s)
      PROVE  Deserialized(o.kind, buffer) = o
  <2>1. t \in Nat /\ s \in Nat
    BY LengthsAssumption
  <2>2. SerializedSize(o) = 8 + t + 4 * s
    BY <1>3, <2>1, OfCourse
  <2>3. CourseFrom(buffer) = o
    BY <1>3, <2>1, <2>2, CourseComesBack
  <2>4. o.kind = "course"
    BY <1>3 DEF Course
  <2> QED  BY <2>3, <2>4 DEF Deserialized
<1> QED  BY <1>1, <1>2, <1>3 DEF Objects

\* The object in the page is one of those that were given to it, and its slot
\* has the size that was kept of it.
StoredInv ==
  stored.object # NoObject =>
    /\ stored.object \in Objects
    /\ stored.slot_num \in DOMAIN slots
    /\ slots[stored.slot_num].size = RecordSize(stored.object)

ObjectInv == PageInv /\ StoredInv

LEMMA InitObjectInv == ObjectInit => ObjectInv
BY InitPageInv DEF ObjectInit, ObjectInv, StoredInv

\* insertRecord leaves the earlier slots as they are.
LEMMA SlotsStay ==
  ASSUME IndInv, NEW size \in 0 .. Word - 1, InsertRecord(size)
  PROVE  /\ \A i \in DOMAIN slots : i \in DOMAIN slots' /\ slots'[i] = slots[i]
         /\ Len(slots') \in DOMAIN slots' /\ slots'[Len(slots')].size = size
<1> DEFINE slot == [offset |-> Place(size), size |-> size]
           Slots == [offset : 0 .. Word - 1, size : 0 .. Word - 1]
<1>1. IndInv'
  BY InsertKeepsInv
<1>2. slots \in Seq(Slots) /\ slot \in Slots /\ slots' = Append(slots, slot)
  BY <1>1 DEF IndInv, TypeOK, InsertRecord
<1>3. slot.size = size
  OBVIOUS
<1> HIDE DEF slot, Slots
<1>4. /\ \A i \in DOMAIN slots : i \in DOMAIN slots' /\ slots'[i] = slots[i]
      /\ Len(slots') \in DOMAIN slots' /\ slots'[Len(slots')] = slot
  BY <1>2
<1> QED  BY <1>3, <1>4

LEMMA StepKeepsObjectInv ==
  ASSUME ObjectInv, [ObjectNext]_objectVars
  PROVE  ObjectInv'
<1>0. PageInv /\ StoredInv /\ IndInv
  BY DEF ObjectInv, PageInv
<1>1. ASSUME NEW o \in Objects, StoreObject(o)  PROVE ObjectInv'
  <2>1. RecordSize(o) \in 0 .. Word - 1 /\ InsertRecord(RecordSize(o))
    BY <1>1, SizeType DEF StoreObject
  <2>2. PageInv'
    BY <1>0, <2>1, InsertKeepsPageInv
  <2>3. Len(slots') \in DOMAIN slots' /\ slots'[Len(slots')].size = RecordSize(o)
    BY <1>0, <2>1, SlotsStay
  <2>4. stored'.object = o /\ stored'.slot_num = Len(slots')
    BY <1>1 DEF StoreObject
  <2> QED  BY <1>1, <2>2, <2>3, <2>4 DEF ObjectInv, StoredInv, RecordSize
<1>2. CASE PutRecord
  <2>1. PageInv'
    BY <1>0, <1>2, StepKeepsPageInv DEF PutRecord
  <2>2. \A i \in DOMAIN slots : i \in DOMAIN slots' /\ slots'[i] = slots[i]
    <3>1. ASSUME NEW size \in Sizes, InsertRecord(size)
          PROVE  \A i \in DOMAIN slots : i \in DOMAIN slots' /\ slots'[i] = slots[i]
      <4>1. size \in 0 .. Word - 1
        BY SizesAssumption
      <4> QED  BY <1>0, <3>1, <4>1, SlotsStay
    <3> QED  BY <1>2, <3>1 DEF PutRecord, Next, RefuseRecord, vars
  <2>3. stored' = stored
    BY <1>2 DEF PutRecord
  <2> QED  BY <1>0, <2>1, <2>2, <2>3 DEF ObjectInv, StoredInv
<1>3. ASSUME UNCHANGED vars, UNCHANGED stored  PROVE ObjectInv'
  <2>1. PageInv'
    BY <1>0, <1>3, StepKeepsPageInv
  <2> QED  BY <1>0, <1>3, <2>1 DEF ObjectInv, StoredInv, vars
<1> QED  BY <1>1, <1>2, <1>3 DEF ObjectNext, StoreThrows, RefuseRecord, objectVars

LEMMA ObjectInvariant == ObjectSpec => []ObjectInv
<1>1. ObjectInv /\ [ObjectNext]_objectVars => ObjectInv'
  BY StepKeepsObjectInv
<1> QED  BY <1>1, InitObjectInv, PTL DEF ObjectSpec

\* A page that storeObject uses keeps the layout, its records and its directory,
\* whatever the size of the object is.
THEOREM ObjectPagesInvariant == ObjectSpec => []IndInv
<1>1. ObjectInv => IndInv
  BY DEF ObjectInv, PageInv
<1> QED  BY <1>1, ObjectInvariant, PTL

\* find returns the object that was inserted: from its 16-bit fields, out of a
\* page that others go on filling, whenever its size fits into 16 bits.
THEOREM ObjectsRoundTrip == ObjectSpec => []RoundTrip
<1>1. ObjectInv => RoundTrip
  <2> SUFFICES ASSUME ObjectInv, stored.object # NoObject,
                      SerializedSize(stored.object) < Word
               PROVE  Found = stored.object
    BY DEF RoundTrip
  <2> DEFINE o      == stored.object
             slot   == stored.slot_num
             buffer == RetrievedBuffer(slot)
  <2>1. /\ o \in Objects /\ slot \in DOMAIN slots
        /\ slots[slot].size = RecordSize(o)
    BY DEF ObjectInv, StoredInv
  <2>2. RecordSize(o) = SerializedSize(o)
    BY <2>1, SizeType, NoWrap DEF RecordSize
  <2>3. \A b \in RecordBytes(slots[slot]) : b \in Bytes /\ bytes[b] = OfRecord(slot)
    BY <2>1 DEF ObjectInv, PageInv, IndInv, RecordsIntact
  <2>4. buffer.pieces = Serialized(o) /\ buffer.size = SerializedSize(o)
    BY <2>1, <2>2, <2>3 DEF RetrievedBuffer
  <2> HIDE DEF buffer
  <2>5. Deserialized(o.kind, buffer) = o
    BY <2>1, <2>4, ComesBack
  <2> QED  BY <2>5 DEF Found, buffer
<1> QED  BY <1>1, ObjectInvariant, PTL

\* serializeToBuffer writes inside the buffer it is given and no byte twice,
\* also for an object that is too long for its 16-bit length fields.
THEOREM ObjectsSerializeInBuffer == ObjectSpec => []SerializedInBuffer
<1>1. ObjectInv => SerializedInBuffer
  <2> SUFFICES ASSUME ObjectInv, stored.object # NoObject
               PROVE  SerializedInBuffer
    BY DEF SerializedInBuffer
  <2> DEFINE o      == stored.object
             pieces == Serialized(o)
             Inside == \A p \in pieces : p.at + p.len <= SerializedSize(o)
             Apart  == \A p, q \in pieces : \/ p = q
                                            \/ p.at + p.len <= q.at
                                            \/ q.at + q.len <= p.at
  <2>1. o \in Objects
    BY DEF ObjectInv, StoredInv
  <2>2. CASE o = SensorData
    BY <2>2, OfSensorData, PieceFields DEF SerializedInBuffer
  <2>3. ASSUME NEW n \in Lengths, o = User(n)  PROVE SerializedInBuffer
    <3>1. n \in Nat /\ n % Word \in Nat /\ n % Word <= n
      BY LengthsAssumption, WrapType, WordType
    <3>2. Inside
      BY <2>3, <3>1, OfUser, PieceFields
    <3>3. Apart
      BY <2>3, <3>1, OfUser, PieceFields
    <3> QED  BY <3>2, <3>3 DEF SerializedInBuffer
  <2>4. ASSUME NEW t \in Lengths, NEW s \in Students, o = Course(t, s)
        PROVE  SerializedInBuffer
    <3>1. /\ t \in Nat /\ t % Word \in Nat /\ t % Word <= t
          /\ s \in Nat /\ s % Word \in Nat /\ s % Word <= s
      BY LengthsAssumption, WrapType, WordType
    <3>2. Inside
      BY <2>4, <3>1, OfCourse, PieceFields
    <3>3. Apart
      BY <2>4, <3>1, OfCourse, PieceFields
    <3> QED  BY <3>2, <3>3 DEF SerializedInBuffer
  <2> QED  BY <2>1, <2>2, <2>3, <2>4 DEF Objects
<1> QED  BY <1>1, ObjectInvariant, PTL
=============================================================================
