-------------------------- MODULE BufferPool_proofs --------------------------
(***************************************************************************)
(* IndInv is an invariant of the buffer pool for every pool size, number   *)
(* of pages and number of users, as long as page 0 is not fetched from an  *)
(* empty file.  One lemma per operation of the pool; fetchPage's miss and  *)
(* newPage share the lemmas about claiming a frame.                        *)
(*                                                                         *)
(* The invariants speak of sets of frames; the lemmas about the replacer's *)
(* list come first and are the only place that looks inside a list.        *)
(***************************************************************************)
EXTENDS BufferPool, FiniteSetTheorems, SequenceTheorems, WellFoundedInduction, TLAPS

-----------------------------------------------------------------------------
(***************************************************************************)
(* What the replacer's methods do to the set of frames in the list.        *)
(***************************************************************************)
\* An empty list names nobody.
LEMMA EmptyList ==
  /\ ToSet(<< >>) = {}
  /\ IsInjective(<< >>)
BY DEF ToSet, IsInjective

\* Every name in a list of S is in S.
LEMMA ListType ==
  ASSUME NEW S, NEW s \in Seq(S)
  PROVE  ToSet(s) \in SUBSET S
BY DEF ToSet

\* Taking the first of a list (victim, free_list.pop_front) removes exactly
\* that name.
LEMMA TakeFirst ==
  ASSUME NEW S, NEW s \in Seq(S), s # << >>, IsInjective(s)
  PROVE  /\ Head(s) \in S /\ Head(s) \in ToSet(s)
         /\ Tail(s) \in Seq(S) /\ IsInjective(Tail(s))
         /\ ToSet(Tail(s)) = ToSet(s) \ {Head(s)}
<1>1. /\ Len(s) \in Nat /\ Len(s) > 0 /\ DOMAIN s = 1 .. Len(s)
      /\ Head(s) = s[1] /\ Head(s) \in S
      /\ Tail(s) \in Seq(S) /\ Len(Tail(s)) = Len(s) - 1
      /\ DOMAIN Tail(s) = 1 .. Len(s) - 1
  OBVIOUS
<1>2. \A i \in 1 .. Len(s) - 1 : Tail(s)[i] = s[i + 1]
  OBVIOUS
<1>3. IsInjective(Tail(s))
  BY <1>1, <1>2 DEF IsInjective
<1>4. Head(s) \in ToSet(s)
  BY <1>1 DEF ToSet
<1>5. ASSUME NEW x \in ToSet(Tail(s))  PROVE  x \in ToSet(s) \ {Head(s)}
  BY <1>1, <1>2, <1>5 DEF ToSet, IsInjective
<1>6. ASSUME NEW x \in ToSet(s), x # Head(s)  PROVE  x \in ToSet(Tail(s))
  <2>1. PICK i \in 1 .. Len(s) : s[i] = x
    BY <1>1 DEF ToSet
  <2>2. i - 1 \in 1 .. Len(s) - 1 /\ Tail(s)[i - 1] = x
    BY <1>1, <1>2, <1>6, <2>1
  <2> QED  BY <1>1, <2>2 DEF ToSet
<1> QED  BY <1>1, <1>3, <1>4, <1>5, <1>6

\* Appending a new name adds exactly that name.
LEMMA AppendNew ==
  ASSUME NEW S, NEW s \in Seq(S), NEW f \in S, f \notin ToSet(s), IsInjective(s)
  PROVE  /\ Append(s, f) \in Seq(S) /\ IsInjective(Append(s, f))
         /\ ToSet(Append(s, f)) = ToSet(s) \cup {f}
<1>1. /\ Len(s) \in Nat /\ DOMAIN s = 1 .. Len(s)
      /\ Append(s, f) \in Seq(S) /\ Len(Append(s, f)) = Len(s) + 1
      /\ DOMAIN Append(s, f) = 1 .. Len(s) + 1
      /\ Append(s, f)[Len(s) + 1] = f
      /\ \A i \in 1 .. Len(s) : Append(s, f)[i] = s[i]
  OBVIOUS
<1>2. IsInjective(Append(s, f))
  BY <1>1 DEF IsInjective, ToSet
<1>3. ASSUME NEW x \in ToSet(s) \cup {f}  PROVE  x \in ToSet(Append(s, f))
  <2>1. PICK i \in 1 .. Len(s) + 1 : Append(s, f)[i] = x
    BY <1>1, <1>3 DEF ToSet
  <2> QED  BY <1>1, <2>1 DEF ToSet
<1>4. ASSUME NEW x \in ToSet(Append(s, f))  PROVE  x \in ToSet(s) \cup {f}
  BY <1>1, <1>4 DEF ToSet
<1> QED  BY <1>1, <1>2, <1>3, <1>4

\* Removing by position closes the gap and moves nothing else.
LEMMA RemoveAtShifts ==
  ASSUME NEW S, NEW s \in Seq(S), NEW j \in 1 .. Len(s)
  PROVE  /\ RemoveAt(s, j) \in Seq(S)
         /\ Len(RemoveAt(s, j)) = Len(s) - 1
         /\ \A i \in 1 .. Len(s) - 1 :
               RemoveAt(s, j)[i] = IF i < j THEN s[i] ELSE s[i + 1]
<1> DEFINE a == SubSeq(s, 1, j - 1)
           b == SubSeq(s, j + 1, Len(s))
<1>0. Len(s) \in Nat
  OBVIOUS
<1>1. a \in Seq(S) /\ Len(a) = j - 1 /\ \A i \in 1 .. j - 1 : a[i] = s[i]
  OBVIOUS
<1>2. /\ b \in Seq(S) /\ Len(b) = Len(s) - j
      /\ \A i \in 1 .. Len(s) - j : b[i] = s[i + j]
  OBVIOUS
<1>3. RemoveAt(s, j) = a \o b
  BY DEF RemoveAt
<1> HIDE DEF a, b
<1>4. PICK c : c = a \o b
  OBVIOUS
<1>5. /\ c \in Seq(S) /\ Len(c) = Len(a) + Len(b)
      /\ \A i \in 1 .. Len(a) + Len(b) :
            c[i] = IF i <= Len(a) THEN a[i] ELSE b[i - Len(a)]
  BY <1>1, <1>2, <1>4, ConcatProperties, Zenon
<1>6. Len(a) + Len(b) = Len(s) - 1
  BY <1>0, <1>1, <1>2
<1>7. ASSUME NEW i \in 1 .. Len(s) - 1
      PROVE  c[i] = IF i < j THEN s[i] ELSE s[i + 1]
  <2>1. c[i] = IF i <= Len(a) THEN a[i] ELSE b[i - Len(a)]
    BY <1>5, <1>6, Zenon
  <2>2. CASE i < j
    <3>1. i <= Len(a) /\ i \in 1 .. j - 1
      BY <1>0, <1>1, <2>2
    <3> QED  BY <1>1, <2>1, <2>2, <3>1, Zenon
  <2>3. CASE ~ (i < j)
    <3>1. /\ ~ (i <= Len(a)) /\ i - Len(a) \in 1 .. Len(s) - j
          /\ (i - Len(a)) + j = i + 1
      BY <1>0, <1>1, <2>3
    <3> QED  BY <1>2, <2>1, <2>3, <3>1, Zenon
  <2> QED  BY <2>2, <2>3
<1>8. c \in Seq(S) /\ Len(c) = Len(s) - 1
  BY <1>5, <1>6, Zenon
<1> QED  BY <1>3, <1>4, <1>7, <1>8, Zenon

\* pin removes exactly the frame it is given, whether or not it is listed.
LEMMA PinRemoves ==
  ASSUME NEW S, NEW s \in Seq(S), NEW f, IsInjective(s)
  PROVE  /\ LruPin(s, f) \in Seq(S) /\ IsInjective(LruPin(s, f))
         /\ ToSet(LruPin(s, f)) = ToSet(s) \ {f}
<1>0. Len(s) \in Nat /\ DOMAIN s = 1 .. Len(s)
  OBVIOUS
<1>1. CASE \A i \in 1 .. Len(s) : s[i] # f
  BY <1>0, <1>1 DEF LruPin, RemoveFirst, ToSet
<1>2. CASE \E i \in 1 .. Len(s) : s[i] = f
  <2> DEFINE I == {i \in 1 .. Len(s) : s[i] = f}
  <2>1. PICK j \in 1 .. Len(s) : s[j] = f
    BY <1>2
  <2>2. I = {j} /\ Min(I) = j
    BY <1>0, <2>1 DEF IsInjective, Min
  <2>3. LruPin(s, f) = RemoveAt(s, j)
    BY <1>2, <2>2 DEF LruPin, RemoveFirst, SelectInSeq
  <2>4. PICK t : t = RemoveAt(s, j)
    OBVIOUS
  <2>5. /\ t \in Seq(S) /\ Len(t) = Len(s) - 1
        /\ \A i \in 1 .. Len(s) - 1 : t[i] = IF i < j THEN s[i] ELSE s[i + 1]
    BY <2>4, RemoveAtShifts, Zenon
  <2>6. DOMAIN t = 1 .. Len(s) - 1 /\ IsInjective(t)
    <3>1. DOMAIN t = 1 .. Len(s) - 1
      BY <1>0, <2>5
    <3>2. ASSUME NEW x \in 1 .. Len(s) - 1, NEW y \in 1 .. Len(s) - 1,
                 t[x] = t[y]
          PROVE  x = y
      <4> DEFINE at(i) == IF i < j THEN i ELSE i + 1
      <4>1. \A i \in 1 .. Len(s) - 1 : at(i) \in 1 .. Len(s) /\ t[i] = s[at(i)]
        BY <1>0, <2>1, <2>5
      <4>2. at(x) = at(y)
        BY <1>0, <3>2, <4>1 DEF IsInjective
      <4> QED  BY <1>0, <2>1, <4>2
    <3> QED  BY <3>1, <3>2 DEF IsInjective
  <2>7. ASSUME NEW x \in ToSet(t)  PROVE  x \in ToSet(s) \ {f}
    <3>1. PICK i \in 1 .. Len(s) - 1 : x = t[i]
      BY <2>6, <2>7 DEF ToSet
    <3>2. PICK i2 \in 1 .. Len(s) : x = s[i2] /\ i2 # j
      BY <1>0, <2>1, <2>5, <3>1
    <3> QED  BY <1>0, <2>1, <3>2 DEF ToSet, IsInjective
  <2>8. ASSUME NEW x \in ToSet(s), x # f  PROVE  x \in ToSet(t)
    <3>1. PICK i \in 1 .. Len(s) : x = s[i]
      BY <1>0, <2>8 DEF ToSet
    <3>2. CASE i < j
      <4>1. i \in 1 .. Len(s) - 1 /\ t[i] = x
        BY <1>0, <2>1, <2>5, <3>1, <3>2
      <4> QED  BY <2>6, <4>1 DEF ToSet
    <3>3. CASE i > j
      <4>1. i - 1 \in 1 .. Len(s) - 1 /\ t[i - 1] = x
        BY <1>0, <2>1, <2>5, <3>1, <3>3
      <4> QED  BY <2>6, <4>1 DEF ToSet
    <3> QED  BY <2>1, <2>8, <3>1, <3>2, <3>3
  <2> QED  BY <2>3, <2>4, <2>5, <2>6, <2>7, <2>8
<1> QED  BY <1>1, <1>2

\* The frames are as many as their numbers say.
LEMMA CardFrames ==
  ASSUME NEW n \in Nat \ {0}
  PROVE  IsFiniteSet(0 .. n - 1) /\ Cardinality(0 .. n - 1) = n
<1>1. 0 \in Int /\ n - 1 \in Int
  OBVIOUS
<1>2. /\ IsFiniteSet(0 .. n - 1)
      /\ Cardinality(0 .. n - 1) = IF 0 > n - 1 THEN 0 ELSE (n - 1) - 0 + 1
  BY <1>1, FS_Interval, Zenon
<1> QED  BY <1>2

\* So are the places of a list.
LEMMA CardPlaces ==
  ASSUME NEW n \in Nat
  PROVE  IsFiniteSet(1 .. n) /\ Cardinality(1 .. n) = n
<1>1. /\ IsFiniteSet(1 .. n)
      /\ Cardinality(1 .. n) = IF 1 > n THEN 0 ELSE n - 1 + 1
  BY FS_Interval, SMT
<1> QED  BY <1>1

\* A list with more places than names repeats a name.
LEMMA Repeats ==
  ASSUME NEW P, NEW T, IsFiniteSet(P), IsFiniteSet(T),
         Cardinality(T) < Cardinality(P), NEW s \in [P -> T]
  PROVE  \E x, y \in P : x # y /\ s[x] = s[y]
BY FS_PigeonHole, Zenon

\* A list without f names at most max - 1 of the frames 0 .. max - 1, so the
\* replacer's capacity test never turns a released frame away.
LEMMA RoomLeft ==
  ASSUME NEW max \in Nat \ {0}, NEW s \in Seq(0 .. max - 1), IsInjective(s),
         NEW f \in 0 .. max - 1, f \notin ToSet(s)
  PROVE  Len(s) < max
<1> DEFINE T == (0 .. max - 1) \ {f}
<1>1. Len(s) \in Nat /\ DOMAIN s = 1 .. Len(s) /\ s \in [1 .. Len(s) -> T]
  BY DEF ToSet
<1>2. IsFiniteSet(T) /\ Cardinality(T) = Cardinality(0 .. max - 1) - 1
  BY CardFrames, FS_RemoveElement, Zenon
<1>3. Cardinality(T) = max - 1
  BY <1>2, CardFrames
<1>4. ASSUME Len(s) >= max  PROVE  FALSE
  <2>1. IsFiniteSet(1 .. Len(s)) /\ Cardinality(1 .. Len(s)) = Len(s)
    BY <1>1, CardPlaces, Zenon
  <2>2. Cardinality(T) < Cardinality(1 .. Len(s))
    <3> HIDE DEF T
    <3> QED  BY <1>1, <1>3, <1>4, <2>1
  <2>3. \E x, y \in 1 .. Len(s) : x # y /\ s[x] = s[y]
    <3> HIDE DEF T
    <3>1. s \in [1 .. Len(s) -> T]
      BY <1>1
    <3>2. PICK P : P = 1 .. Len(s)
      OBVIOUS
    <3>3. /\ IsFiniteSet(P) /\ IsFiniteSet(T)
          /\ Cardinality(T) < Cardinality(P) /\ s \in [P -> T]
      BY <1>2, <2>1, <2>2, <3>1, <3>2
    <3>4. \E x, y \in P : x # y /\ s[x] = s[y]
      BY <3>3, Repeats
    <3> QED  BY <3>2, <3>4
  <2> QED  BY <1>1, <2>3 DEF IsInjective
<1> QED  BY <1>1, <1>4

\* unpin lists the frame it is given, once, and changes nothing else.
LEMMA UnpinAdds ==
  ASSUME NEW max \in Nat \ {0}, NEW s \in Seq(0 .. max - 1), IsInjective(s),
         NEW f \in 0 .. max - 1
  PROVE  /\ LruUnpin(s, f, max) \in Seq(0 .. max - 1)
         /\ IsInjective(LruUnpin(s, f, max))
         /\ ToSet(LruUnpin(s, f, max)) = ToSet(s) \cup {f}
<1>1. CASE f \in ToSet(s)
  BY <1>1 DEF LruUnpin
<1>2. CASE f \notin ToSet(s)
  <2>1. Len(s) < max /\ Len(s) \in Nat
    BY <1>2, RoomLeft
  <2>2. LruUnpin(s, f, max) = Append(s, f)
    BY <1>2, <2>1 DEF LruUnpin
  <2> QED  BY <1>2, <2>2, AppendNew
<1> QED  BY <1>1, <1>2

-----------------------------------------------------------------------------
(***************************************************************************)
(* The pool.                                                               *)
(***************************************************************************)
\* The frames and "no frame" are told apart.
LEMMA NoFrameIsNone == NoFrame \notin Frames
BY NoFrameAssumption DEF Frames

\* Claiming a frame (the common part of fetchPage and newPage) takes it off
\* both lists, unmaps what it held, and leaves what it held in the file if
\* anybody needs it.  No user loses a page: nobody holds what is evicted.
LEMMA ClaimedFrameIsFree ==
  ASSUME SessionInv, Claim
  PROVE  LET f == ClaimedFrame IN
         /\ f \in Frames
         /\ free_list' \in Seq(Frames) /\ IsInjective(free_list')
         /\ ToSet(free_list') = ToSet(free_list) \ {f}
         /\ LruAfterClaim \in Seq(Frames) /\ IsInjective(LruAfterClaim)
         /\ ToSet(LruAfterClaim) = ToSet(lru_list) \ {f}
         /\ f \in ToSet(free_list) \cup ToSet(lru_list)
         /\ TableAfterClaim = [p \in PageIds |-> IF page_table[p] = f
                                                 THEN NoFrame
                                                 ELSE page_table[p]]
         /\ \A p \in PageIds : page_table[p] = f => holds[p] = 0
<1>0. TypeOK /\ FramesAccounted /\ HeadersMatch /\ PinsMatch
  BY DEF SessionInv
<1>1. CASE free_list # << >>
  <2>1. ClaimedFrame = Head(free_list) /\ free_list' = Tail(free_list)
        /\ LruAfterClaim = lru_list /\ TableAfterClaim = page_table
    BY <1>1 DEF Claim, ClaimedFrame, LruAfterClaim, TableAfterClaim
  <2>2. /\ Head(free_list) \in Frames /\ Head(free_list) \in ToSet(free_list)
        /\ Tail(free_list) \in Seq(Frames) /\ IsInjective(Tail(free_list))
        /\ ToSet(Tail(free_list)) = ToSet(free_list) \ {Head(free_list)}
    BY <1>0, <1>1, TakeFirst DEF TypeOK, FramesAccounted
  <2>3. /\ Head(free_list) \notin ToSet(lru_list)
        /\ \A p \in PageIds : page_table[p] # Head(free_list)
    BY <1>0, <2>2 DEF FramesAccounted
  <2> QED  BY <1>0, <2>1, <2>2, <2>3 DEF TypeOK, FramesAccounted
<1>2. CASE free_list = << >>
  <2>1. /\ ClaimedFrame = Head(lru_list) /\ free_list' = free_list
        /\ LruAfterClaim = Tail(lru_list) /\ lru_list # << >>
        /\ TableAfterClaim =
             [page_table EXCEPT ![frames[Head(lru_list)].page_id] = NoFrame]
    BY <1>2 DEF Claim, CanClaim, ClaimedFrame, LruAfterClaim, TableAfterClaim,
                LruVictim, LruAfterVictim, LruHasVictim
  <2>2. /\ Head(lru_list) \in Frames /\ Head(lru_list) \in ToSet(lru_list)
        /\ Tail(lru_list) \in Seq(Frames) /\ IsInjective(Tail(lru_list))
        /\ ToSet(Tail(lru_list)) = ToSet(lru_list) \ {Head(lru_list)}
    BY <1>0, <2>1, TakeFirst DEF TypeOK, FramesAccounted
  <2>3. /\ Head(lru_list) \notin ToSet(free_list)
        /\ page_table[frames[Head(lru_list)].page_id] = Head(lru_list)
        /\ pin_count[Head(lru_list)] = 0
    BY <1>0, <2>2 DEF FramesAccounted, Mapped
  <2>4. ASSUME NEW p \in PageIds, page_table[p] = Head(lru_list)
        PROVE  p = frames[Head(lru_list)].page_id /\ holds[p] = 0
    BY <1>0, <2>2, <2>3, <2>4, NoFrameIsNone
       DEF HeadersMatch, PinsMatch, Resident
  <2>5. page_table \in [PageIds -> Frames \cup {NoFrame}]
    BY <1>0 DEF TypeOK
  <2>6. TableAfterClaim = [p \in PageIds |-> IF page_table[p] = Head(lru_list)
                                             THEN NoFrame ELSE page_table[p]]
    BY <2>1, <2>3, <2>4, <2>5
  <2>7. /\ free_list \in Seq(Frames) /\ IsInjective(free_list)
        /\ ToSet(free_list) = ToSet(free_list) \ {Head(lru_list)}
    BY <1>0, <2>3 DEF TypeOK, FramesAccounted
  <2> QED  BY <2>1, <2>2, <2>4, <2>6, <2>7, Zenon
<1> QED  BY <1>1, <1>2

\* The victim is in the file when it leaves RAM, and the rest of the file is
\* not touched.
LEMMA ClaimKeepsFile ==
  ASSUME SessionInv, Claim
  PROVE  LET f == ClaimedFrame IN
         /\ disk' \in [PageIds -> Page]
         /\ file_pages' \in 0 .. MaxPages
         /\ file_pages <= file_pages' /\ file_pages' <= next_page_id
         /\ \A p \in PageIds : page_table[p] # f => disk'[p] = disk[p]
         /\ \A p \in live : page_table[p] = f =>
               p < file_pages' /\ disk'[p] = frames[f]
<1>0. /\ TypeOK /\ FramesAccounted /\ HeadersMatch /\ PinsMatch /\ UnsavedHeld
      /\ IdsGivenOut /\ LivePagesSafe /\ MaxPages \in Nat
  BY MaxPagesAssumption DEF SessionInv
<1>1. CASE free_list # << >>
  <2>1. ClaimedFrame = Head(free_list) /\ UNCHANGED diskVars
    BY <1>1 DEF Claim, ClaimedFrame
  <2>2. Head(free_list) \in Frames /\ Head(free_list) \in ToSet(free_list)
    BY <1>0, <1>1, TakeFirst DEF TypeOK, FramesAccounted
  <2>3. \A p \in PageIds : page_table[p] # Head(free_list)
    BY <1>0, <2>2 DEF FramesAccounted
  <2> QED  BY <1>0, <2>1, <2>3 DEF TypeOK, IdsGivenOut, diskVars, PageIds
<1>2. CASE free_list = << >>
  <2> DEFINE v == Head(lru_list)
             q == frames[v].page_id
  <2>1. /\ ClaimedFrame = v /\ lru_list # << >>
        /\ IF is_dirty[v] THEN WritePage(q, frames[v]) ELSE UNCHANGED diskVars
    BY <1>2 DEF Claim, CanClaim, ClaimedFrame, LruVictim, LruHasVictim
  <2>2. v \in Frames /\ v \in ToSet(lru_list)
    BY <1>0, <2>1, TakeFirst DEF TypeOK, FramesAccounted
  <2>3. /\ page_table[q] = v /\ pin_count[v] = 0
        /\ q \in PageIds /\ frames[v] \in Page
    BY <1>0, <2>2 DEF FramesAccounted, Mapped, TypeOK, Page
  <2>4. /\ q < next_page_id /\ holds[q] = 0 /\ q \notin unsaved
        /\ \A p \in PageIds : page_table[p] = v => p = q
    BY <1>0, <2>2, <2>3, NoFrameIsNone
       DEF HeadersMatch, PinsMatch, UnsavedHeld, IdsGivenOut, Resident, TypeOK
  <2>5. CASE is_dirty[v]
    <3> HIDE DEF v, q
    <3>1. /\ disk' = [disk EXCEPT ![q] = frames[v]]
          /\ file_pages' = IF q < file_pages THEN file_pages ELSE q + 1
      BY <2>1, <2>5 DEF WritePage
    <3>2. /\ disk' \in [PageIds -> Page] /\ disk'[q] = frames[v]
          /\ \A p \in PageIds : p # q => disk'[p] = disk[p]
      BY <1>0, <2>3, <3>1 DEF TypeOK
    <3>3. /\ file_pages' \in 0 .. MaxPages /\ q < file_pages'
          /\ file_pages <= file_pages' /\ file_pages' <= next_page_id
      BY <1>0, <2>3, <2>4, <3>1 DEF TypeOK, IdsGivenOut, PageIds
    <3>4. \A p \in live : p \in PageIds
      BY <1>0 DEF TypeOK
    <3> QED  BY <2>1, <2>3, <2>4, <3>2, <3>3, <3>4
  <2>6. CASE ~ is_dirty[v]
    <3>1. q \in live => q < file_pages /\ disk[q] = frames[v]
      BY <1>0, <2>2, <2>3, <2>4, <2>6, NoFrameIsNone
         DEF LivePagesSafe, Safe, Resident
    <3> QED  BY <1>0, <2>1, <2>4, <2>6, <3>1
                DEF TypeOK, IdsGivenOut, diskVars, PageIds
  <2> QED  BY <2>5, <2>6
<1> QED  BY <1>1, <1>2

\* Mapping a page that is not in RAM to a claimed frame, pinned once, keeps
\* the invariant: what fetchPage does on a miss and newPage always.
LEMMA InstallKeepsInv ==
  ASSUME SessionInv, Claim,
         NEW p \in PageIds, ~ Resident(p),
         NEW page \in Page, page.page_id = p, Install(p, page),
         lru_list' \in Seq(Frames), IsInjective(lru_list'),
         ToSet(lru_list') = ToSet(lru_list) \ {ClaimedFrame},
         holds' = [holds EXCEPT ![p] = 1],
         handle' = [handle EXCEPT ![p] = ClaimedFrame],
         unsaved' = unsaved, live' = live,
         next_page_id' \in 0 .. MaxPages, next_page_id <= next_page_id',
         p < next_page_id',
         p \in live => p < file_pages' /\ disk'[p] = page
  PROVE  SessionInv'
<1>0. /\ TypeOK /\ HeadersMatch /\ PinsMatch /\ UnsavedHeld /\ IdsGivenOut
      /\ PinnedStay /\ FramesAccounted /\ DirtyIsFound /\ LivePagesSafe
      /\ NoFrame \notin Frames
  BY NoFrameIsNone DEF SessionInv
<1>1. PICK f \in Frames : f = ClaimedFrame
  BY ClaimedFrameIsFree
<1>2. /\ free_list' \in Seq(Frames) /\ IsInjective(free_list')
      /\ ToSet(free_list') = ToSet(free_list) \ {f}
      /\ ToSet(lru_list') = ToSet(lru_list) \ {f}
      /\ TableAfterClaim = [q \in PageIds |-> IF page_table[q] = f
                                              THEN NoFrame ELSE page_table[q]]
      /\ \A q \in PageIds : page_table[q] = f => holds[q] = 0
  BY <1>1, ClaimedFrameIsFree
<1>3. /\ disk' \in [PageIds -> Page]
      /\ file_pages' \in 0 .. MaxPages
      /\ file_pages <= file_pages' /\ file_pages' <= next_page_id
      /\ \A q \in PageIds : page_table[q] # f => disk'[q] = disk[q]
      /\ \A q \in live : page_table[q] = f =>
            q < file_pages' /\ disk'[q] = frames[f]
  BY <1>1, ClaimKeepsFile
<1>4. /\ page_table' \in [PageIds -> Frames \cup {NoFrame}]
      /\ page_table'[p] = f
      /\ \A q \in PageIds \ {p} :
            page_table'[q] = IF page_table[q] = f THEN NoFrame
                             ELSE page_table[q]
  BY <1>0, <1>1, <1>2 DEF Install, TypeOK
<1>5. /\ frames' \in [Frames -> Page] /\ frames'[f] = page
      /\ \A g \in Frames \ {f} : frames'[g] = frames[g]
      /\ pin_count' \in [Frames -> Nat] /\ pin_count'[f] = 1
      /\ \A g \in Frames \ {f} : pin_count'[g] = pin_count[g]
      /\ is_dirty' \in [Frames -> BOOLEAN] /\ is_dirty'[f] = FALSE
      /\ \A g \in Frames \ {f} : is_dirty'[g] = is_dirty[g]
  BY <1>0, <1>1 DEF Install, TypeOK
<1>6. /\ holds' \in [PageIds -> Nat] /\ holds'[p] = 1
      /\ \A q \in PageIds \ {p} : holds'[q] = holds[q]
      /\ handle' \in [PageIds -> Frames \cup {NoFrame}] /\ handle'[p] = f
      /\ \A q \in PageIds \ {p} : handle'[q] = handle[q]
  BY <1>0, <1>1 DEF TypeOK
<1>7. page_table[p] = NoFrame
  BY DEF Resident
<1>a. TypeOK'
  BY <1>0, <1>2, <1>3, <1>4, <1>5, <1>6 DEF TypeOK
<1>b. HeadersMatch'
  <2>1. ASSUME NEW q \in PageIds, page_table'[q] # NoFrame
        PROVE  frames'[page_table'[q]].page_id = q
    <3>1. CASE q = p
      BY <1>4, <1>5, <3>1
    <3>2. CASE q # p
      <4>1. /\ page_table'[q] = page_table[q]
            /\ page_table[q] \in Frames \ {f}
        BY <1>0, <1>4, <2>1, <3>2 DEF TypeOK
      <4>2. frames[page_table[q]].page_id = q
        BY <1>0, <4>1 DEF HeadersMatch, Resident
      <4> QED  BY <1>5, <4>1, <4>2
    <3> QED  BY <3>1, <3>2
  <2> QED  BY <2>1 DEF HeadersMatch, Resident
<1>c. PinsMatch'
  BY <1>0, <1>1, <1>2, <1>4, <1>5, <1>6, <1>7 DEF PinsMatch, Resident, TypeOK
<1>d. UnsavedHeld'
  BY <1>0, <1>6 DEF UnsavedHeld, TypeOK
<1>e. IdsGivenOut'
  BY <1>0, <1>3, <1>4 DEF IdsGivenOut, Resident, TypeOK, PageIds
<1>f. PinnedStay'
  BY <1>0, <1>1, <1>2, <1>4, <1>5, <1>6 DEF PinnedStay, Resident, TypeOK
<1>g. \A g \in Frames : g # f /\ Mapped(g) => Mapped(g)'
  <2>1. ASSUME NEW g \in Frames, g # f, Mapped(g)  PROVE  Mapped(g)'
    <3>1. /\ frames'[g] = frames[g] /\ frames[g].page_id \in PageIds
          /\ page_table[frames[g].page_id] = g
      BY <1>0, <1>5, <2>1 DEF Mapped, TypeOK, Page
    <3>2. frames[g].page_id # p
      BY <1>0, <1>7, <3>1
    <3> QED  BY <1>4, <2>1, <3>1, <3>2 DEF Mapped
  <2> QED  BY <2>1
<1>h. Mapped(f)'
  BY <1>4, <1>5 DEF Mapped
<1>i. FramesAccounted'
  <2>1. ASSUME NEW g \in Frames, g \in ToSet(free_list')
        PROVE  /\ g \notin ToSet(lru_list')
               /\ \A q \in PageIds : page_table'[q] # g
    BY <1>0, <1>2, <1>4, <2>1 DEF FramesAccounted
  <2>2. ASSUME NEW g \in Frames, g \notin ToSet(free_list')
        PROVE  Mapped(g)' /\ (g \in ToSet(lru_list') <=> pin_count'[g] = 0)
    <3>1. CASE g = f
      BY <1>2, <1>5, <1>h, <3>1
    <3>2. CASE g # f
      BY <1>0, <1>2, <1>5, <1>g, <2>2, <3>2 DEF FramesAccounted
    <3> QED  BY <3>1, <3>2
  <2> QED  BY <1>2, <2>1, <2>2 DEF FramesAccounted
<1>j. DirtyIsFound'
  BY <1>0, <1>5, <1>g DEF DirtyIsFound
<1>k. LivePagesSafe'
  <2>1. ASSUME NEW q \in live  PROVE  q < next_page_id' /\ Safe(q)'
    <3>0. q \in PageIds /\ q < next_page_id' /\ Safe(q)
      BY <1>0, <2>1 DEF LivePagesSafe, TypeOK, PageIds
    <3>1. CASE q = p
      BY <1>0, <1>4, <1>5, <2>1, <3>0, <3>1 DEF Safe, Resident
    <3>2. CASE q # p /\ page_table[q] = f
      <4>1. page_table'[q] = NoFrame /\ q < file_pages' /\ disk'[q] = frames[f]
        BY <1>3, <1>4, <2>1, <3>0, <3>2
      <4>2. frames[f].page_id = q
        BY <1>0, <1>1, <3>0, <3>2 DEF HeadersMatch, Resident
      <4> QED  BY <3>0, <4>1, <4>2 DEF Safe, Resident
    <3>3. CASE q # p /\ page_table[q] # f
      <4>1. page_table'[q] = page_table[q] /\ disk'[q] = disk[q]
        BY <1>3, <1>4, <3>0, <3>3
      <4>2. q < file_pages => q < file_pages'
        BY <1>0, <1>3, <3>0 DEF TypeOK, PageIds
      <4>3. page_table[q] # NoFrame =>
              /\ page_table[q] \in Frames \ {f}
              /\ frames'[page_table[q]] = frames[page_table[q]]
              /\ is_dirty'[page_table[q]] = is_dirty[page_table[q]]
        BY <1>0, <1>5, <3>0, <3>3 DEF TypeOK
      <4> QED  BY <3>0, <4>1, <4>2, <4>3 DEF Safe, Resident
    <3> QED  BY <3>1, <3>2, <3>3
  <2> QED  BY <2>1 DEF LivePagesSafe
<1> QED  BY <1>a, <1>b, <1>c, <1>d, <1>e, <1>f, <1>i, <1>j, <1>k DEF SessionInv

\* What the invariant says of one page in RAM.
LEMMA ResidentPage ==
  ASSUME SessionInv, NEW p \in PageIds, Resident(p)
  PROVE  LET f == page_table[p] IN
         /\ f \in Frames /\ frames[f] \in Page /\ frames[f].page_id = p
         /\ pin_count[f] = holds[p] /\ pin_count[f] \in Nat
         /\ is_dirty[f] \in BOOLEAN
         /\ f \notin ToSet(free_list)
         /\ f \in ToSet(lru_list) <=> pin_count[f] = 0
         /\ \A q \in PageIds : page_table[q] = f => q = p
         /\ p < next_page_id
<1>0. /\ TypeOK /\ HeadersMatch /\ PinsMatch /\ IdsGivenOut /\ FramesAccounted
      /\ page_table[p] # NoFrame
  BY DEF SessionInv, Resident
<1>1. /\ page_table[p] \in Frames
      /\ \A q \in PageIds : page_table[q] = page_table[p] => q = p
  BY <1>0 DEF TypeOK, HeadersMatch, Resident
<1>2. page_table[p] \notin ToSet(free_list)
  BY <1>0, <1>1 DEF FramesAccounted
<1> QED
  BY <1>0, <1>1, <1>2 DEF TypeOK, HeadersMatch, PinsMatch, IdsGivenOut,
                          FramesAccounted, Resident

\* A step that moves no page, and changes only page p, its frame f and its
\* place in the file, keeps the invariant if what it leaves of p is right.
LEMMA StepOnOnePage ==
  ASSUME SessionInv, NEW p \in PageIds, Resident(p),
         NEW f \in Frames, f = page_table[p],
         page_table' = page_table, free_list' = free_list,
         next_page_id' = next_page_id,
         frames' \in [Frames -> Page], frames'[f].page_id = p,
         \A g \in Frames \ {f} : frames'[g] = frames[g],
         pin_count' \in [Frames -> Nat], pin_count'[f] = holds'[p],
         \A g \in Frames \ {f} : pin_count'[g] = pin_count[g],
         is_dirty' \in [Frames -> BOOLEAN],
         \A g \in Frames \ {f} : is_dirty'[g] = is_dirty[g],
         lru_list' \in Seq(Frames), IsInjective(lru_list'),
         ToSet(lru_list') = IF pin_count'[f] = 0 THEN ToSet(lru_list) \cup {f}
                            ELSE ToSet(lru_list) \ {f},
         disk' \in [PageIds -> Page],
         \A q \in PageIds \ {p} : disk'[q] = disk[q],
         file_pages' \in 0 .. MaxPages,
         file_pages <= file_pages', file_pages' <= next_page_id,
         holds' \in [PageIds -> Nat],
         \A q \in PageIds \ {p} : holds'[q] = holds[q],
         handle' \in [PageIds -> Frames \cup {NoFrame}],
         \A q \in PageIds \ {p} : handle'[q] = handle[q],
         holds'[p] > 0 => handle'[p] = f,
         unsaved' \in SUBSET PageIds, live' \in SUBSET PageIds,
         unsaved' \ {p} = unsaved \ {p}, live' \ {p} = live \ {p},
         p \in unsaved' => holds'[p] > 0 /\ p \in live',
         p \in live' => Safe(p)'
  PROVE  SessionInv'
<1>0. /\ TypeOK /\ HeadersMatch /\ PinsMatch /\ UnsavedHeld /\ IdsGivenOut
      /\ PinnedStay /\ FramesAccounted /\ DirtyIsFound /\ LivePagesSafe
      /\ NoFrame \notin Frames
  BY NoFrameIsNone DEF SessionInv
<1>1. /\ f \notin ToSet(free_list)
      /\ f \in ToSet(lru_list) <=> pin_count[f] = 0
      /\ \A q \in PageIds : page_table[q] = f => q = p
      /\ p < next_page_id /\ frames[f].page_id = p
  BY ResidentPage
<1>2. page_table \in [PageIds -> Frames \cup {NoFrame}]
  BY <1>0 DEF TypeOK
<1>a. TypeOK'
  BY <1>0 DEF TypeOK
<1>b. HeadersMatch'
  <2>1. ASSUME NEW q \in PageIds, page_table[q] # NoFrame
        PROVE  frames'[page_table[q]].page_id = q
    <3>1. CASE page_table[q] = f
      BY <1>1, <3>1
    <3>2. CASE page_table[q] # f
      <4>1. frames[page_table[q]].page_id = q /\ page_table[q] \in Frames
        BY <1>0, <1>2, <2>1 DEF HeadersMatch, Resident
      <4> QED  BY <3>2, <4>1
    <3> QED  BY <3>1, <3>2
  <2> QED  BY <2>1 DEF HeadersMatch, Resident
<1>c. PinsMatch'
  <2>1. ASSUME NEW q \in PageIds
        PROVE  IF page_table[q] # NoFrame
               THEN pin_count'[page_table[q]] = holds'[q] ELSE holds'[q] = 0
    <3>1. CASE q = p
      BY <1>0, <3>1
    <3>2. CASE q # p
      <4>1. page_table[q] \in Frames \cup {NoFrame} /\ page_table[q] # f
        BY <1>1, <1>2, <3>2
      <4>2. IF page_table[q] # NoFrame
            THEN pin_count[page_table[q]] = holds[q] ELSE holds[q] = 0
        BY <1>0 DEF PinsMatch, Resident
      <4> QED  BY <3>2, <4>1, <4>2
    <3> QED  BY <3>1, <3>2
  <2> QED  BY <2>1 DEF PinsMatch, Resident
<1>d. UnsavedHeld'
  BY <1>0 DEF UnsavedHeld, TypeOK
<1>e. IdsGivenOut'
  BY <1>0 DEF IdsGivenOut, Resident
<1>f. PinnedStay'
  <2>1. ASSUME NEW q \in PageIds, holds'[q] > 0
        PROVE  /\ page_table[q] # NoFrame /\ page_table[q] = handle'[q]
               /\ frames'[handle'[q]].page_id = q
               /\ pin_count'[handle'[q]] = holds'[q]
    <3>1. CASE q = p
      BY <1>0, <2>1, <3>1
    <3>2. CASE q # p
      <4>1. /\ page_table[q] # NoFrame /\ page_table[q] = handle[q]
            /\ frames[handle[q]].page_id = q /\ pin_count[handle[q]] = holds[q]
        BY <1>0, <2>1, <3>2 DEF PinnedStay, Resident
      <4>2. handle[q] \in Frames \ {f}
        BY <1>1, <1>2, <3>2, <4>1
      <4> QED  BY <3>2, <4>1, <4>2
    <3> QED  BY <3>1, <3>2
  <2> QED  BY <2>1 DEF PinnedStay, Resident
<1>g. ASSUME NEW g \in Frames, Mapped(g)  PROVE  Mapped(g)'
  BY <1>1, <1>g DEF Mapped
<1>h. FramesAccounted'
  <2>1. ToSet(free_list') = ToSet(free_list) /\ IsInjective(free_list')
    BY <1>0 DEF FramesAccounted
  <2>2. ASSUME NEW g \in Frames, g \in ToSet(free_list')
        PROVE  /\ g \notin ToSet(lru_list')
               /\ \A q \in PageIds : page_table'[q] # g
    BY <1>0, <1>1, <2>1, <2>2 DEF FramesAccounted
  <2>3. ASSUME NEW g \in Frames, g \notin ToSet(free_list')
        PROVE  Mapped(g)' /\ (g \in ToSet(lru_list') <=> pin_count'[g] = 0)
    <3>1. Mapped(g) /\ (g \in ToSet(lru_list) <=> pin_count[g] = 0)
      BY <1>0, <2>1, <2>3 DEF FramesAccounted
    <3>2. CASE g = f
      BY <1>g, <3>1, <3>2
    <3>3. CASE g # f
      <4>1. pin_count'[g] = pin_count[g]
        BY <3>3
      <4>2. g \in ToSet(lru_list') <=> g \in ToSet(lru_list)
        BY <3>3
      <4> QED  BY <1>g, <3>1, <4>1, <4>2
    <3> QED  BY <3>2, <3>3
  <2> QED  BY <2>1, <2>2, <2>3 DEF FramesAccounted
<1>i. DirtyIsFound'
  <2>1. Mapped(f)
    BY <1>1 DEF Mapped
  <2> QED  BY <1>0, <1>g, <2>1 DEF DirtyIsFound
<1>j. LivePagesSafe'
  <2>1. ASSUME NEW q \in live'  PROVE  q < next_page_id' /\ Safe(q)'
    <3>1. CASE q = p
      BY <1>1, <2>1, <3>1
    <3>2. CASE q # p
      <4>1. /\ q \in live /\ q \in PageIds /\ q < next_page_id /\ Safe(q)
            /\ page_table[q] # f
        BY <1>0, <1>1, <2>1, <3>2 DEF LivePagesSafe
      <4>2. /\ disk'[q] = disk[q]
            /\ q < file_pages => q < file_pages'
            /\ q \in unsaved => q \in unsaved'
        BY <1>0, <3>2, <4>1 DEF TypeOK, PageIds
      <4>3. page_table[q] # NoFrame =>
              /\ frames'[page_table[q]] = frames[page_table[q]]
              /\ is_dirty'[page_table[q]] = is_dirty[page_table[q]]
        BY <1>2, <4>1
      <4> QED  BY <4>1, <4>2, <4>3 DEF Safe, Resident
    <3> QED  BY <3>1, <3>2
  <2> QED  BY <2>1 DEF LivePagesSafe
<1> QED  BY <1>a, <1>b, <1>c, <1>d, <1>e, <1>f, <1>h, <1>i, <1>j DEF SessionInv

-----------------------------------------------------------------------------
(***************************************************************************)
(* One lemma per operation.                                                *)
(***************************************************************************)
\* A call that changes nothing keeps the invariant.
LEMMA StutterKeepsInv ==
  ASSUME SessionInv, UNCHANGED vars
  PROVE  SessionInv'
BY DEF SessionInv, vars, poolVars, metaVars, diskVars, clientVars, TypeOK,
       HeadersMatch, PinsMatch, UnsavedHeld, IdsGivenOut, PinnedStay,
       FramesAccounted, DirtyIsFound, LivePagesSafe, Safe, Mapped, Resident

\* fetchPage, page in RAM or not.
LEMMA FetchKeepsInv ==
  ASSUME SessionInv, ProbeEmptyFile = FALSE, NEW p \in PageIds, Fetch(p)
  PROVE  SessionInv'
<1>0. TypeOK /\ PinsMatch /\ LivePagesSafe /\ UnsavedHeld /\ FramesAccounted
      /\ IdsGivenOut /\ PinnedStay
  BY DEF SessionInv
<1>1. p \in live /\ p < next_page_id /\ Safe(p)
  BY <1>0 DEF Fetch, Fetchable, LivePagesSafe
<1>2. CASE FetchHit(p)
  <2>1. Resident(p)
    BY <1>2 DEF FetchHit
  <2>2. PICK f \in Frames : f = page_table[p]
    BY <2>1, ResidentPage
  <2>3. /\ frames[f] \in Page /\ frames[f].page_id = p
        /\ pin_count[f] = holds[p] /\ holds[p] \in Nat
    BY <2>1, <2>2, ResidentPage
  <2>4. /\ page_table' = page_table /\ free_list' = free_list
        /\ next_page_id' = next_page_id /\ frames' = frames
        /\ is_dirty' = is_dirty /\ disk' = disk /\ file_pages' = file_pages
        /\ unsaved' = unsaved /\ live' = live
        /\ pin_count' = [pin_count EXCEPT ![f] = @ + 1]
        /\ lru_list' = LruPin(lru_list, f)
        /\ holds' = [holds EXCEPT ![p] = @ + 1]
        /\ handle' = [handle EXCEPT ![p] = f]
    BY <1>2, <2>2 DEF Fetch, FetchHit, diskVars
  <2>5. /\ lru_list' \in Seq(Frames) /\ IsInjective(lru_list')
        /\ ToSet(lru_list') = ToSet(lru_list) \ {f}
    BY <1>0, <2>4, PinRemoves DEF TypeOK, FramesAccounted
  <2>6. /\ pin_count' \in [Frames -> Nat] /\ pin_count'[f] = holds'[p]
        /\ \A g \in Frames \ {f} : pin_count'[g] = pin_count[g]
        /\ holds' \in [PageIds -> Nat] /\ holds'[p] > 0
        /\ \A q \in PageIds \ {p} : holds'[q] = holds[q]
        /\ handle' \in [PageIds -> Frames \cup {NoFrame}] /\ handle'[p] = f
        /\ \A q \in PageIds \ {p} : handle'[q] = handle[q]
    BY <1>0, <2>3, <2>4 DEF TypeOK
  <2>7. pin_count'[f] # 0
    BY <2>6
  <2>8. Safe(p)'
    BY <1>1, <2>4 DEF Safe, Resident
  <2>9. /\ frames' \in [Frames -> Page] /\ is_dirty' \in [Frames -> BOOLEAN]
        /\ disk' \in [PageIds -> Page] /\ file_pages' \in 0 .. MaxPages
        /\ file_pages <= file_pages' /\ file_pages' <= next_page_id
        /\ unsaved' \in SUBSET PageIds /\ live' \in SUBSET PageIds
    BY <1>0, <2>4 DEF TypeOK, IdsGivenOut
  <2> QED
    BY <1>1, <2>1, <2>2, <2>3, <2>4, <2>5, <2>6, <2>7, <2>8, <2>9, StepOnOnePage
<1>3. CASE FetchMiss(p)
  <2>1. /\ ~ Resident(p) /\ Claim /\ Install(p, disk'[p])
        /\ lru_list' = LruPin(LruAfterClaim, ClaimedFrame)
        /\ next_page_id' = next_page_id
    BY <1>3 DEF FetchMiss
  <2>2. holds[p] = 0
    BY <1>0, <2>1 DEF PinsMatch
  <2>3. p < file_pages /\ disk[p].page_id = p
    BY <1>1, <2>1 DEF Safe
  <2>4. PICK f \in Frames : f = ClaimedFrame
    BY <2>1, ClaimedFrameIsFree
  <2>5. page_table[p] # f
    BY <2>1, NoFrameIsNone DEF Resident
  <2>6. /\ disk'[p] = disk[p] /\ disk[p] \in Page /\ p < file_pages'
    <3>1. /\ file_pages <= file_pages' /\ file_pages' \in 0 .. MaxPages
          /\ \A q \in PageIds : page_table[q] # f => disk'[q] = disk[q]
      BY <2>1, <2>4, ClaimKeepsFile
    <3> QED  BY <1>0, <2>3, <2>5, <3>1 DEF TypeOK, PageIds
  <2>7. /\ lru_list' \in Seq(Frames) /\ IsInjective(lru_list')
        /\ ToSet(lru_list') = ToSet(lru_list) \ {ClaimedFrame}
    <3>1. /\ LruAfterClaim \in Seq(Frames) /\ IsInjective(LruAfterClaim)
          /\ ToSet(LruAfterClaim) = ToSet(lru_list) \ {ClaimedFrame}
      BY <2>1, ClaimedFrameIsFree
    <3> QED  BY <2>1, <3>1, PinRemoves
  <2>8. /\ holds' = [holds EXCEPT ![p] = 1]
        /\ handle' = [handle EXCEPT ![p] = ClaimedFrame]
        /\ unsaved' = unsaved /\ live' = live
    <3>1. page_table'[p] = ClaimedFrame
      <4>1. page_table' = [TableAfterClaim EXCEPT ![p] = ClaimedFrame]
        BY <2>1 DEF Install
      <4>2. p \in DOMAIN TableAfterClaim
        BY <2>1, ClaimedFrameIsFree
      <4> QED  BY <4>1, <4>2
    <3> QED  BY <1>0, <2>2, <3>1 DEF Fetch, TypeOK
  <2>9. next_page_id' \in 0 .. MaxPages /\ next_page_id <= next_page_id'
        /\ p < next_page_id'
    BY <1>0, <1>1, <2>1 DEF TypeOK
  <2>10. PICK page \in Page : page = disk'[p] /\ page.page_id = p
    BY <2>3, <2>6
  <2>11. Install(p, page)
    BY <2>1, <2>10
  <2> QED  BY <2>1, <2>6, <2>7, <2>8, <2>9, <2>10, <2>11, InstallKeepsInv
<1> QED  BY <1>2, <1>3 DEF Fetch

\* newPage.
LEMMA NewKeepsInv ==
  ASSUME SessionInv, New
  PROVE  SessionInv'
<1>0. /\ TypeOK /\ PinsMatch /\ LivePagesSafe /\ IdsGivenOut
      /\ MaxPages \in Nat
  BY MaxPagesAssumption DEF SessionInv
<1> DEFINE page == [page_id |-> next_page_id, body |-> ZeroBody]
<1>1. /\ Claim /\ Install(next_page_id, page)
      /\ lru_list' = LruAfterClaim
      /\ next_page_id < MaxPages /\ next_page_id' = next_page_id + 1
      /\ holds' = [holds EXCEPT ![next_page_id] = 1]
      /\ handle' = [handle EXCEPT ![next_page_id] = ClaimedFrame]
      /\ unsaved' = unsaved /\ live' = live
  BY DEF New, NewPage
<1>2. PICK p \in PageIds : p = next_page_id
  BY <1>0, <1>1 DEF TypeOK, PageIds
<1>3. ~ Resident(p) /\ p \notin live
  BY <1>0, <1>2 DEF IdsGivenOut, LivePagesSafe, PageIds
<1>4. page \in Page /\ page.page_id = p
  BY <1>2 DEF Page
<1>5. /\ lru_list' \in Seq(Frames) /\ IsInjective(lru_list')
      /\ ToSet(lru_list') = ToSet(lru_list) \ {ClaimedFrame}
  BY <1>1, ClaimedFrameIsFree
<1>6. /\ next_page_id' \in 0 .. MaxPages /\ next_page_id <= next_page_id'
      /\ p < next_page_id'
  BY <1>0, <1>1, <1>2 DEF TypeOK
<1> HIDE DEF page
<1> QED  BY <1>1, <1>2, <1>3, <1>4, <1>5, <1>6, InstallKeepsInv

\* A user's write lands in the frame of the page, because pinned pages stay.
LEMMA WriteKeepsInv ==
  ASSUME SessionInv, NEW p \in PageIds, NEW b \in Body, Write(p, b)
  PROVE  SessionInv'
<1>0. /\ TypeOK /\ PinsMatch /\ IdsGivenOut /\ PinnedStay /\ FramesAccounted
      /\ NoFrame \notin Frames
  BY NoFrameIsNone DEF SessionInv
<1>1. Resident(p) /\ handle[p] = page_table[p] /\ holds[p] > 0
  BY <1>0 DEF Write, PinnedStay
<1>2. PICK f \in Frames : f = page_table[p]
  BY <1>1, ResidentPage
<1>3. /\ frames[f] \in Page /\ frames[f].page_id = p
      /\ pin_count[f] = holds[p] /\ f \notin ToSet(lru_list)
  BY <1>1, <1>2, ResidentPage
<1>4. /\ page_table' = page_table /\ free_list' = free_list
      /\ next_page_id' = next_page_id /\ pin_count' = pin_count
      /\ is_dirty' = is_dirty /\ lru_list' = lru_list
      /\ disk' = disk /\ file_pages' = file_pages
      /\ holds' = holds /\ handle' = handle
      /\ unsaved' = unsaved \cup {p} /\ live' = live \cup {p}
      /\ frames' = [frames EXCEPT ![f].body = b]
  BY <1>1, <1>2 DEF Write, diskVars
<1>5. /\ frames' \in [Frames -> Page] /\ frames'[f].page_id = p
      /\ \A g \in Frames \ {f} : frames'[g] = frames[g]
  BY <1>0, <1>3, <1>4 DEF TypeOK, Page
<1>6. Safe(p)'
  BY <1>1, <1>4 DEF Safe, Resident
<1>7. ToSet(lru_list') = IF pin_count'[f] = 0 THEN ToSet(lru_list) \cup {f}
                         ELSE ToSet(lru_list) \ {f}
  BY <1>0, <1>1, <1>3, <1>4 DEF TypeOK
<1>8. /\ pin_count' \in [Frames -> Nat] /\ is_dirty' \in [Frames -> BOOLEAN]
      /\ lru_list' \in Seq(Frames) /\ IsInjective(lru_list')
      /\ disk' \in [PageIds -> Page] /\ file_pages' \in 0 .. MaxPages
      /\ file_pages <= file_pages' /\ file_pages' <= next_page_id
      /\ holds' \in [PageIds -> Nat]
      /\ handle' \in [PageIds -> Frames \cup {NoFrame}]
      /\ unsaved' \in SUBSET PageIds /\ live' \in SUBSET PageIds
  BY <1>0, <1>4 DEF TypeOK, IdsGivenOut, FramesAccounted
<1>9. /\ pin_count'[f] = holds'[p] /\ handle'[p] = f
      /\ p \in unsaved' => holds'[p] > 0 /\ p \in live'
      /\ unsaved' \ {p} = unsaved \ {p} /\ live' \ {p} = live \ {p}
  BY <1>1, <1>2, <1>3, <1>4
<1> QED  BY <1>1, <1>2, <1>4, <1>5, <1>6, <1>7, <1>8, <1>9, StepOnOnePage

\* unpinPage by a user who holds the page.
LEMMA ReleaseKeepsInv ==
  ASSUME SessionInv, NEW p \in PageIds, NEW dirty \in BOOLEAN, Release(p, dirty)
  PROVE  SessionInv'
<1>0. /\ TypeOK /\ PinsMatch /\ IdsGivenOut /\ PinnedStay /\ FramesAccounted
      /\ UnsavedHeld /\ LivePagesSafe /\ NoFrame \notin Frames
  BY NoFrameIsNone DEF SessionInv
<1>1. /\ Resident(p) /\ handle[p] = page_table[p] /\ holds[p] > 0
      /\ holds[p] \in Nat
  BY <1>0 DEF Release, PinnedStay, TypeOK
<1>2. PICK f \in Frames : f = page_table[p]
  BY <1>1, ResidentPage
<1>3. /\ frames[f] \in Page /\ frames[f].page_id = p
      /\ pin_count[f] = holds[p] /\ f \notin ToSet(lru_list)
      /\ is_dirty[f] \in BOOLEAN
  BY <1>1, <1>2, ResidentPage
<1>4. /\ page_table' = page_table /\ free_list' = free_list
      /\ next_page_id' = next_page_id /\ frames' = frames
      /\ disk' = disk /\ file_pages' = file_pages
      /\ live' = live
      /\ is_dirty' = [is_dirty EXCEPT ![f] = @ \/ dirty]
      /\ pin_count' = [pin_count EXCEPT ![f] = @ - 1]
      /\ lru_list' = IF pin_count[f] = 1 THEN LruUnpin(lru_list, f, PoolSize)
                     ELSE lru_list
  BY <1>1, <1>2, <1>3 DEF Release, UnpinPage, UnpinAbsent, UnpinIdle,
                          UnpinPinned, MarkDirty, diskVars
<1>5. /\ holds' = [holds EXCEPT ![p] = @ - 1]
      /\ handle' = [handle EXCEPT ![p] = IF holds[p] = 1 THEN NoFrame ELSE @]
      /\ unsaved' = IF dirty THEN unsaved \ {p} ELSE unsaved
      /\ IF dirty THEN p \in live ELSE p \notin unsaved \/ holds[p] > 1
  BY DEF Release
<1>6. /\ lru_list' \in Seq(Frames) /\ IsInjective(lru_list')
      /\ ToSet(lru_list') = IF pin_count[f] = 1 THEN ToSet(lru_list) \cup {f}
                            ELSE ToSet(lru_list) \ {f}
  <2>1. /\ LruUnpin(lru_list, f, PoolSize) \in Seq(Frames)
        /\ IsInjective(LruUnpin(lru_list, f, PoolSize))
        /\ ToSet(LruUnpin(lru_list, f, PoolSize)) = ToSet(lru_list) \cup {f}
    BY <1>0, PoolSizeAssumption, UnpinAdds DEF Frames, TypeOK, FramesAccounted
  <2>2. lru_list \in Seq(Frames) /\ IsInjective(lru_list)
    BY <1>0 DEF TypeOK, FramesAccounted
  <2>3. ToSet(lru_list) = ToSet(lru_list) \ {f}
    BY <1>3
  <2>4. lru_list' = IF pin_count[f] = 1 THEN LruUnpin(lru_list, f, PoolSize)
                    ELSE lru_list
    BY <1>4
  <2> QED  BY <2>1, <2>2, <2>3, <2>4, Zenon
<1>7. /\ pin_count' \in [Frames -> Nat] /\ pin_count'[f] = holds'[p]
      /\ \A g \in Frames \ {f} : pin_count'[g] = pin_count[g]
      /\ pin_count'[f] = 0 <=> pin_count[f] = 1
      /\ holds' \in [PageIds -> Nat] /\ holds'[p] = holds[p] - 1
      /\ \A q \in PageIds \ {p} : holds'[q] = holds[q]
  BY <1>0, <1>1, <1>3, <1>4, <1>5 DEF TypeOK
<1>8. /\ handle' \in [PageIds -> Frames \cup {NoFrame}]
      /\ holds'[p] > 0 => handle'[p] = f
      /\ \A q \in PageIds \ {p} : handle'[q] = handle[q]
  BY <1>0, <1>1, <1>2, <1>5, <1>7 DEF TypeOK
<1>9. /\ is_dirty' \in [Frames -> BOOLEAN]
      /\ is_dirty'[f] = (is_dirty[f] \/ dirty)
      /\ \A g \in Frames \ {f} : is_dirty'[g] = is_dirty[g]
  BY <1>0, <1>3, <1>4 DEF TypeOK
<1>10. p \in unsaved' => holds'[p] > 0 /\ p \in live'
  BY <1>0, <1>1, <1>4, <1>5, <1>7 DEF UnsavedHeld
<1>11. ASSUME p \in live'  PROVE  Safe(p)'
  <2>1. \/ is_dirty[f] \/ p \in unsaved
        \/ p < file_pages /\ disk[p] = frames[f]
    BY <1>0, <1>1, <1>2, <1>4, <1>11 DEF LivePagesSafe, Safe
  <2>2. Resident(p)' /\ page_table'[p] = f
    BY <1>1, <1>2, <1>4 DEF Resident
  <2>3. CASE dirty
    BY <1>9, <2>2, <2>3 DEF Safe
  <2>4. CASE ~ dirty
    BY <1>4, <1>5, <1>9, <2>1, <2>2, <2>4 DEF Safe
  <2> QED  BY <2>3, <2>4
<1>12. /\ frames' \in [Frames -> Page]
       /\ disk' \in [PageIds -> Page] /\ file_pages' \in 0 .. MaxPages
       /\ file_pages <= file_pages' /\ file_pages' <= next_page_id
       /\ unsaved' \in SUBSET PageIds /\ live' \in SUBSET PageIds
       /\ unsaved' \ {p} = unsaved \ {p} /\ live' \ {p} = live \ {p}
  BY <1>0, <1>4, <1>5 DEF TypeOK, IdsGivenOut
<1>13. ToSet(lru_list') = IF pin_count'[f] = 0 THEN ToSet(lru_list) \cup {f}
                          ELSE ToSet(lru_list) \ {f}
  BY <1>6, <1>7
<1>14. frames'[f].page_id = p /\ \A g \in Frames \ {f} : frames'[g] = frames[g]
  BY <1>3, <1>4
<1>15. \A q \in PageIds \ {p} : disk'[q] = disk[q]
  BY <1>4
<1>16. lru_list' \in Seq(Frames) /\ IsInjective(lru_list')
  BY <1>6
<1>17. /\ page_table' = page_table /\ free_list' = free_list
       /\ next_page_id' = next_page_id
  BY <1>4
<1> QED  BY <1>1, <1>2, <1>7, <1>8, <1>9, <1>10, <1>11, <1>12, <1>13, <1>14,
            <1>15, <1>16, <1>17, StepOnOnePage

\* unpinPage by a user who does not hold the page: at most a flag changes.
LEMMA ReleaseUnheldKeepsInv ==
  ASSUME SessionInv, NEW p \in PageIds, NEW dirty \in BOOLEAN,
         ReleaseUnheld(p, dirty)
  PROVE  SessionInv'
<1>0. /\ TypeOK /\ IdsGivenOut /\ FramesAccounted /\ UnsavedHeld
      /\ LivePagesSafe
  BY DEF SessionInv
<1>1. CASE ~ Resident(p)
  <2>1. UNCHANGED vars
    BY <1>1 DEF ReleaseUnheld, UnpinPage, UnpinAbsent, UnpinIdle, UnpinPinned,
                vars
  <2> QED  BY <2>1, StutterKeepsInv
<1>2. CASE Resident(p)
  <2>1. PICK f \in Frames : f = page_table[p]
    BY <1>2, ResidentPage
  <2>2. /\ frames[f] \in Page /\ frames[f].page_id = p
        /\ pin_count[f] = 0 /\ holds[p] = 0 /\ f \in ToSet(lru_list)
        /\ is_dirty[f] \in BOOLEAN
    BY <1>2, <2>1, ResidentPage DEF ReleaseUnheld
  <2>3. /\ page_table' = page_table /\ free_list' = free_list
        /\ next_page_id' = next_page_id /\ frames' = frames
        /\ disk' = disk /\ file_pages' = file_pages
        /\ pin_count' = pin_count /\ lru_list' = lru_list
        /\ holds' = holds /\ handle' = handle
        /\ unsaved' = unsaved /\ live' = live
        /\ is_dirty' = [is_dirty EXCEPT ![f] = @ \/ dirty]
    BY <1>2, <2>1, <2>2
       DEF ReleaseUnheld, UnpinPage, UnpinAbsent, UnpinIdle, UnpinPinned,
           MarkDirty, diskVars, clientVars
  <2>4. /\ is_dirty' \in [Frames -> BOOLEAN]
        /\ is_dirty'[f] = (is_dirty[f] \/ dirty)
        /\ \A g \in Frames \ {f} : is_dirty'[g] = is_dirty[g]
    BY <1>0, <2>2, <2>3 DEF TypeOK
  <2>5. p \in live' => Safe(p)'
    BY <1>0, <1>2, <2>1, <2>3, <2>4 DEF LivePagesSafe, Safe, Resident
  <2>6. p \in unsaved' => holds'[p] > 0 /\ p \in live'
    BY <1>0, <2>2, <2>3 DEF UnsavedHeld
  <2>7. ToSet(lru_list') = IF pin_count'[f] = 0 THEN ToSet(lru_list) \cup {f}
                           ELSE ToSet(lru_list) \ {f}
    BY <2>2, <2>3
  <2>8. lru_list' \in Seq(Frames) /\ IsInjective(lru_list')
    BY <1>0, <2>3 DEF TypeOK, FramesAccounted
  <2>9. /\ frames' \in [Frames -> Page] /\ frames'[f].page_id = p
        /\ \A g \in Frames \ {f} : frames'[g] = frames[g]
    BY <1>0, <2>2, <2>3 DEF TypeOK
  <2>10. /\ pin_count' \in [Frames -> Nat] /\ pin_count'[f] = holds'[p]
         /\ \A g \in Frames \ {f} : pin_count'[g] = pin_count[g]
         /\ holds' \in [PageIds -> Nat]
         /\ \A q \in PageIds \ {p} : holds'[q] = holds[q]
    BY <1>0, <2>2, <2>3 DEF TypeOK
  <2>11. /\ handle' \in [PageIds -> Frames \cup {NoFrame}]
         /\ holds'[p] > 0 => handle'[p] = f
         /\ \A q \in PageIds \ {p} : handle'[q] = handle[q]
    BY <1>0, <2>2, <2>3 DEF TypeOK
  <2>12. /\ disk' \in [PageIds -> Page]
         /\ \A q \in PageIds \ {p} : disk'[q] = disk[q]
         /\ file_pages' \in 0 .. MaxPages
         /\ file_pages <= file_pages' /\ file_pages' <= next_page_id
    BY <1>0, <2>3 DEF TypeOK, IdsGivenOut
  <2>13. /\ unsaved' \in SUBSET PageIds /\ live' \in SUBSET PageIds
         /\ unsaved' \ {p} = unsaved \ {p} /\ live' \ {p} = live \ {p}
    BY <1>0, <2>3 DEF TypeOK
  <2>14. /\ page_table' = page_table /\ free_list' = free_list
         /\ next_page_id' = next_page_id
    BY <2>3
  <2> QED  BY <1>2, <2>1, <2>4, <2>5, <2>6, <2>7, <2>8, <2>9, <2>10, <2>11,
              <2>12, <2>13, <2>14, StepOnOnePage
<1> QED  BY <1>1, <1>2

\* flushPage.
LEMMA FlushKeepsInv ==
  ASSUME SessionInv, NEW p \in PageIds, Flush(p)
  PROVE  SessionInv'
<1>0. /\ TypeOK /\ IdsGivenOut /\ FramesAccounted /\ UnsavedHeld /\ PinnedStay
      /\ MaxPages \in Nat
  BY MaxPagesAssumption DEF SessionInv
<1>1. Resident(p)
  BY DEF Flush, FlushPage
<1>2. PICK f \in Frames : f = page_table[p]
  BY <1>1, ResidentPage
<1>3. /\ frames[f] \in Page /\ frames[f].page_id = p
      /\ pin_count[f] = holds[p] /\ p < next_page_id
      /\ f \in ToSet(lru_list) <=> pin_count[f] = 0
  BY <1>1, <1>2, ResidentPage
<1>4. /\ page_table' = page_table /\ free_list' = free_list
      /\ next_page_id' = next_page_id /\ frames' = frames
      /\ pin_count' = pin_count /\ lru_list' = lru_list
      /\ holds' = holds /\ handle' = handle
      /\ unsaved' = unsaved /\ live' = live
      /\ is_dirty' = [is_dirty EXCEPT ![f] = FALSE]
      /\ disk' = [disk EXCEPT ![p] = frames[f]]
      /\ file_pages' = IF p < file_pages THEN file_pages ELSE p + 1
  BY <1>2 DEF Flush, FlushPage, WritePage, clientVars
<1>5. /\ is_dirty' \in [Frames -> BOOLEAN]
      /\ \A g \in Frames \ {f} : is_dirty'[g] = is_dirty[g]
      /\ disk' \in [PageIds -> Page] /\ disk'[p] = frames[f]
      /\ \A q \in PageIds \ {p} : disk'[q] = disk[q]
  BY <1>0, <1>3, <1>4 DEF TypeOK
<1>6. /\ file_pages' \in 0 .. MaxPages /\ p < file_pages'
      /\ file_pages <= file_pages' /\ file_pages' <= next_page_id
  BY <1>0, <1>3, <1>4 DEF TypeOK, IdsGivenOut, PageIds
<1>7. Safe(p)'
  BY <1>1, <1>2, <1>4, <1>5, <1>6 DEF Safe, Resident
<1>8. ToSet(lru_list') = IF pin_count'[f] = 0 THEN ToSet(lru_list) \cup {f}
                         ELSE ToSet(lru_list) \ {f}
  BY <1>3, <1>4
<1>9. /\ frames' \in [Frames -> Page] /\ pin_count' \in [Frames -> Nat]
      /\ lru_list' \in Seq(Frames) /\ IsInjective(lru_list')
      /\ holds' \in [PageIds -> Nat]
      /\ handle' \in [PageIds -> Frames \cup {NoFrame}]
      /\ unsaved' \in SUBSET PageIds /\ live' \in SUBSET PageIds
  BY <1>0, <1>4 DEF TypeOK, FramesAccounted
<1>10. p \in unsaved' => holds'[p] > 0 /\ p \in live'
  BY <1>0, <1>4 DEF UnsavedHeld
<1>11. holds'[p] > 0 => handle'[p] = f
  BY <1>0, <1>2, <1>4 DEF PinnedStay
<1> QED  BY <1>1, <1>2, <1>3, <1>4, <1>5, <1>6, <1>7, <1>8, <1>9, <1>10,
            <1>11, StepOnOnePage

\* deletePage of a page nobody holds.
LEMMA DeleteKeepsInv ==
  ASSUME SessionInv, NEW p \in PageIds, Delete(p)
  PROVE  SessionInv'
<1>0. /\ TypeOK /\ HeadersMatch /\ PinsMatch /\ UnsavedHeld /\ IdsGivenOut
      /\ PinnedStay /\ FramesAccounted /\ DirtyIsFound /\ LivePagesSafe
      /\ NoFrame \notin Frames
  BY NoFrameIsNone DEF SessionInv
<1>1. live' = live \ {p} /\ UNCHANGED <<holds, handle, unsaved>>
  BY DEF Delete
<1>2. CASE DeleteAbsent(p)
  <2>1. UNCHANGED poolVars /\ ~ Resident(p)
    BY <1>2 DEF DeleteAbsent
  <2>2. p \notin unsaved
    BY <1>0, <2>1 DEF PinsMatch, UnsavedHeld, TypeOK
  <2> QED
    BY <1>0, <1>1, <2>1, <2>2
       DEF SessionInv, poolVars, metaVars, diskVars, TypeOK, HeadersMatch,
           PinsMatch, UnsavedHeld, IdsGivenOut, PinnedStay, FramesAccounted,
           DirtyIsFound, LivePagesSafe, Safe, Mapped, Resident
<1>3. CASE DeleteResident(p)
  <2>1. Resident(p) /\ page_table[p] # NoFrame
    BY <1>3 DEF DeleteResident, Resident
  <2>2. PICK f \in Frames : f = page_table[p]
    BY <2>1, ResidentPage
  <2>3. /\ frames[f].page_id = p /\ pin_count[f] = 0 /\ holds[p] = 0
        /\ f \notin ToSet(free_list)
        /\ \A q \in PageIds : page_table[q] = f => q = p
    BY <1>3, <2>1, <2>2, ResidentPage DEF DeleteResident
  <2>4. /\ page_table' = [page_table EXCEPT ![p] = NoFrame]
        /\ lru_list' = LruPin(lru_list, f)
        /\ is_dirty' = [is_dirty EXCEPT ![f] = FALSE]
        /\ free_list' = Append(free_list, f)
        /\ frames' = frames /\ pin_count' = pin_count
        /\ next_page_id' = next_page_id
        /\ disk' = disk /\ file_pages' = file_pages
        /\ holds' = holds /\ handle' = handle /\ unsaved' = unsaved
        /\ live' = live \ {p}
    BY <1>1, <1>3, <2>2 DEF DeleteResident, FreeFrame, diskVars
  <2>5. /\ lru_list' \in Seq(Frames) /\ IsInjective(lru_list')
        /\ ToSet(lru_list') = ToSet(lru_list) \ {f}
        /\ free_list' \in Seq(Frames) /\ IsInjective(free_list')
        /\ ToSet(free_list') = ToSet(free_list) \cup {f}
    BY <1>0, <2>3, <2>4, PinRemoves, AppendNew DEF TypeOK, FramesAccounted
  <2>6. /\ page_table' \in [PageIds -> Frames \cup {NoFrame}]
        /\ page_table'[p] = NoFrame
        /\ \A q \in PageIds \ {p} : page_table'[q] = page_table[q]
        /\ is_dirty' \in [Frames -> BOOLEAN] /\ is_dirty'[f] = FALSE
        /\ \A g \in Frames \ {f} : is_dirty'[g] = is_dirty[g]
    BY <1>0, <2>4 DEF TypeOK
  <2>7. p \notin unsaved
    BY <1>0, <2>3 DEF UnsavedHeld, TypeOK
  <2>a. TypeOK'
    BY <1>0, <2>4, <2>5, <2>6 DEF TypeOK
  <2>b. HeadersMatch'
    BY <1>0, <2>4, <2>6 DEF HeadersMatch, Resident
  <2>c. PinsMatch'
    BY <1>0, <2>3, <2>4, <2>6 DEF PinsMatch, Resident
  <2>d. UnsavedHeld'
    BY <1>0, <2>4, <2>7 DEF UnsavedHeld
  <2>e. IdsGivenOut'
    BY <1>0, <2>4, <2>6 DEF IdsGivenOut, Resident
  <2>f. PinnedStay'
    BY <1>0, <2>3, <2>4, <2>6 DEF PinnedStay, Resident
  <2>g. ASSUME NEW g \in Frames, g # f, Mapped(g)  PROVE  Mapped(g)'
    <3>1. frames[g].page_id \in PageIds /\ page_table[frames[g].page_id] = g
      BY <1>0, <2>g DEF Mapped, TypeOK, Page
    <3>2. frames[g].page_id # p
      BY <2>2, <2>g, <3>1
    <3> QED  BY <2>4, <2>6, <3>1, <3>2 DEF Mapped
  <2>h. FramesAccounted'
    <3>1. ASSUME NEW g \in Frames, g \in ToSet(free_list')
          PROVE  /\ g \notin ToSet(lru_list')
                 /\ \A q \in PageIds : page_table'[q] # g
      <4>1. CASE g = f
        BY <1>0, <2>3, <2>5, <2>6, <4>1
      <4>2. CASE g # f
        <5>1. /\ g \notin ToSet(lru_list)
              /\ \A q \in PageIds : page_table[q] # g
          BY <1>0, <2>5, <3>1, <4>2 DEF FramesAccounted
        <5> QED  BY <1>0, <2>5, <2>6, <5>1
      <4> QED  BY <4>1, <4>2
    <3>2. ASSUME NEW g \in Frames, g \notin ToSet(free_list')
          PROVE  Mapped(g)' /\ (g \in ToSet(lru_list') <=> pin_count'[g] = 0)
      <4>1. g # f /\ g \notin ToSet(free_list)
        BY <2>5, <3>2
      <4>2. Mapped(g) /\ (g \in ToSet(lru_list) <=> pin_count[g] = 0)
        BY <1>0, <4>1 DEF FramesAccounted
      <4> QED  BY <2>4, <2>5, <2>g, <4>1, <4>2
    <3> QED  BY <2>5, <3>1, <3>2 DEF FramesAccounted
  <2>i. DirtyIsFound'
    BY <1>0, <2>6, <2>g DEF DirtyIsFound
  <2>j. LivePagesSafe'
    <3>1. ASSUME NEW q \in live'  PROVE  q < next_page_id' /\ Safe(q)'
      <4>1. /\ q \in live /\ q \in PageIds \ {p} /\ q < next_page_id /\ Safe(q)
        BY <1>0, <2>4, <3>1 DEF LivePagesSafe, TypeOK
      <4>2. /\ page_table'[q] = page_table[q] /\ page_table[q] # f
            /\ page_table[q] \in Frames \cup {NoFrame}
        BY <1>0, <2>3, <2>6, <4>1 DEF TypeOK
      <4>3. page_table[q] # NoFrame =>
              is_dirty'[page_table[q]] = is_dirty[page_table[q]]
        BY <2>6, <4>2
      <4> QED  BY <2>4, <4>1, <4>2, <4>3 DEF Safe, Resident
    <3> QED  BY <3>1 DEF LivePagesSafe
  <2> QED  BY <2>a, <2>b, <2>c, <2>d, <2>e, <2>f, <2>h, <2>i, <2>j DEF SessionInv
<1> QED  BY <1>2, <1>3 DEF Delete
-----------------------------------------------------------------------------
(***************************************************************************)
(* Opening and closing.                                                    *)
(***************************************************************************)
\* A set of numbers that is not empty has a least one.
LEMMA LeastExists ==
  ASSUME NEW T \in SUBSET Nat, T # {}
  PROVE  \E x \in T : \A y \in T : x <= y
<1> DEFINE R == {ss \in Nat \X Nat : ss[1] < ss[2]}
<1>1. OpToRel(<, Nat) = R
  BY Zenon DEF OpToRel
<1>2. IsWellFoundedOn(R, Nat)
  BY <1>1, NatLessThanWellFounded, Zenon
<1> HIDE DEF R
<1>3. PICK x \in T : \A y \in T : ~ (<<y, x>> \in R)
  BY <1>2, WFMin, Zenon
<1>4. ASSUME NEW y \in T, y < x  PROVE  FALSE
  <2>1. <<y, x>> \in R
    BY <1>4 DEF R
  <2> QED  BY <1>3, <2>1
<1> QED  BY <1>4

\* A bounded one has a greatest, and Max names it.
LEMMA MaxIsGreatest ==
  ASSUME NEW n \in Nat, NEW S \in SUBSET (0 .. n), S # {}
  PROVE  Max(S) \in S /\ \A x \in S : x <= Max(S)
<1> DEFINE T == {n - x : x \in S}
<1>1. ASSUME NEW x \in S  PROVE  n - x \in Nat
  OBVIOUS
<1>2. T \in SUBSET Nat
  BY <1>1, Zenon
<1>3. T # {}
  OBVIOUS
<1>4. PICK t \in T : \A u \in T : t <= u
  BY <1>2, <1>3, LeastExists, Zenon
<1>5. PICK m \in S : t = n - m
  BY <1>4
<1>6. ASSUME NEW x \in S  PROVE  m >= x
  BY <1>4, <1>5
<1>7. \E k \in S : \A x \in S : k >= x
  BY <1>6
<1>8. Max(S) \in S /\ \A x \in S : Max(S) >= x
  BY <1>7 DEF Max
<1> QED  BY <1>8

\* The free list the constructor builds names every frame once.
LEMMA AllFreeNamesAll ==
  /\ AllFree \in Seq(Frames) /\ IsInjective(AllFree)
  /\ ToSet(AllFree) = Frames
<1>0. PoolSize \in Nat
  BY PoolSizeAssumption
<1>1. AllFree \in Seq(Frames) /\ DOMAIN AllFree = 1 .. PoolSize
      /\ \A i \in 1 .. PoolSize : AllFree[i] = i - 1
  BY <1>0 DEF AllFree, Frames
<1>2. IsInjective(AllFree)
  BY <1>0, <1>1 DEF IsInjective
<1>3. ASSUME NEW f \in Frames  PROVE  f \in ToSet(AllFree)
  <2>1. f + 1 \in 1 .. PoolSize /\ AllFree[f + 1] = f
    BY <1>0, <1>1 DEF Frames
  <2> QED  BY <1>1, <2>1 DEF ToSet
<1>4. ToSet(AllFree) \in SUBSET Frames
  BY <1>1, ListType
<1> QED  BY <1>1, <1>2, <1>3, <1>4

\* A pool just constructed on a file that has every live page, with nobody
\* holding a page.
FreshState ==
  /\ page_table = NoTable /\ frames = NoPages
  /\ free_list = AllFree /\ lru_list = << >>
  /\ pin_count = AllUnused /\ is_dirty = AllClean
  /\ next_page_id = file_pages /\ file_pages \in 0 .. MaxPages
  /\ disk \in [PageIds -> Page]
  /\ holds = [p \in PageIds |-> 0]
  /\ handle \in [PageIds -> Frames \cup {NoFrame}]
  /\ unsaved = {} /\ live \in SUBSET PageIds
  /\ \A p \in live : p < file_pages /\ disk[p].page_id = p

\* Such a pool satisfies the invariant.
LEMMA FreshPool == FreshState => SessionInv
<1> SUFFICES ASSUME FreshState  PROVE  SessionInv
  OBVIOUS
<1> USE DEF FreshState
<1>0. /\ AllFree \in Seq(Frames) /\ IsInjective(AllFree)
      /\ ToSet(AllFree) = Frames /\ NoFrame \notin Frames
      /\ << >> \in Seq(Frames) /\ ToSet(<< >>) = {} /\ IsInjective(<< >>)
  BY AllFreeNamesAll, NoFrameIsNone, EmptyList
<1>1. ZeroPage \in Page
  <2>1. 0 \in PageIds
    BY MaxPagesAssumption DEF PageIds
  <2> QED  BY <2>1 DEF ZeroPage, Page
<1>2. \A p \in PageIds : page_table[p] = NoFrame
  BY DEF NoTable
<1>a. TypeOK
  <2>1. /\ page_table \in [PageIds -> Frames \cup {NoFrame}]
        /\ frames \in [Frames -> Page] /\ pin_count \in [Frames -> Nat]
        /\ is_dirty \in [Frames -> BOOLEAN] /\ holds \in [PageIds -> Nat]
    BY <1>1 DEF NoTable, NoPages, AllUnused, AllClean
  <2> QED  BY <1>0, <2>1 DEF TypeOK
<1>b. HeadersMatch /\ UnsavedHeld /\ IdsGivenOut
  BY <1>2 DEF HeadersMatch, UnsavedHeld, IdsGivenOut, Resident
<1>c. PinsMatch /\ PinnedStay
  BY <1>2 DEF PinsMatch, PinnedStay, Resident
<1>d. FramesAccounted
  BY <1>0, <1>2 DEF FramesAccounted
<1>e. DirtyIsFound
  BY DEF DirtyIsFound, AllClean
<1>f. LivePagesSafe
  BY <1>2 DEF LivePagesSafe, Safe, Resident
<1> QED  BY <1>a, <1>b, <1>c, <1>d, <1>e, <1>f DEF SessionInv

\* The first session, on the file of an earlier one.
LEMMA InitInv == Init => SessionInv
<1> SUFFICES ASSUME Init  PROVE  SessionInv
  OBVIOUS
<1>0. MaxPages \in Nat /\ 0 \in PageIds
  BY MaxPagesAssumption DEF PageIds
<1>1. PICK b \in [PageIds -> Body] :
        disk = [p \in PageIds |-> IF p \in live
                                  THEN [page_id |-> p, body |-> b[p]]
                                  ELSE ZeroPage]
  BY DEF Init
<1>2. disk \in [PageIds -> Page]
  BY <1>0, <1>1 DEF ZeroPage, Page
<1>3. /\ live \in SUBSET PageIds
      /\ \A p \in live : p < file_pages
  BY <1>0 DEF Init, PageIds
<1>4. \A p \in live : disk[p].page_id = p
  BY <1>1, <1>3
<1>5. handle \in [PageIds -> Frames \cup {NoFrame}]
  BY DEF Init
<1> QED  BY <1>2, <1>3, <1>4, <1>5, FreshPool DEF Init, PoolInit, FreshState

\* The destructor puts every dirty page under its own id and leaves the others.
LEMMA ClosingWrites ==
  ASSUME SessionInv, WriteAllDirty
  PROVE  /\ disk' \in [PageIds -> Page]
         /\ file_pages' \in 0 .. MaxPages /\ file_pages <= file_pages'
         /\ file_pages' <= next_page_id
         /\ \A p \in PageIds :
              \/ /\ disk'[p].page_id = p /\ p < file_pages'
                 /\ Resident(p) /\ disk'[p] = frames[page_table[p]]
              \/ /\ disk'[p] = disk[p]
                 /\ Resident(p) => ~ is_dirty[page_table[p]]
<1>0. /\ TypeOK /\ HeadersMatch /\ IdsGivenOut /\ DirtyIsFound
      /\ MaxPages \in Nat /\ NoFrame \notin Frames
  BY NoFrameIsNone, MaxPagesAssumption DEF SessionInv
<1> DEFINE written == {p \in PageIds : DirtyFramesOf(p) # {}}
           ends == {file_pages} \cup {p + 1 : p \in written}
<1>1. /\ disk' = [p \in PageIds |-> IF p \in written
                                   THEN frames[Max(DirtyFramesOf(p))]
                                   ELSE disk[p]]
      /\ file_pages' = Max(ends)
  BY DEF WriteAllDirty
<1>2. ASSUME NEW p \in written
      PROVE  DirtyFramesOf(p) = {page_table[p]} /\ page_table[p] \in Frames
  <2>1. ASSUME NEW f \in DirtyFramesOf(p)  PROVE  page_table[p] = f
    BY <1>0, <2>1 DEF DirtyFramesOf, DirtyIsFound, Mapped
  <2>2. DirtyFramesOf(p) \in SUBSET Frames
    BY DEF DirtyFramesOf
  <2> QED  BY <1>2, <2>1, <2>2
<1>3. ASSUME NEW p \in written
      PROVE  disk'[p] = frames[page_table[p]] /\ disk'[p].page_id = p
  <2>1. p \in PageIds /\ page_table[p] \in DirtyFramesOf(p)
    BY <1>2
  <2>2. Max(DirtyFramesOf(p)) = page_table[p]
    <3>1. page_table[p] \in Frames /\ \A f \in Frames : f >= f
      BY <1>2, PoolSizeAssumption DEF Frames
    <3> QED  BY <1>2, <3>1 DEF Max
  <2>3. frames[page_table[p]].page_id = p
    BY <2>1 DEF DirtyFramesOf
  <2> QED  BY <1>1, <2>1, <2>2, <2>3
<1>4. ASSUME NEW p \in PageIds, p \notin written
      PROVE  /\ disk'[p] = disk[p]
             /\ Resident(p) => ~ is_dirty[page_table[p]]
  <2>1. ASSUME page_table[p] # NoFrame, is_dirty[page_table[p]]
        PROVE  FALSE
    <3>1. page_table[p] \in Frames /\ frames[page_table[p]].page_id = p
      BY <1>0, <2>1 DEF HeadersMatch, Resident, TypeOK
    <3>2. page_table[p] \in DirtyFramesOf(p)
      BY <2>1, <3>1 DEF DirtyFramesOf
    <3> QED  BY <1>4, <3>2
  <2> QED  BY <1>1, <1>4, <2>1 DEF Resident
<1>5. /\ file_pages' \in 0 .. MaxPages /\ file_pages <= file_pages'
      /\ file_pages' <= next_page_id
      /\ \A p \in written : p < file_pages'
  <2>1. ends \in SUBSET (0 .. MaxPages) /\ ends # {}
    BY <1>0 DEF TypeOK, PageIds
  <2> HIDE DEF ends
  <2>2. /\ file_pages' \in ends
        /\ \A x \in ends : x <= file_pages'
    BY <1>0, <1>1, <2>1, MaxIsGreatest, Zenon
  <2>3. file_pages \in ends /\ \A p \in written : p + 1 \in ends
    BY DEF ends
  <2>4. written \in SUBSET PageIds
    OBVIOUS
  <2> HIDE DEF written
  <2>5. file_pages' \in 0 .. MaxPages /\ file_pages <= file_pages'
    BY <2>1, <2>2, <2>3
  <2>6. ASSUME NEW p \in written  PROVE  p < file_pages'
    <3>1. p + 1 <= file_pages' /\ p \in Nat
      BY <1>0, <2>2, <2>3, <2>4 DEF PageIds
    <3> QED  BY <2>5, <3>1
  <2>7. \A p \in written : p \in PageIds /\ p < next_page_id
    <3>1. \A p \in written : p \in PageIds /\ Resident(p)
      BY <1>0, <1>2, <2>4 DEF Resident
    <3> QED  BY <1>0, <3>1 DEF IdsGivenOut
  <2>8. \A x \in ends : x <= next_page_id
    <3>1. next_page_id \in Nat /\ file_pages <= next_page_id
      BY <1>0 DEF TypeOK, IdsGivenOut
    <3> QED  BY <2>7, <3>1 DEF ends, PageIds
  <2> QED  BY <2>2, <2>5, <2>6, <2>8
<1>6. disk' \in [PageIds -> Page]
  <2>1. ASSUME NEW p \in PageIds
        PROVE  (IF p \in written THEN frames[Max(DirtyFramesOf(p))]
                ELSE disk[p]) \in Page
    <3>1. CASE p \in written
      <4>1. disk'[p] = frames[page_table[p]] /\ page_table[p] \in Frames
        BY <1>2, <1>3, <3>1
      <4> QED  BY <1>0, <1>1, <3>1, <4>1 DEF TypeOK
    <3>2. CASE p \notin written
      BY <1>0, <3>2 DEF TypeOK
    <3> QED  BY <3>1, <3>2
  <2> HIDE DEF written
  <2> QED  BY <1>1, <2>1
<1>7. \A p \in written : Resident(p)
  BY <1>0, <1>2 DEF Resident
<1> HIDE DEF written
<1> QED  BY <1>3, <1>4, <1>5, <1>6, <1>7

\* Closing writes what is only in RAM; the next session finds every live page.
LEMMA RestartKeepsInv ==
  ASSUME SessionInv, Restart
  PROVE  SessionInv'
<1>0. /\ TypeOK /\ HeadersMatch /\ UnsavedHeld /\ LivePagesSafe
  BY DEF SessionInv
<1>1. /\ WriteAllDirty /\ PoolRestart /\ UNCHANGED clientVars
      /\ \A p \in PageIds : holds[p] = 0
  BY DEF Restart
<1>2. unsaved = {} /\ holds = [p \in PageIds |-> 0]
  BY <1>0, <1>1 DEF UnsavedHeld, TypeOK
<1>3. /\ disk' \in [PageIds -> Page]
      /\ file_pages' \in 0 .. MaxPages /\ file_pages <= file_pages'
      /\ \A p \in PageIds : \/ disk'[p].page_id = p /\ p < file_pages'
                            \/ /\ disk'[p] = disk[p]
                               /\ Resident(p) => ~ is_dirty[page_table[p]]
  BY <1>1, ClosingWrites
<1>4. ASSUME NEW p \in live  PROVE  p < file_pages' /\ disk'[p].page_id = p
  <2>1. p \in PageIds /\ Safe(p)
    BY <1>0 DEF LivePagesSafe, TypeOK
  <2>2. CASE disk'[p].page_id = p /\ p < file_pages'
    BY <2>2
  <2>3. CASE disk'[p] = disk[p] /\ (Resident(p) => ~ is_dirty[page_table[p]])
    <3>1. p < file_pages /\ disk[p].page_id = p
      BY <1>0, <1>2, <2>1, <2>3 DEF Safe, HeadersMatch
    <3>2. p < file_pages'
      BY <1>0, <1>3, <2>1, <3>1 DEF TypeOK, PageIds
    <3> QED  BY <2>3, <3>1, <3>2
  <2> QED  BY <1>3, <2>1, <2>2, <2>3
<1>5. FreshState'
  <2>1. /\ PoolRestart /\ holds' = [p \in PageIds |-> 0]
        /\ unsaved' = {} /\ live' = live /\ handle' = handle
    BY <1>1, <1>2 DEF clientVars
  <2>2. /\ live' \in SUBSET PageIds
        /\ handle' \in [PageIds -> Frames \cup {NoFrame}]
    BY <1>0, <2>1 DEF TypeOK
  <2>3. \A p \in live' : p < file_pages' /\ disk'[p].page_id = p
    BY <1>4, <2>1
  <2> QED
    BY <1>3, <2>1, <2>2, <2>3
       DEF FreshState, PoolRestart, NoTable, NoPages, AllFree, AllUnused,
           AllClean
<1>6. FreshState' => SessionInv'
  BY FreshPool, PTL
<1> QED  BY <1>5, <1>6

\* After a crash the next session finds every page the file has.
LEMMA CrashKeepsInv ==
  ASSUME SessionInv, FileHonest, Crash
  PROVE  SessionInv'
<1>1. TypeOK /\ NoFrame \in Frames \cup {NoFrame}
  BY DEF SessionInv
<1>2. /\ disk' = disk /\ file_pages' = file_pages /\ PoolRestart
      /\ live' = {p \in live : disk[p].body # ZeroBody}
      /\ holds' = [p \in PageIds |-> 0] /\ handle' = [p \in PageIds |-> NoFrame]
      /\ unsaved' = {}
  BY DEF Crash, diskVars
<1>3. ASSUME NEW p \in live'  PROVE  p < file_pages' /\ disk'[p].page_id = p
  <2>1. p \in PageIds /\ disk[p].body # ZeroBody
    BY <1>1, <1>2 DEF TypeOK
  <2> QED  BY <1>2, <2>1 DEF FileHonest
<1>4. /\ live' \in SUBSET PageIds /\ disk' \in [PageIds -> Page]
      /\ handle' \in [PageIds -> Frames \cup {NoFrame}]
      /\ file_pages' \in 0 .. MaxPages
  BY <1>1, <1>2 DEF TypeOK
<1>5. FreshState'
  BY <1>2, <1>3, <1>4 DEF FreshState, PoolRestart, NoTable, NoPages, AllFree,
                          AllUnused, AllClean
<1>6. FreshState' => SessionInv'
  BY FreshPool, PTL
<1> QED  BY <1>5, <1>6
-----------------------------------------------------------------------------
(***************************************************************************)
(* What is in the file.                                                    *)
(***************************************************************************)
\* Writing a page under the id of its header keeps the file honest.
LEMMA WriteStaysHonest ==
  ASSUME TypeOK, FileHonest, NEW q \in PageIds, NEW page \in Page,
         page.page_id = q, WritePage(q, page)
  PROVE  FileHonest'
<1>1. ASSUME NEW p \in PageIds, disk'[p].body # ZeroBody
      PROVE  disk'[p].page_id = p /\ p < file_pages'
  <2>1. q < file_pages' /\ file_pages <= file_pages'
        /\ file_pages' \in Nat /\ file_pages \in Nat /\ p \in Nat
    BY MaxPagesAssumption DEF TypeOK, PageIds, WritePage
  <2>2. CASE p = q
    BY <2>1, <2>2 DEF TypeOK, WritePage
  <2>3. CASE p # q
    <3>1. disk'[p] = disk[p]
      BY <2>3 DEF TypeOK, WritePage
    <3> QED  BY <1>1, <2>1, <3>1 DEF FileHonest
  <2> QED  BY <2>2, <2>3
<1> QED  BY <1>1 DEF FileHonest

\* A step that leaves the file alone keeps it honest.
LEMMA FileUntouched ==
  ASSUME FileHonest, UNCHANGED diskVars
  PROVE  FileHonest'
BY DEF FileHonest, diskVars

\* So does writing back the victim of an eviction ...
LEMMA ClaimStaysHonest ==
  ASSUME SessionInv, FileHonest, Claim
  PROVE  FileHonest'
<1>1. CASE UNCHANGED diskVars
  BY <1>1, FileUntouched
<1>2. CASE ~ UNCHANGED diskVars
  <2>1. /\ free_list = << >>
        /\ WritePage(frames[LruVictim(lru_list)].page_id,
                     frames[LruVictim(lru_list)])
    BY <1>2 DEF Claim
  <2>2. PICK v \in Frames : v = LruVictim(lru_list)
    BY <2>1, ClaimedFrameIsFree DEF ClaimedFrame
  <2>3. TypeOK /\ frames[v] \in Page /\ frames[v].page_id \in PageIds
    BY DEF SessionInv, TypeOK, Page
  <2> QED  BY <2>1, <2>2, <2>3, WriteStaysHonest
<1> QED  BY <1>1, <1>2

\* ... and flushPage ...
LEMMA FlushStaysHonest ==
  ASSUME SessionInv, FileHonest, NEW p \in PageIds, Flush(p)
  PROVE  FileHonest'
<1>1. Resident(p) /\ WritePage(p, frames[page_table[p]])
  BY DEF Flush, FlushPage
<1>2. PICK page \in Page : page = frames[page_table[p]] /\ page.page_id = p
  BY <1>1, ResidentPage
<1>3. TypeOK
  BY DEF SessionInv
<1> QED  BY <1>1, <1>2, <1>3, WriteStaysHonest

\* ... and the destructor.
LEMMA RestartStaysHonest ==
  ASSUME SessionInv, FileHonest, Restart
  PROVE  FileHonest'
<1>1. /\ file_pages' \in 0 .. MaxPages /\ file_pages <= file_pages'
      /\ \A p \in PageIds : \/ disk'[p].page_id = p /\ p < file_pages'
                            \/ disk'[p] = disk[p]
  BY ClosingWrites DEF Restart
<1>2. file_pages \in 0 .. MaxPages /\ MaxPages \in Nat
  BY MaxPagesAssumption DEF SessionInv, TypeOK
<1> QED  BY <1>1, <1>2 DEF FileHonest, PageIds

\* The file of an earlier session.
LEMMA InitHonest == Init => FileHonest
<1> SUFFICES ASSUME Init  PROVE  FileHonest
  OBVIOUS
<1>1. PICK b \in [PageIds -> Body] :
        disk = [p \in PageIds |-> IF p \in live
                                  THEN [page_id |-> p, body |-> b[p]]
                                  ELSE ZeroPage]
  BY DEF Init
<1>2. live \in SUBSET (0 .. file_pages - 1) /\ file_pages \in 0 .. MaxPages
      /\ MaxPages \in Nat
  BY MaxPagesAssumption DEF Init
<1>3. ASSUME NEW p \in PageIds, disk[p].body # ZeroBody
      PROVE  disk[p].page_id = p /\ p < file_pages
  <2>1. p \in live
    BY <1>1, <1>3 DEF ZeroPage
  <2>2. p < file_pages
    BY <1>2, <2>1 DEF PageIds
  <2> QED  BY <1>1, <2>1, <2>2
<1> QED  BY <1>3 DEF FileHonest
-----------------------------------------------------------------------------
\* IndInv is inductive: no operation of the pool leads out of it.
LEMMA NextKeepsInv ==
  ASSUME ProbeEmptyFile = FALSE, IndInv, [Next]_vars
  PROVE  IndInv'
<1>0. SessionInv /\ FileHonest
  BY DEF IndInv
<1>1. ASSUME NEW p \in PageIds, Fetch(p)  PROVE  SessionInv' /\ FileHonest'
  <2>1. UNCHANGED diskVars \/ Claim
    BY <1>1 DEF Fetch, FetchHit, FetchMiss
  <2> QED  BY <1>0, <1>1, <2>1, FetchKeepsInv, ClaimStaysHonest, FileUntouched
<1>2. ASSUME NEW p \in PageIds, FetchNull(p) \/ DeleteNull(p)
      PROVE  SessionInv' /\ FileHonest'
  <2>1. UNCHANGED vars
    BY <1>2 DEF FetchNull, FetchFails, DeleteNull, DeleteRefused, vars
  <2>2. UNCHANGED diskVars
    BY <2>1 DEF vars, poolVars
  <2> QED  BY <1>0, <2>1, <2>2, StutterKeepsInv, FileUntouched
<1>3. ASSUME NEW p \in PageIds, Flush(p)  PROVE  SessionInv' /\ FileHonest'
  BY <1>0, <1>3, FlushKeepsInv, FlushStaysHonest
<1>4. ASSUME NEW p \in PageIds, Delete(p)  PROVE  SessionInv' /\ FileHonest'
  <2>1. UNCHANGED diskVars
    BY <1>4 DEF Delete, DeleteResident, DeleteAbsent, poolVars
  <2> QED  BY <1>0, <1>4, <2>1, DeleteKeepsInv, FileUntouched
<1>5. ASSUME NEW p \in PageIds, NEW b \in Body, Write(p, b)
      PROVE  SessionInv' /\ FileHonest'
  <2>1. UNCHANGED diskVars
    BY <1>5 DEF Write
  <2> QED  BY <1>0, <1>5, <2>1, WriteKeepsInv, FileUntouched
<1>6. ASSUME NEW p \in PageIds, NEW dirty \in BOOLEAN, Release(p, dirty)
      PROVE  SessionInv' /\ FileHonest'
  <2>1. UNCHANGED diskVars
    BY <1>6 DEF Release, UnpinPage, UnpinAbsent, UnpinIdle, UnpinPinned, poolVars
  <2> QED  BY <1>0, <1>6, <2>1, ReleaseKeepsInv, FileUntouched
<1>7. ASSUME NEW p \in PageIds, NEW dirty \in BOOLEAN, ReleaseUnheld(p, dirty)
      PROVE  SessionInv' /\ FileHonest'
  <2>1. UNCHANGED diskVars
    BY <1>7 DEF ReleaseUnheld, UnpinPage, UnpinAbsent, UnpinIdle, UnpinPinned,
                poolVars
  <2> QED  BY <1>0, <1>7, <2>1, ReleaseUnheldKeepsInv, FileUntouched
<1>8. ASSUME New  PROVE  SessionInv' /\ FileHonest'
  <2>1. Claim
    BY <1>8 DEF New, NewPage
  <2> QED  BY <1>0, <1>8, <2>1, NewKeepsInv, ClaimStaysHonest
<1>9. ASSUME NewNull \/ UNCHANGED vars  PROVE  SessionInv' /\ FileHonest'
  <2>1. UNCHANGED vars
    BY <1>9 DEF NewNull, NewFails, vars
  <2>2. UNCHANGED diskVars
    BY <2>1 DEF vars, poolVars
  <2> QED  BY <1>0, <2>1, <2>2, StutterKeepsInv, FileUntouched
<1>10. ASSUME Restart  PROVE  SessionInv' /\ FileHonest'
  BY <1>0, <1>10, RestartKeepsInv, RestartStaysHonest
<1>11. ASSUME Crash  PROVE  SessionInv' /\ FileHonest'
  <2>1. UNCHANGED diskVars
    BY <1>11 DEF Crash
  <2> QED  BY <1>0, <1>11, <2>1, CrashKeepsInv, FileUntouched
<1>12. SessionInv' /\ FileHonest'
  BY <1>1, <1>2, <1>3, <1>4, <1>5, <1>6, <1>7, <1>8, <1>9, <1>10, <1>11
     DEF Next
<1> QED  BY <1>12 DEF IndInv

\* The invariant holds in every state of every run, whatever crashes.
THEOREM PoolInvariant ==
  ASSUME ProbeEmptyFile = FALSE
  PROVE  Spec => []IndInv
<1>1. IndInv /\ [Next]_vars => IndInv'
  BY NextKeepsInv
<1>2. Init => IndInv
  BY InitInv, InitHonest DEF IndInv
<1> QED  BY <1>1, <1>2, PTL DEF Spec

\* Every variable keeps its type; in particular no pin count goes below zero
\* and no list holds anything but frames.
THEOREM TypeCorrect ==
  ASSUME ProbeEmptyFile = FALSE
  PROVE  Spec => []TypeOK
<1>1. IndInv => TypeOK
  BY DEF IndInv, SessionInv
<1> QED  BY <1>1, PoolInvariant, PTL

\* The pointer fetchPage or newPage returned leads to the page until it is
\* unpinned, however many other calls come in between.
THEOREM PinnedPagesStay ==
  ASSUME ProbeEmptyFile = FALSE
  PROVE  Spec => []PinnedStay
<1>1. IndInv => PinnedStay
  BY DEF IndInv, SessionInv
<1> QED  BY <1>1, PoolInvariant, PTL

\* free_list, the replacer's list and the pinned frames partition the frames
\* after every call: unpinPage, deletePage and eviction lose none.
THEOREM NoFrameLost ==
  ASSUME ProbeEmptyFile = FALSE
  PROVE  Spec => []FramesAccounted
<1>1. IndInv => FramesAccounted
  BY DEF IndInv, SessionInv
<1> QED  BY <1>1, PoolInvariant, PTL

\* fetchPage finds changes that are only in RAM.
THEOREM ChangesAreFound ==
  ASSUME ProbeEmptyFile = FALSE
  PROVE  Spec => []DirtyIsFound
<1>1. IndInv => DirtyIsFound
  BY DEF IndInv, SessionInv
<1> QED  BY <1>1, PoolInvariant, PTL

\* No written page is lost by eviction, flushPage, the destructor or the
\* constructor of the next session, and newPage never gives its id out again.
THEOREM NoPageLost ==
  ASSUME ProbeEmptyFile = FALSE
  PROVE  Spec => []LivePagesSafe
<1>1. IndInv => LivePagesSafe
  BY DEF IndInv, SessionInv
<1> QED  BY <1>1, PoolInvariant, PTL

\* Whenever the process ends, by the destructor or not, the pages of the file
\* are under their own ids and the next session gives none of these out again.
THEOREM CrashLeavesPages ==
  ASSUME ProbeEmptyFile = FALSE
  PROVE  Spec => []FileHonest
<1>1. IndInv => FileHonest
  BY DEF IndInv
<1> QED  BY <1>1, PoolInvariant, PTL
=============================================================================
