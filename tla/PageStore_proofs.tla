---------------------------- MODULE PageStore_proofs ----------------------------
(***************************************************************************)
(* The buffer pool implements PageStore, for every pool size, number of    *)
(* pages, users and contents, through evictions, restarts and crashes, as  *)
(* long as page 0 is not fetched from an empty file.                       *)
(*                                                                         *)
(* One lemma per operation says, page by page, what becomes of what the    *)
(* store sees: Visible, InFile and Pins.                                   *)
(***************************************************************************)
EXTENDS BufferPool_proofs

\* A page keeps its contents; its place in the file keeps what it has or gets
\* these contents.
Kept(p) == Visible(p)' = Visible(p) /\ InFile(p)' \in {InFile(p), Visible(p)}

\* The parts of the invariant, and the words the code uses for "none".
LEMMA Basics ==
  ASSUME StoreInv
  PROVE  /\ SessionInv /\ TypeOK /\ HeadersMatch /\ PinsMatch /\ UnsavedHeld
         /\ IdsGivenOut /\ PinnedStay /\ FramesAccounted /\ DirtyIsFound
         /\ LivePagesSafe /\ FileHonest /\ WrittenOrBlank
         /\ NoFrame \notin Frames /\ ZeroBody \notin Body /\ Absent \notin Body
         /\ MaxPages \in Nat
BY NoFrameIsNone, BodyAssumption, MaxPagesAssumption
   DEF StoreInv, IndInv, SessionInv

\* What the invariant says of a page somebody wrote.
LEMMA LivePage ==
  ASSUME StoreInv, NEW p \in live
  PROVE  /\ p \in PageIds /\ p < next_page_id /\ Safe(p)
         /\ Visible(p) \in Body /\ Visible(p) # Absent /\ Visible(p) # ZeroBody
         /\ Resident(p) => Visible(p) = frames[page_table[p]].body
         /\ ~ Resident(p) => /\ Visible(p) = disk[p].body
                             /\ InFile(p) = Visible(p)
<1>1. TypeOK /\ LivePagesSafe /\ WrittenOrBlank /\ ZeroBody \notin Body
      /\ Absent \notin Body
  BY Basics
<1>2. p \in PageIds /\ p < next_page_id /\ Safe(p)
  BY <1>1 DEF TypeOK, LivePagesSafe
<1>3. Visible(p) \in Body
  BY <1>1, <1>2 DEF WrittenOrBlank
<1>4. /\ Resident(p) => Visible(p) = frames[page_table[p]].body
      /\ ~ Resident(p) => Visible(p) = disk[p].body
  BY DEF Visible
<1>5. ~ Resident(p) => InFile(p) = Visible(p)
  BY <1>1, <1>3, <1>4 DEF InFile
<1> QED  BY <1>1, <1>2, <1>3, <1>4, <1>5

\* What is not live has no contents.
LEMMA DeadPage ==
  ASSUME NEW p, p \notin live
  PROVE  Visible(p) = Absent /\ InFile(p) = Absent
BY DEF Visible, InFile

\* Pins are what the users hold.
LEMMA PinsAreHeld ==
  ASSUME StoreInv, NEW p \in PageIds
  PROVE  Pins(p) = holds[p] /\ Pins(p) \in Nat
<1>1. PinsMatch /\ TypeOK
  BY Basics
<1>2. holds[p] \in Nat
  BY <1>1 DEF TypeOK
<1> QED  BY <1>1, <1>2 DEF PinsMatch, Pins

\* WrittenOrBlank, for one page.
Proper(p) == IF p \in live THEN Visible(p) \in Body ELSE Resident(p) => Blank(p)

LEMMA AllProper ==
  /\ WrittenOrBlank => \A p \in PageIds : Proper(p)
  /\ (\A p \in PageIds : Proper(p)') => WrittenOrBlank'
BY DEF WrittenOrBlank, Proper

\* A page nothing happens to.
LEMMA PageUntouched ==
  ASSUME StoreInv, NEW p \in PageIds, p \in live' <=> p \in live,
         page_table'[p] = page_table[p], disk'[p] = disk[p],
         Resident(p) => frames'[page_table[p]].body = frames[page_table[p]].body
  PROVE  Kept(p) /\ Proper(p)'
<1>1. Resident(p)' <=> Resident(p)
  BY DEF Resident
<1>2. Visible(p)' = Visible(p) /\ InFile(p)' = InFile(p)
  BY <1>1 DEF Visible, InFile
<1>3. Proper(p)
  BY Basics, AllProper
<1> QED  BY <1>1, <1>2, <1>3 DEF Kept, Proper, Blank, Resident

\* Fetching or creating p evicts another page, which is found in the file from
\* now on, and does nothing to the rest.
LEMMA InstallKeepsOthers ==
  ASSUME StoreInv, Claim, NEW p \in PageIds, ~ Resident(p), NEW page,
         Install(p, page), live' = live
  PROVE  /\ \A q \in PageIds \ {p} : Kept(q) /\ Proper(q)' /\ Pins(q)' = Pins(q)
         /\ disk'[p] = disk[p] /\ Resident(p)' /\ Pins(p)' = 1
         /\ frames'[page_table'[p]] = page
<1>0. /\ SessionInv /\ TypeOK /\ NoFrame \notin Frames /\ ZeroBody \notin Body
      /\ page_table[p] = NoFrame
  BY Basics DEF Resident
<1>1. PICK f \in Frames : f = ClaimedFrame
  BY <1>0, ClaimedFrameIsFree
<1>2. /\ TableAfterClaim = [q \in PageIds |-> IF page_table[q] = f
                                              THEN NoFrame ELSE page_table[q]]
      /\ \A q \in PageIds : page_table[q] = f => holds[q] = 0
  BY <1>0, <1>1, ClaimedFrameIsFree
<1>3. /\ \A q \in PageIds : page_table[q] # f => disk'[q] = disk[q]
      /\ \A q \in live : page_table[q] = f => disk'[q] = frames[f]
  BY <1>0, <1>1, ClaimKeepsFile
<1>4. /\ page_table'[p] = f /\ frames'[f] = page /\ pin_count'[f] = 1
      /\ \A q \in PageIds \ {p} :
            page_table'[q] = IF page_table[q] = f THEN NoFrame
                             ELSE page_table[q]
      /\ \A g \in Frames \ {f} : frames'[g] = frames[g]
                                 /\ pin_count'[g] = pin_count[g]
  BY <1>0, <1>1, <1>2 DEF Install, TypeOK
<1>5. ASSUME NEW q \in PageIds \ {p}
      PROVE  Kept(q) /\ Proper(q)' /\ Pins(q)' = Pins(q)
  <2>1. page_table[q] \in Frames \cup {NoFrame}
    BY <1>0 DEF TypeOK
  <2>2. CASE page_table[q] # f
    <3>1. page_table'[q] = page_table[q] /\ disk'[q] = disk[q]
      BY <1>3, <1>4, <2>2
    <3>2. Resident(q) => page_table[q] \in Frames \ {f}
      BY <2>1, <2>2 DEF Resident
    <3>3. Resident(q) => /\ frames'[page_table[q]] = frames[page_table[q]]
                         /\ pin_count'[page_table[q]] = pin_count[page_table[q]]
      BY <1>4, <3>2
    <3>4. Kept(q) /\ Proper(q)'
      BY <3>1, <3>3, PageUntouched
    <3>5. Pins(q)' = Pins(q)
      BY <3>1, <3>3 DEF Pins, Resident
    <3> QED  BY <3>4, <3>5
  <2>3. CASE page_table[q] = f
    <3>1. Resident(q) /\ ~ Resident(q)'
      BY <1>0, <1>1, <1>4, <2>3 DEF Resident
    <3>2. Pins(q)' = Pins(q)
      <4>1. Pins(q) = 0
        BY <1>2, <2>3, PinsAreHeld
      <4> QED  BY <3>1, <4>1 DEF Pins
    <3>3. CASE q \in live
      <4>1. Visible(q) \in Body /\ Visible(q) = frames[f].body
        BY <2>3, <3>1, <3>3, LivePage
      <4>2. disk'[q] = frames[f]
        BY <1>3, <2>3, <3>3
      <4>3. Visible(q)' = Visible(q) /\ InFile(q)' = Visible(q)
        BY <1>0, <3>1, <3>3, <4>1, <4>2 DEF Visible, InFile
      <4> QED  BY <3>2, <3>3, <4>1, <4>3 DEF Kept, Proper
    <3>4. CASE q \notin live
      BY <3>1, <3>2, <3>4 DEF Kept, Proper, Visible, InFile
    <3> QED  BY <3>3, <3>4
  <2> QED  BY <2>2, <2>3
<1>6. disk'[p] = disk[p] /\ Resident(p)' /\ Pins(p)' = 1
  BY <1>0, <1>1, <1>3, <1>4 DEF Resident, Pins
<1> QED  BY <1>4, <1>5, <1>6

-----------------------------------------------------------------------------
(***************************************************************************)
(* What fetchPage would deliver, whether anybody wrote the page or not: no *)
(* operation but a write changes it.  Users of the pool who know their     *)
(* pages by these contents need the lemmas without live' = live.           *)
(***************************************************************************)
Contents(p) == IF Resident(p) THEN frames[page_table[p]].body ELSE disk[p].body

\* The victim of an eviction is found in the file as it was, a blank one too.
LEMMA VictimIsInFile ==
  ASSUME StoreInv, Claim, NEW q \in PageIds, page_table[q] = ClaimedFrame
  PROVE  disk'[q].body = frames[ClaimedFrame].body
<1>0. /\ SessionInv /\ TypeOK /\ WrittenOrBlank /\ FramesAccounted /\ HeadersMatch
      /\ NoFrame \notin Frames
  BY Basics
<1>1. PICK f \in Frames : f = ClaimedFrame
  BY <1>0, ClaimedFrameIsFree
<1>2. Resident(q) /\ frames[f].page_id = q
  BY <1>0, <1>1 DEF Resident, HeadersMatch
<1>3. CASE q \in live
  BY <1>0, <1>1, <1>3, ClaimKeepsFile
<1>4. CASE q \notin live
  <2>1. frames[f].body = ZeroBody /\ disk[q].body = ZeroBody
    BY <1>0, <1>1, <1>2, <1>4 DEF WrittenOrBlank, Blank
  <2>2. disk'[q] \in {disk[q], frames[f]}
    <3>1. free_list = << >>
      <4>1. CASE free_list # << >>
        <5>1. f \in ToSet(free_list)
          <6>1. free_list \in Seq(Frames) /\ f = Head(free_list)
            BY <1>0, <1>1, <4>1 DEF TypeOK, ClaimedFrame
          <6>2. 1 \in DOMAIN free_list /\ f = free_list[1]
            BY <4>1, <6>1
          <6> QED  BY <6>2 DEF ToSet
        <5> QED  BY <1>0, <1>1, <5>1 DEF FramesAccounted
      <4> QED  BY <4>1
    <3>2. f = LruVictim(lru_list)
      BY <1>1, <3>1 DEF ClaimedFrame
    <3>3. CASE is_dirty[f]
      <4>1. disk' = [disk EXCEPT ![q] = frames[f]]
        BY <1>2, <3>1, <3>2, <3>3 DEF Claim, WritePage
      <4> QED  BY <1>0, <4>1 DEF TypeOK
    <3>4. CASE ~ is_dirty[f]
      BY <3>1, <3>2, <3>4 DEF Claim, diskVars
    <3> QED  BY <3>3, <3>4
  <2> QED  BY <1>1, <2>1, <2>2
<1> QED  BY <1>3, <1>4

LEMMA InstallKeepsContents ==
  ASSUME StoreInv, Claim, NEW p \in PageIds, ~ Resident(p), NEW page,
         Install(p, page)
  PROVE  /\ \A q \in PageIds \ {p} : Contents(q)' = Contents(q)
         /\ Contents(p)' = page.body /\ disk'[p] = disk[p]
<1>0. /\ SessionInv /\ TypeOK /\ NoFrame \notin Frames
      /\ page_table[p] = NoFrame
  BY Basics DEF Resident
<1>1. PICK f \in Frames : f = ClaimedFrame
  BY <1>0, ClaimedFrameIsFree
<1>2. TableAfterClaim = [q \in PageIds |-> IF page_table[q] = f
                                           THEN NoFrame ELSE page_table[q]]
  BY <1>0, <1>1, ClaimedFrameIsFree
<1>3. \A q \in PageIds : page_table[q] # f => disk'[q] = disk[q]
  BY <1>0, <1>1, ClaimKeepsFile
<1>4. /\ page_table'[p] = f /\ frames'[f] = page
      /\ \A q \in PageIds \ {p} :
            page_table'[q] = IF page_table[q] = f THEN NoFrame
                             ELSE page_table[q]
      /\ \A g \in Frames \ {f} : frames'[g] = frames[g]
  BY <1>0, <1>1, <1>2 DEF Install, TypeOK
<1>5. ASSUME NEW q \in PageIds \ {p}
      PROVE  Contents(q)' = Contents(q)
  <2>1. page_table[q] \in Frames \cup {NoFrame}
    BY <1>0 DEF TypeOK
  <2>2. CASE page_table[q] # f
    <3>1. page_table'[q] = page_table[q] /\ disk'[q] = disk[q]
      BY <1>3, <1>4, <2>2
    <3>2. Resident(q) => frames'[page_table[q]] = frames[page_table[q]]
      BY <1>4, <2>1, <2>2 DEF Resident
    <3> QED  BY <3>1, <3>2 DEF Contents, Resident
  <2>3. CASE page_table[q] = f
    <3>1. Resident(q) /\ ~ Resident(q)'
      BY <1>0, <1>1, <1>4, <2>3 DEF Resident
    <3>2. disk'[q].body = frames[f].body
      BY <1>1, <2>3, VictimIsInFile
    <3> QED  BY <2>3, <3>1, <3>2 DEF Contents
  <2> QED  BY <2>2, <2>3
<1>6. disk'[p] = disk[p] /\ Resident(p)'
  BY <1>0, <1>1, <1>3, <1>4 DEF Resident
<1> QED  BY <1>4, <1>5, <1>6 DEF Contents

LEMMA FetchKeepsContents ==
  ASSUME StoreInv, NEW p \in PageIds, FetchHit(p) \/ FetchMiss(p)
  PROVE  \A q \in PageIds : Contents(q)' = Contents(q)
<1>1. CASE FetchHit(p)
  BY <1>1 DEF FetchHit, diskVars, Contents, Resident
<1>2. CASE FetchMiss(p)
  <2>1. ~ Resident(p) /\ Claim /\ Install(p, disk'[p])
    BY <1>2 DEF FetchMiss
  <2>2. /\ \A q \in PageIds \ {p} : Contents(q)' = Contents(q)
        /\ Contents(p)' = disk'[p].body /\ disk'[p] = disk[p]
    BY <2>1, InstallKeepsContents
  <2>3. Contents(p) = disk[p].body
    BY <2>1 DEF Contents
  <2> QED  BY <2>2, <2>3
<1> QED  BY <1>1, <1>2

\* newPage gives out a page that was blank.
LEMMA NewKeepsContents ==
  ASSUME StoreInv, NewPage
  PROVE  /\ next_page_id \in PageIds /\ ~ Resident(next_page_id)
         /\ Contents(next_page_id) = ZeroBody /\ next_page_id \notin live
         /\ \A q \in PageIds : Contents(q)' = Contents(q)
<1>0. /\ TypeOK /\ IdsGivenOut /\ FileHonest /\ LivePagesSafe /\ MaxPages \in Nat
  BY Basics
<1> DEFINE page == [page_id |-> next_page_id, body |-> ZeroBody]
<1>1. Claim /\ Install(next_page_id, page) /\ next_page_id < MaxPages
  BY DEF NewPage
<1>2. PICK p \in PageIds : p = next_page_id
  BY <1>0, <1>1 DEF TypeOK, PageIds
<1>3. ~ Resident(p) /\ p \notin live /\ ~ (p < file_pages)
  BY <1>0, <1>2 DEF IdsGivenOut, LivePagesSafe, PageIds, TypeOK
<1>4. disk[p].body = ZeroBody
  BY <1>0, <1>3 DEF FileHonest
<1>5. page.body = ZeroBody
  OBVIOUS
<1> HIDE DEF page
<1>6. /\ \A q \in PageIds \ {p} : Contents(q)' = Contents(q)
      /\ Contents(p)' = page.body
  BY <1>1, <1>2, <1>3, InstallKeepsContents
<1>7. Contents(p) = ZeroBody
  BY <1>3, <1>4 DEF Contents
<1> QED  BY <1>2, <1>3, <1>5, <1>6, <1>7

LEMMA UnpinKeepsContents ==
  ASSUME NEW p \in PageIds, NEW dirty, UnpinPage(p, dirty)
  PROVE  \A q \in PageIds : Contents(q)' = Contents(q)
BY DEF UnpinPage, UnpinAbsent, UnpinIdle, UnpinPinned, poolVars, metaVars, diskVars,
       Contents, Resident

\* The destructor writes what is in RAM only.
LEMMA CloseKeepsContents ==
  ASSUME StoreInv, \A q \in PageIds : holds[q] = 0, WriteAllDirty, PoolRestart
  PROVE  \A q \in PageIds : Contents(q)' = Contents(q)
<1>0. TypeOK /\ SessionInv /\ UnsavedHeld /\ WrittenOrBlank
  BY Basics
<1>1. \A q \in PageIds :
            \/ Resident(q) /\ disk'[q] = frames[page_table[q]]
            \/ /\ disk'[q] = disk[q]
               /\ Resident(q) => ~ is_dirty[page_table[q]]
  BY <1>0, ClosingWrites
<1>2. unsaved = {}
  BY <1>0 DEF UnsavedHeld, TypeOK
<1>3. ASSUME NEW q \in PageIds
      PROVE  Contents(q)' = disk'[q].body
  BY DEF PoolRestart, Resident, NoTable, Contents
<1>4. ASSUME NEW q \in PageIds
      PROVE  disk'[q].body = Contents(q)
  <2>1. CASE ~ Resident(q)
    BY <1>1, <2>1 DEF Contents
  <2>2. CASE Resident(q) /\ disk'[q] = frames[page_table[q]]
    BY <2>2 DEF Contents
  <2>3. CASE Resident(q) /\ disk'[q] = disk[q] /\ ~ is_dirty[page_table[q]]
    <3>1. CASE q \in live
      BY <1>2, <2>3, <3>1, LivePage DEF Safe, Contents
    <3>2. CASE q \notin live
      BY <1>0, <2>3, <3>2 DEF WrittenOrBlank, Blank, Contents
    <3> QED  BY <3>1, <3>2
  <2> QED  BY <1>1, <2>1, <2>2, <2>3
<1> QED  BY <1>3, <1>4

-----------------------------------------------------------------------------
(***************************************************************************)
(* One lemma per operation, page by page.                                  *)
(***************************************************************************)
\* fetchPage is Pin.
LEMMA FetchIsPin ==
  ASSUME StoreInv, ProbeEmptyFile = FALSE, NEW p \in PageIds, Fetch(p)
  PROVE  /\ \A q \in PageIds : Kept(q) /\ Proper(q)'
         /\ Visible(p) # Absent /\ Pins(p)' = Pins(p) + 1
         /\ \A q \in PageIds \ {p} : Pins(q)' = Pins(q)
         /\ next_page_id' = next_page_id
<1>0. TypeOK /\ live' = live /\ p \in live
  BY Basics DEF Fetch, Fetchable
<1>1. Visible(p) \in Body /\ Visible(p) # Absent /\ Visible(p) # ZeroBody
  BY <1>0, LivePage
<1>2. CASE FetchHit(p)
  <2>1. /\ Resident(p) /\ page_table' = page_table /\ frames' = frames
        /\ disk' = disk /\ next_page_id' = next_page_id
        /\ pin_count' = [pin_count EXCEPT ![page_table[p]] = @ + 1]
    BY <1>2 DEF FetchHit, diskVars
  <2>2. \A q \in PageIds : Kept(q) /\ Proper(q)'
    BY <1>0, <2>1, PageUntouched
  <2>3. \A q \in PageIds : Resident(q)' <=> Resident(q)
    BY <2>1 DEF Resident
  <2>4. Pins(p)' = Pins(p) + 1
    <3>1. page_table[p] \in Frames /\ pin_count[page_table[p]] \in Nat
      BY <2>1, ResidentPage, Basics
    <3> QED  BY <1>0, <2>1, <2>3, <3>1 DEF Pins, TypeOK
  <2>5. ASSUME NEW q \in PageIds \ {p}  PROVE Pins(q)' = Pins(q)
    <3>1. page_table[q] # page_table[p]
      BY <2>1, ResidentPage, Basics
    <3> QED  BY <1>0, <2>1, <2>3, <3>1 DEF Pins, TypeOK, Resident
  <2> QED  BY <1>1, <2>1, <2>2, <2>4, <2>5
<1>3. CASE FetchMiss(p)
  <2>1. /\ ~ Resident(p) /\ Claim /\ Install(p, disk'[p])
        /\ next_page_id' = next_page_id
    BY <1>3 DEF FetchMiss
  <2>2. /\ \A q \in PageIds \ {p} : Kept(q) /\ Proper(q)' /\ Pins(q)' = Pins(q)
        /\ disk'[p] = disk[p] /\ Resident(p)' /\ Pins(p)' = 1
        /\ frames'[page_table'[p]] = disk'[p]
    BY <1>0, <2>1, InstallKeepsOthers
  <2>3. Visible(p) = disk[p].body /\ InFile(p) = Visible(p)
    BY <1>0, <2>1, LivePage
  <2>4. Visible(p)' = Visible(p) /\ InFile(p)' = InFile(p)
    BY <1>0, <2>2, <2>3 DEF Visible, InFile
  <2>5. Kept(p) /\ Proper(p)'
    BY <1>0, <1>1, <2>4 DEF Kept, Proper
  <2>6. Pins(p) = 0
    BY <2>1 DEF Pins
  <2> QED  BY <1>1, <2>1, <2>2, <2>5, <2>6
<1> QED  BY <1>2, <1>3 DEF Fetch

\* newPage is Create: the id is new, and nothing is left under it.
LEMMA NewIsCreate ==
  ASSUME StoreInv, New
  PROVE  \E p \in PageIds :
            /\ p = next_page_id /\ next_page_id' = p + 1
            /\ \A q \in PageIds : Kept(q) /\ Proper(q)'
            /\ Pins(p)' = 1
            /\ \A q \in PageIds \ {p} : Pins(q)' = Pins(q)
<1>0. /\ TypeOK /\ IdsGivenOut /\ FileHonest /\ LivePagesSafe /\ MaxPages \in Nat
  BY Basics
<1> DEFINE page == [page_id |-> next_page_id, body |-> ZeroBody]
<1>1. /\ Claim /\ Install(next_page_id, page) /\ next_page_id < MaxPages
      /\ next_page_id' = next_page_id + 1 /\ live' = live
  BY DEF New, NewPage
<1>2. PICK p \in PageIds : p = next_page_id
  BY <1>0, <1>1 DEF TypeOK, PageIds
<1>3. ~ Resident(p) /\ p \notin live /\ ~ (p < file_pages)
  BY <1>0, <1>2 DEF IdsGivenOut, LivePagesSafe, PageIds, TypeOK
<1>4. disk[p].body = ZeroBody
  BY <1>0, <1>3 DEF FileHonest
<1>5. page.body = ZeroBody
  OBVIOUS
<1> HIDE DEF page
<1>6. /\ \A q \in PageIds \ {p} : Kept(q) /\ Proper(q)' /\ Pins(q)' = Pins(q)
      /\ disk'[p] = disk[p] /\ Resident(p)' /\ Pins(p)' = 1
      /\ frames'[page_table'[p]] = page
  BY <1>1, <1>2, <1>3, InstallKeepsOthers
<1>7. Kept(p) /\ Proper(p)'
  BY <1>1, <1>3, <1>4, <1>5, <1>6 DEF Kept, Visible, InFile, Proper, Blank
<1>8. \A q \in PageIds : Kept(q) /\ Proper(q)'
  BY <1>6, <1>7
<1> WITNESS p \in PageIds
<1> QED  BY <1>1, <1>2, <1>6, <1>8

\* A user's change is Write.
LEMMA WriteIsWrite ==
  ASSUME StoreInv, NEW p \in PageIds, NEW b \in Body, Write(p, b)
  PROVE  /\ \A q \in PageIds \ {p} : Kept(q)
         /\ \A q \in PageIds : Proper(q)' /\ Pins(q)' = Pins(q)
         /\ Visible(p)' = b /\ InFile(p)' = InFile(p) /\ Pins(p) # 0
         /\ next_page_id' = next_page_id
<1>0. TypeOK /\ PinnedStay /\ SessionInv /\ WrittenOrBlank
  BY Basics
<1>1. Resident(p) /\ handle[p] = page_table[p] /\ holds[p] > 0
  BY <1>0 DEF Write, PinnedStay
<1>2. PICK f \in Frames : f = page_table[p]
  BY <1>0, <1>1, ResidentPage
<1>3. /\ page_table' = page_table /\ pin_count' = pin_count /\ disk' = disk
      /\ live' = live \cup {p} /\ next_page_id' = next_page_id
      /\ frames' = [frames EXCEPT ![f].body = b]
  BY <1>1, <1>2 DEF Write, diskVars
<1>4. /\ frames'[f].body = b
      /\ \A g \in Frames \ {f} : frames'[g] = frames[g]
  BY <1>0, <1>3 DEF TypeOK, Page
<1>5. \A q \in PageIds : Pins(q)' = Pins(q) /\ (Resident(q)' <=> Resident(q))
  BY <1>3 DEF Pins, Resident
<1>6. ASSUME NEW q \in PageIds \ {p}  PROVE Kept(q) /\ Proper(q)'
  <2>1. page_table[q] # f
    BY <1>0, <1>1, <1>2, ResidentPage
  <2>2. Resident(q) => page_table[q] \in Frames \ {f}
    BY <1>0, <2>1 DEF TypeOK, Resident
  <2> QED  BY <1>3, <1>4, <2>2, PageUntouched
<1>7. Visible(p)' = b /\ Proper(p)'
  BY <1>1, <1>2, <1>3, <1>4, <1>5 DEF Visible, Proper
<1>8. InFile(p)' = InFile(p)
  <2>1. CASE p \in live
    BY <1>3, <2>1 DEF InFile
  <2>2. CASE p \notin live
    <3>1. disk[p].body = ZeroBody
      BY <1>0, <1>1, <2>2 DEF WrittenOrBlank, Blank
    <3> QED  BY <1>3, <2>2, <3>1 DEF InFile
  <2> QED  BY <2>1, <2>2
<1>9. Pins(p) # 0
  BY <1>1, PinsAreHeld
<1> QED  BY <1>3, <1>5, <1>6, <1>7, <1>8, <1>9

\* A step that moves, writes and changes no page at all: no page is affected.
LEMMA PagesUntouched ==
  ASSUME StoreInv, page_table' = page_table, frames' = frames, disk' = disk,
         live' = live
  PROVE  \A q \in PageIds : Kept(q) /\ Proper(q)'
BY PageUntouched

\* unpinPage by a user who holds the page is Unpin.
LEMMA ReleaseIsUnpin ==
  ASSUME StoreInv, NEW p \in PageIds, NEW dirty \in BOOLEAN, Release(p, dirty)
  PROVE  /\ \A q \in PageIds : Kept(q) /\ Proper(q)'
         /\ Pins(p) # 0 /\ Pins(p)' = Pins(p) - 1
         /\ \A q \in PageIds \ {p} : Pins(q)' = Pins(q)
         /\ next_page_id' = next_page_id
<1>0. TypeOK /\ PinnedStay /\ SessionInv
  BY Basics
<1>1. Resident(p) /\ holds[p] > 0
  BY <1>0 DEF Release, PinnedStay
<1>2. PICK f \in Frames : f = page_table[p]
  BY <1>0, <1>1, ResidentPage
<1>3. pin_count[f] = holds[p] /\ pin_count[f] \in Nat
  BY <1>0, <1>1, <1>2, ResidentPage
<1>4. /\ page_table' = page_table /\ frames' = frames /\ disk' = disk
      /\ live' = live /\ next_page_id' = next_page_id
      /\ pin_count' = [pin_count EXCEPT ![f] = @ - 1]
  BY <1>1, <1>2, <1>3 DEF Release, UnpinPage, UnpinAbsent, UnpinIdle,
                          UnpinPinned, diskVars
<1>5. \A q \in PageIds : Resident(q)' <=> Resident(q)
  BY <1>4 DEF Resident
<1>6. Pins(p) # 0 /\ Pins(p)' = Pins(p) - 1
  BY <1>0, <1>1, <1>2, <1>3, <1>4, <1>5 DEF Pins, TypeOK
<1>7. ASSUME NEW q \in PageIds \ {p}  PROVE Pins(q)' = Pins(q)
  <2>1. page_table[q] # f
    BY <1>0, <1>1, <1>2, ResidentPage
  <2> QED  BY <1>0, <1>4, <1>5, <2>1 DEF Pins, TypeOK, Resident
<1> QED  BY <1>4, <1>6, <1>7, PagesUntouched

\* unpinPage by somebody else, and calls that return nullptr or FALSE.
LEMMA NothingHappens ==
  ASSUME StoreInv, page_table' = page_table, frames' = frames, disk' = disk,
         live' = live, pin_count' = pin_count, next_page_id' = next_page_id
  PROVE  /\ \A q \in PageIds : Kept(q) /\ Proper(q)' /\ Pins(q)' = Pins(q)
         /\ next_page_id' = next_page_id
<1>1. \A q \in PageIds : Pins(q)' = Pins(q)
  BY DEF Pins, Resident
<1> QED  BY <1>1, PagesUntouched

\* flushPage writes the page as it is.
LEMMA FlushIsSync ==
  ASSUME StoreInv, NEW p \in PageIds, Flush(p)
  PROVE  /\ \A q \in PageIds : Kept(q) /\ Proper(q)' /\ Pins(q)' = Pins(q)
         /\ next_page_id' = next_page_id
<1>0. TypeOK /\ SessionInv /\ WrittenOrBlank /\ ZeroBody \notin Body
  BY Basics
<1>1. Resident(p)
  BY DEF Flush, FlushPage
<1>2. /\ page_table' = page_table /\ frames' = frames /\ pin_count' = pin_count
      /\ live' = live /\ next_page_id' = next_page_id
      /\ disk' = [disk EXCEPT ![p] = frames[page_table[p]]]
  BY DEF Flush, FlushPage, WritePage, clientVars
<1>3. /\ \A q \in PageIds : Pins(q)' = Pins(q)
      /\ \A q \in PageIds : Resident(q)' <=> Resident(q)
  BY <1>2 DEF Pins, Resident
<1>4. disk'[p] = frames[page_table[p]] /\ \A q \in PageIds \ {p} : disk'[q] = disk[q]
  BY <1>0, <1>2 DEF TypeOK
<1>5. ASSUME NEW q \in PageIds \ {p}  PROVE Kept(q) /\ Proper(q)'
  BY <1>2, <1>4, PageUntouched
<1>6. Kept(p) /\ Proper(p)'
  <2>1. CASE p \in live
    <3>1. Visible(p) \in Body /\ Visible(p) = frames[page_table[p]].body
      BY <1>1, <2>1, LivePage
    <3>2. Visible(p)' = Visible(p) /\ InFile(p)' = Visible(p)
      BY <1>0, <1>1, <1>2, <1>3, <1>4, <2>1, <3>1 DEF Visible, InFile
    <3> QED  BY <1>2, <2>1, <3>1, <3>2 DEF Kept, Proper
  <2>2. CASE p \notin live
    <3>1. frames[page_table[p]].body = ZeroBody
      BY <1>0, <1>1, <2>2 DEF WrittenOrBlank, Blank
    <3> QED  BY <1>2, <1>4, <2>2, <3>1 DEF Kept, Visible, InFile, Proper, Blank
  <2> QED  BY <2>1, <2>2
<1> QED  BY <1>2, <1>3, <1>5, <1>6

\* deletePage of a page nobody holds is Delete.
LEMMA DeleteIsDelete ==
  ASSUME StoreInv, NEW p \in PageIds, Delete(p), holds[p] = 0
  PROVE  /\ \A q \in PageIds \ {p} : Kept(q)
         /\ \A q \in PageIds : Proper(q)' /\ Pins(q)' = Pins(q)
         /\ Visible(p)' = Absent /\ InFile(p)' = Absent /\ Pins(p) = 0
         /\ next_page_id' = next_page_id
<1>0. TypeOK /\ SessionInv
  BY Basics
<1>1. /\ live' = live \ {p} /\ frames' = frames /\ disk' = disk
      /\ pin_count' = pin_count /\ next_page_id' = next_page_id
  BY DEF Delete, DeleteResident, DeleteAbsent, poolVars, metaVars, diskVars
<1>2. /\ ~ Resident(p)'
      /\ \A q \in PageIds \ {p} : page_table'[q] = page_table[q]
  BY <1>0 DEF Delete, DeleteResident, DeleteAbsent, poolVars, metaVars, TypeOK,
              Resident
<1>3. Pins(p) = 0 /\ Pins(p)' = 0
  BY <1>2, PinsAreHeld DEF Pins
<1>4. ASSUME NEW q \in PageIds \ {p}
      PROVE  Kept(q) /\ Proper(q)' /\ Pins(q)' = Pins(q)
  <2>1. Kept(q) /\ Proper(q)'
    BY <1>1, <1>2, PageUntouched
  <2>2. Pins(q)' = Pins(q)
    BY <1>1, <1>2 DEF Pins, Resident
  <2> QED  BY <2>1, <2>2
<1>5. Visible(p)' = Absent /\ InFile(p)' = Absent /\ Proper(p)'
  BY <1>1, <1>2 DEF Visible, InFile, Proper
<1> QED  BY <1>1, <1>3, <1>4, <1>5

\* Deleted pages are held by nobody.
LEMMA DeletedIsUnheld ==
  ASSUME StoreInv, NEW p \in PageIds, Delete(p)
  PROVE  holds[p] = 0
<1>1. PinsMatch
  BY Basics
<1> QED  BY <1>1 DEF Delete, DeleteResident, DeleteAbsent, PinsMatch

\* The destructor and the next constructor are Restart.
LEMMA RestartIsRestart ==
  ASSUME StoreInv, Restart
  PROVE  /\ \A q \in PageIds :
               /\ Visible(q)' = Visible(q) /\ InFile(q)' = Visible(q)
               /\ Proper(q)' /\ Pins(q) = 0 /\ Pins(q)' = 0
               /\ Visible(q)' # Absent => q < next_page_id'
         /\ next_page_id' <= next_page_id
<1>0. TypeOK /\ SessionInv /\ UnsavedHeld /\ ZeroBody \notin Body
  BY Basics
<1>1. /\ WriteAllDirty /\ live' = live /\ page_table' = NoTable
      /\ next_page_id' = file_pages' /\ \A q \in PageIds : holds[q] = 0
  BY DEF Restart, PoolRestart, clientVars
<1>2. /\ file_pages' <= next_page_id
      /\ \A q \in PageIds :
            \/ Resident(q) /\ disk'[q] = frames[page_table[q]]
            \/ /\ disk'[q] = disk[q]
               /\ Resident(q) => ~ is_dirty[page_table[q]]
  BY <1>0, <1>1, ClosingWrites
<1>3. unsaved = {}
  BY <1>0, <1>1 DEF UnsavedHeld, TypeOK
<1>4. ASSUME NEW q \in PageIds
      PROVE  ~ Resident(q)' /\ Pins(q) = 0 /\ Pins(q)' = 0
  <2>1. ~ Resident(q)'
    BY <1>1 DEF Resident, NoTable
  <2> QED  BY <1>1, <2>1, PinsAreHeld DEF Pins
<1>5. ASSUME NEW q \in live
      PROVE  Visible(q)' = Visible(q) /\ InFile(q)' = Visible(q) /\ Proper(q)'
  <2>1. q \in PageIds /\ Safe(q) /\ Visible(q) \in Body
    BY LivePage
  <2>2. disk'[q].body = Visible(q)
    <3>1. CASE Resident(q)
      <4>1. disk'[q] = frames[page_table[q]]
        BY <1>2, <1>3, <2>1, <3>1 DEF Safe
      <4> QED  BY <3>1, <4>1, LivePage
    <3>2. CASE ~ Resident(q)
      BY <1>2, <2>1, <3>2, LivePage
    <3> QED  BY <3>1, <3>2
  <2> QED  BY <1>0, <1>1, <1>4, <2>1, <2>2 DEF Visible, InFile, Proper
<1>6. ASSUME NEW q \in PageIds, q \notin live
      PROVE  /\ Visible(q) = Absent /\ Visible(q)' = Absent /\ InFile(q)' = Absent
             /\ Proper(q)'
  BY <1>1, <1>4, <1>6 DEF Visible, InFile, Proper
<1>7. ASSUME NEW q \in PageIds, Visible(q)' # Absent
      PROVE  q < next_page_id'
  <2>1. LivePagesSafe'
    BY <1>0, RestartKeepsInv DEF SessionInv
  <2>2. q \in live'
    BY <1>7 DEF Visible
  <2> QED  BY <2>1, <2>2 DEF LivePagesSafe
<1> QED  BY <1>1, <1>2, <1>4, <1>5, <1>6, <1>7

\* A crash is Crash: the next session finds what was in the file.
LEMMA CrashIsCrash ==
  ASSUME StoreInv, Crash
  PROVE  /\ \A q \in PageIds :
               /\ Visible(q)' = InFile(q) /\ InFile(q)' = InFile(q)
               /\ Proper(q)' /\ Pins(q)' = 0
               /\ Visible(q)' # Absent => q < next_page_id'
         /\ next_page_id' <= next_page_id
<1>0. TypeOK /\ SessionInv /\ IdsGivenOut /\ FileHonest /\ ZeroBody \notin Body
  BY Basics
<1>1. /\ disk' = disk /\ page_table' = NoTable /\ file_pages' = file_pages
      /\ next_page_id' = file_pages'
      /\ live' = {p \in live : disk[p].body # ZeroBody}
  BY DEF Crash, PoolRestart, diskVars
<1>2. ASSUME NEW q \in PageIds  PROVE ~ Resident(q)' /\ Pins(q)' = 0
  BY <1>1 DEF Resident, NoTable, Pins
<1>3. ASSUME NEW q \in PageIds
      PROVE  Visible(q)' = InFile(q) /\ InFile(q)' = InFile(q)
  BY <1>1, <1>2 DEF Visible, InFile
<1>4. ASSUME NEW q \in PageIds  PROVE Proper(q)'
  <2>1. disk[q].body \in Body \cup {ZeroBody}
    BY <1>0 DEF TypeOK, Page
  <2> QED  BY <1>1, <1>2, <2>1 DEF Proper, Visible
<1>5. ASSUME NEW q \in PageIds, Visible(q)' # Absent
      PROVE  q < next_page_id'
  BY <1>0, <1>1, <1>5 DEF Visible, FileHonest
<1>6. next_page_id' <= next_page_id
  BY <1>0, <1>1 DEF IdsGivenOut
<1> QED  BY <1>2, <1>3, <1>4, <1>5, <1>6

-----------------------------------------------------------------------------
(***************************************************************************)
(* The same, as steps of PageStore.                                        *)
(***************************************************************************)
\* What the store says of all pages, from what holds of each.
LEMMA MapsKept ==
  /\ (\A q \in PageIds : Kept(q)) =>
        /\ [q \in PageIds |-> Visible(q)]' = [q \in PageIds |-> Visible(q)]
        /\ Store!MaySync(PageIds)
  /\ (\A q \in PageIds : Pins(q)' = Pins(q)) =>
        [q \in PageIds |-> Pins(q)]' = [q \in PageIds |-> Pins(q)]
BY DEF Kept, Store!MaySync

LEMMA StoreSyncs ==
  ASSUME \A q \in PageIds : Kept(q) /\ Pins(q)' = Pins(q),
         next_page_id' = next_page_id
  PROVE  Store!Sync
BY MapsKept DEF Store!Sync

LEMMA StorePins ==
  ASSUME NEW p \in PageIds, Visible(p) # Absent, Pins(p)' = Pins(p) + 1,
         \A q \in PageIds : Kept(q), \A q \in PageIds \ {p} : Pins(q)' = Pins(q),
         next_page_id' = next_page_id
  PROVE  Store!Pin(p)
<1>1. [q \in PageIds |-> Pins(q)]' =
        [[q \in PageIds |-> Pins(q)] EXCEPT ![p] = @ + 1]
  OBVIOUS
<1> QED  BY <1>1, MapsKept DEF Store!Pin

LEMMA StoreUnpins ==
  ASSUME NEW p \in PageIds, Pins(p) # 0, Pins(p)' = Pins(p) - 1,
         \A q \in PageIds : Kept(q), \A q \in PageIds \ {p} : Pins(q)' = Pins(q),
         next_page_id' = next_page_id
  PROVE  Store!Unpin(p)
<1>1. [q \in PageIds |-> Pins(q)]' =
        [[q \in PageIds |-> Pins(q)] EXCEPT ![p] = @ - 1]
  OBVIOUS
<1> QED  BY <1>1, MapsKept DEF Store!Unpin

LEMMA StoreCreates ==
  ASSUME NEW p \in PageIds, p = next_page_id, next_page_id' = p + 1, Pins(p)' = 1,
         \A q \in PageIds : Kept(q), \A q \in PageIds \ {p} : Pins(q)' = Pins(q)
  PROVE  Store!Create(p)
<1>1. [q \in PageIds |-> Pins(q)]' = [[q \in PageIds |-> Pins(q)] EXCEPT ![p] = 1]
  OBVIOUS
<1>2. /\ p \notin 0 .. next_page_id - 1
      /\ 0 .. next_page_id' - 1 = (0 .. next_page_id - 1) \cup {p}
  BY MaxPagesAssumption DEF PageIds
<1> QED  BY <1>1, <1>2, MapsKept DEF Store!Create

LEMMA StoreWrites ==
  ASSUME NEW p \in PageIds, NEW b \in Body, Pins(p) # 0, Visible(p)' = b,
         InFile(p)' = InFile(p), \A q \in PageIds \ {p} : Kept(q),
         \A q \in PageIds : Pins(q)' = Pins(q), next_page_id' = next_page_id
  PROVE  Store!Write(p, b)
<1>1. [q \in PageIds |-> Visible(q)]' =
        [[q \in PageIds |-> Visible(q)] EXCEPT ![p] = b]
  BY DEF Kept
<1>2. Store!MaySync(PageIds)
  BY DEF Kept, Store!MaySync
<1> QED  BY <1>1, <1>2, MapsKept DEF Store!Write

LEMMA StoreDeletes ==
  ASSUME NEW p \in PageIds, Pins(p) = 0, Visible(p)' = Absent, InFile(p)' = Absent,
         \A q \in PageIds \ {p} : Kept(q),
         \A q \in PageIds : Pins(q)' = Pins(q), next_page_id' = next_page_id
  PROVE  Store!Delete(p)
<1>1. [q \in PageIds |-> Visible(q)]' =
        [[q \in PageIds |-> Visible(q)] EXCEPT ![p] = Absent]
  BY DEF Kept
<1>2. Store!MaySync(PageIds \ {p})
  BY DEF Kept, Store!MaySync
<1> QED  BY <1>1, <1>2, MapsKept DEF Store!Delete

\* The ids below a bound.
LEMMA IdsBelow ==
  ASSUME NEW m \in Nat
  PROVE  /\ \A n \in Nat : m <= n => 0 .. m - 1 \in SUBSET (0 .. n - 1)
         /\ \A q \in PageIds : q < m => q \in 0 .. m - 1
BY MaxPagesAssumption DEF PageIds

\* Ids of the next session.
LEMMA StoreReopens ==
  ASSUME TypeOK, TypeOK', next_page_id' <= next_page_id,
         \A q \in PageIds : Pins(q)' = 0 /\ (Visible(q)' # Absent => q < next_page_id')
  PROVE  Store!Reopened
<1>1. next_page_id \in Nat /\ next_page_id' \in Nat /\ MaxPages \in Nat
  BY MaxPagesAssumption DEF TypeOK
<1>2. 0 .. next_page_id' - 1 \in SUBSET (0 .. next_page_id - 1)
  BY <1>1, IdsBelow
<1>3. \A q \in PageIds : q < next_page_id' => q \in 0 .. next_page_id' - 1
  BY <1>1, IdsBelow
<1> QED  BY <1>2, <1>3 DEF Store!Reopened, Store!Nobody

LEMMA StoreRestarts ==
  ASSUME StoreInv, TypeOK', Restart
  PROVE  Store!Restart
<1>1. /\ \A q \in PageIds :
            /\ Visible(q)' = Visible(q) /\ InFile(q)' = Visible(q)
            /\ Pins(q) = 0 /\ Pins(q)' = 0
            /\ Visible(q)' # Absent => q < next_page_id'
      /\ next_page_id' <= next_page_id
  BY RestartIsRestart
<1>2. Store!Reopened
  BY <1>1, StoreReopens, Basics
<1> QED  BY <1>1, <1>2 DEF Store!Restart, Store!Nobody

LEMMA StoreCrashes ==
  ASSUME StoreInv, TypeOK', Crash
  PROVE  Store!Crash
<1>1. /\ \A q \in PageIds :
            /\ Visible(q)' = InFile(q) /\ InFile(q)' = InFile(q)
            /\ Pins(q)' = 0
            /\ Visible(q)' # Absent => q < next_page_id'
      /\ next_page_id' <= next_page_id
  BY CrashIsCrash
<1>2. Store!Reopened
  BY <1>1, StoreReopens, Basics
<1> QED  BY <1>1, <1>2 DEF Store!Crash

-----------------------------------------------------------------------------
\* A page of the file an earlier session left.
LEMMA InitMaps ==
  ASSUME Init
  PROVE  WrittenOrBlank /\ Store!StoreInit
<1>1. PICK b \in [PageIds -> Body] :
        disk = [p \in PageIds |-> IF p \in live
                                  THEN [page_id |-> p, body |-> b[p]]
                                  ELSE ZeroPage]
  BY DEF Init
<1>2. /\ live \in SUBSET (0 .. file_pages - 1) /\ file_pages \in 0 .. MaxPages
      /\ page_table = NoTable /\ next_page_id = file_pages
  BY DEF Init, PoolInit
<1>3. ZeroBody \notin Body /\ Absent \notin Body /\ MaxPages \in Nat
  BY BodyAssumption, MaxPagesAssumption
<1>4. ASSUME NEW p \in PageIds
      PROVE  /\ ~ Resident(p) /\ Pins(p) = 0 /\ InFile(p) = Visible(p)
             /\ IF p \in live THEN Visible(p) \in Body /\ p \in 0 .. next_page_id - 1
                ELSE Visible(p) = Absent
  <2>1. ~ Resident(p) /\ Pins(p) = 0
    BY <1>2 DEF Resident, NoTable, Pins
  <2>2. CASE p \in live
    BY <1>1, <1>2, <1>3, <2>1, <2>2 DEF Visible, InFile
  <2>3. CASE p \notin live
    BY <2>1, <2>3 DEF Visible, InFile
  <2> QED  BY <2>1, <2>2, <2>3
<1>5. WrittenOrBlank
  BY <1>4 DEF WrittenOrBlank
<1>6. 0 .. next_page_id - 1 \in SUBSET PageIds
  BY <1>2, <1>3 DEF PageIds
<1> QED  BY <1>4, <1>5, <1>6 DEF Store!StoreInit, Store!Nobody

\* Every step keeps the invariant, and is a step of the store or none.
LEMMA NextMaps ==
  ASSUME ProbeEmptyFile = FALSE, StoreInv, [Next]_vars
  PROVE  StoreInv' /\ [Store!StoreNext]_(Store!storeVars)
<1>0. IndInv' /\ TypeOK'
  BY NextKeepsInv DEF StoreInv, IndInv, SessionInv
<1> DEFINE Proper2 == \A q \in PageIds : Proper(q)'
           Step    == [Store!StoreNext]_(Store!storeVars)
<1>1. ASSUME NEW p \in PageIds, Fetch(p)  PROVE Proper2 /\ Step
  <2>1. Proper2 /\ Store!Pin(p)
    BY <1>1, FetchIsPin, StorePins
  <2> QED  BY <2>1 DEF Store!StoreNext
<1>2. ASSUME NEW p \in PageIds, Flush(p)  PROVE Proper2 /\ Step
  <2>1. Proper2 /\ Store!Sync
    BY <1>2, FlushIsSync, StoreSyncs
  <2> QED  BY <2>1 DEF Store!StoreNext
<1>3. ASSUME NEW p \in PageIds, Delete(p)  PROVE Proper2 /\ Step
  <2>1. Proper2 /\ Store!Delete(p)
    BY <1>3, DeletedIsUnheld, DeleteIsDelete, StoreDeletes
  <2> QED  BY <2>1 DEF Store!StoreNext
<1>4. ASSUME NEW p \in PageIds, NEW b \in Body, Write(p, b)  PROVE Proper2 /\ Step
  <2>1. Proper2 /\ Store!Write(p, b)
    BY <1>4, WriteIsWrite, StoreWrites
  <2> QED  BY <2>1 DEF Store!StoreNext
<1>5. ASSUME NEW p \in PageIds, NEW dirty \in BOOLEAN, Release(p, dirty)
      PROVE  Proper2 /\ Step
  <2>1. Proper2 /\ Store!Unpin(p)
    BY <1>5, ReleaseIsUnpin, StoreUnpins
  <2> QED  BY <2>1 DEF Store!StoreNext
<1>6. ASSUME New  PROVE Proper2 /\ Step
  <2>1. PICK p \in PageIds :
            /\ p = next_page_id /\ next_page_id' = p + 1
            /\ \A q \in PageIds : Kept(q) /\ Proper(q)'
            /\ Pins(p)' = 1
            /\ \A q \in PageIds \ {p} : Pins(q)' = Pins(q)
    BY <1>6, NewIsCreate
  <2>2. Proper2 /\ Store!Create(p)
    BY <2>1, StoreCreates
  <2> QED  BY <2>2 DEF Store!StoreNext
<1>7. ASSUME \/ UNCHANGED vars \/ NewNull
             \/ \E p \in PageIds : FetchNull(p) \/ DeleteNull(p)
             \/ \E p \in PageIds, dirty \in BOOLEAN : ReleaseUnheld(p, dirty)
      PROVE  Proper2 /\ Step
  <2>1. /\ page_table' = page_table /\ frames' = frames /\ disk' = disk
        /\ live' = live /\ pin_count' = pin_count /\ next_page_id' = next_page_id
    <3>1. CASE UNCHANGED vars
      BY <3>1 DEF vars, poolVars, metaVars, diskVars, clientVars
    <3>2. CASE NewNull \/ \E p \in PageIds : FetchNull(p) \/ DeleteNull(p)
      BY <3>2 DEF NewNull, NewFails, FetchNull, FetchFails, DeleteNull,
                  DeleteRefused, poolVars, metaVars, diskVars, clientVars
    <3>3. ASSUME NEW p \in PageIds, NEW dirty \in BOOLEAN, ReleaseUnheld(p, dirty)
          PROVE  /\ page_table' = page_table /\ frames' = frames /\ disk' = disk
                 /\ live' = live /\ pin_count' = pin_count
                 /\ next_page_id' = next_page_id
      <4>1. Resident(p) => pin_count[page_table[p]] = 0
        BY <3>3, Basics, ResidentPage DEF ReleaseUnheld
      <4> QED
        BY <3>3, <4>1 DEF ReleaseUnheld, UnpinPage, UnpinAbsent, UnpinIdle,
                          UnpinPinned, poolVars, metaVars, diskVars, clientVars
    <3> QED  BY <1>7, <3>1, <3>2, <3>3
  <2>2. Proper2 /\ Store!Sync
    BY <2>1, NothingHappens, StoreSyncs
  <2> QED  BY <2>2 DEF Store!StoreNext
<1>8. ASSUME Restart  PROVE Proper2 /\ Step
  <2>1. Proper2 /\ Store!Restart
    BY <1>0, <1>8, RestartIsRestart, StoreRestarts
  <2> QED  BY <2>1 DEF Store!StoreNext
<1>9. ASSUME Crash  PROVE Proper2 /\ Step
  <2>1. Proper2 /\ Store!Crash
    BY <1>0, <1>9, CrashIsCrash, StoreCrashes
  <2> QED  BY <2>1 DEF Store!StoreNext
<1>10. Proper2 /\ Step
  BY <1>1, <1>2, <1>3, <1>4, <1>5, <1>6, <1>7, <1>8, <1>9 DEF Next
<1> QED  BY <1>0, <1>10, AllProper DEF StoreInv

\* A page somebody wrote never reads as blank, and a new page is blank in RAM and
\* in the file, whatever was evicted, closed or crashed before.
THEOREM WrittenPagesAreNeverBlank ==
  ASSUME ProbeEmptyFile = FALSE
  PROVE  Spec => []WrittenOrBlank
<1>1. Init => StoreInv
  BY InitMaps, InitInv, InitHonest DEF StoreInv, IndInv
<1>2. StoreInv /\ [Next]_vars => StoreInv'
  BY NextMaps
<1>3. StoreInv => WrittenOrBlank
  BY DEF StoreInv
<1> QED  BY <1>1, <1>2, <1>3, PTL DEF Spec

\* fetchPage, newPage, unpinPage, flushPage, deletePage, the destructor and a
\* crash do to the contents of pages what PageStore says, with any frames.
THEOREM PoolIsPageStore ==
  ASSUME ProbeEmptyFile = FALSE
  PROVE  Spec => ImplementsPageStore
<1>1. Init => StoreInv /\ Store!StoreInit
  BY InitMaps, InitInv, InitHonest DEF StoreInv, IndInv
<1>2. StoreInv /\ [Next]_vars => StoreInv' /\ [Store!StoreNext]_(Store!storeVars)
  BY NextMaps
<1> QED  BY <1>1, <1>2, PTL DEF Spec, ImplementsPageStore, Store!StoreSpec
=============================================================================
