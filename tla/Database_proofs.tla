----------------------------- MODULE Database_proofs -----------------------------
(***************************************************************************)
(* The whole engine on an existing file, for every size of pool, pages and *)
(* file, and whatever its callers do.  The argument is in three layers:    *)
(*   - the pool, with its pins where this program has them and its bodies  *)
(*     as they are, satisfies the invariant of BufferPool_proofs, and each *)
(*     step either leaves the contents of all pages alone or writes one;   *)
(*   - on these contents the steps of the tree keep TreeStands, and what   *)
(*     the thread knows at each label;                                     *)
(*   - with both, each step is one that BufferPool allows its users.       *)
(* A fourth is on top of them for callers who use the engine properly:     *)
(* KeysInPlace, that descents end where keys are, and right answers.         *)
(***************************************************************************)
EXTENDS Database, BPlusTreePage_proofs, TLAPS

\* The pool of this program, bodies as they are.
P == INSTANCE PageStore_proofs WITH
  Body           <- Bodies,
  Absent         <- ZeroBody,
  MaxPins        <- 1,
  ProbeEmptyFile <- FALSE,
  holds          <- [p \in PageIds |-> IF p \in DOMAIN held THEN 1 ELSE 0],
  handle         <- [p \in PageIds |-> IF p \in DOMAIN held THEN held[p]
                                      ELSE NoFrame],
  unsaved        <- changed,
  live           <- Written

\* What BufferPool assumes of its constants.
LEMMA PoolAssumptions ==
  /\ PoolSize \in Nat \ {0} /\ MaxPages \in Nat \ {0}
  /\ NoFrame \notin 0 .. PoolSize - 1
  /\ ZeroBody \notin Bodies /\ 1 \in Nat \ {0} /\ FALSE \in BOOLEAN
BY PoolSizeAssumption, MaxPagesAssumption, NoFrameAssumption, ZeroBodyAssumption

-----------------------------------------------------------------------------
(***************************************************************************)
(* The operators of the pool are the same for both.                        *)
(***************************************************************************)
LEMMA SameSets == P!PageIds = PageIds /\ P!Frames = Frames /\ P!ZeroPage = ZeroPage
BY DEF P!PageIds, PageIds, P!Frames, Frames, P!ZeroPage, ZeroPage

LEMMA SameResident == ASSUME NEW p PROVE P!Resident(p) <=> Resident(p)
BY DEF P!Resident, Resident

LEMMA SameContents ==
  ASSUME NEW p \in PageIds
  PROVE  P!Contents(p) = Contents[p] /\ P!Contents(p)' = Contents'[p]
BY DEF P!Contents, Contents, Current, P!Resident, Resident

LEMMA SameContentsKept ==
  ASSUME \A q \in PageIds : P!Contents(q)' = P!Contents(q)
  PROVE  Contents' = Contents
<1>1. \A q \in PageIds : Contents'[q] = Contents[q]
  BY SameContents
<1> QED  BY <1>1 DEF Contents

LEMMA SameWrite ==
  ASSUME NEW p, NEW page PROVE P!WritePage(p, page) <=> WritePage(p, page)
BY DEF P!WritePage, WritePage

LEMMA SameRemove ==
  ASSUME NEW lru, NEW f PROVE P!LruPin(lru, f) = LruPin(lru, f)
<1>1. ASSUME NEW i PROVE P!RemoveAt(lru, i) = RemoveAt(lru, i)
  BY DEF P!RemoveAt, RemoveAt
<1>2. ASSUME NEW S PROVE P!Min(S) = Min(S)
  BY DEF P!Min, Min
<1>3. P!SelectInSeq(lru, LAMBDA v : v = f) = SelectInSeq(lru, LAMBDA v : v = f)
  BY <1>2, ZenonT(30) DEF P!SelectInSeq, SelectInSeq
<1> QED  BY <1>1, <1>3, Zenon DEF P!LruPin, LruPin, P!RemoveFirst, RemoveFirst

LEMMA SameClaimed ==
  /\ P!CanClaim <=> CanClaim
  /\ P!ClaimedFrame = ClaimedFrame
  /\ P!LruAfterClaim = LruAfterClaim
  /\ P!TableAfterClaim = TableAfterClaim
BY DEF P!CanClaim, CanClaim, P!ClaimedFrame, ClaimedFrame, P!LruAfterClaim, LruAfterClaim,
       P!TableAfterClaim, TableAfterClaim, P!LruHasVictim, LruHasVictim,
       P!LruVictim, LruVictim, P!LruAfterVictim, LruAfterVictim

LEMMA SameClaim == P!Claim <=> Claim
BY SameClaimed, SameWrite DEF P!Claim, Claim, P!LruVictim, LruVictim, P!diskVars, diskVars

LEMMA SameInstall ==
  ASSUME NEW p, NEW page PROVE P!Install(p, page) <=> Install(p, page)
BY SameClaimed DEF P!Install, Install

LEMMA SameFetch ==
  ASSUME NEW p
  PROVE  /\ P!FetchHit(p) <=> FetchHit(p)
         /\ P!FetchMiss(p) <=> FetchMiss(p)
<1>1. P!FetchHit(p) <=> FetchHit(p)
  BY SameRemove, SameResident DEF P!FetchHit, FetchHit, P!diskVars, diskVars
<1>2. P!FetchMiss(p) <=> FetchMiss(p)
  BY SameRemove, SameResident, SameClaimed, SameClaim, SameInstall DEF P!FetchMiss, FetchMiss
<1> QED  BY <1>1, <1>2

LEMMA SameNew == P!NewPage <=> NewPage
BY SameClaimed, SameClaim, SameInstall DEF P!NewPage, NewPage

LEMMA SameUnpin ==
  ASSUME NEW p, NEW dirty PROVE P!UnpinPage(p, dirty) <=> UnpinPage(p, dirty)
<1>1. ASSUME NEW lru, NEW f, NEW n PROVE P!LruUnpin(lru, f, n) = LruUnpin(lru, f, n)
  BY DEF P!LruUnpin, LruUnpin, P!ToSet, ToSet
<1>2. ASSUME NEW f PROVE P!MarkDirty(f, dirty) <=> MarkDirty(f, dirty)
  BY DEF P!MarkDirty, MarkDirty
<1>3. P!UnpinAbsent(p, dirty) <=> UnpinAbsent(p, dirty)
  BY SameResident DEF P!UnpinAbsent, UnpinAbsent, P!poolVars, poolVars, P!metaVars,
     metaVars, P!diskVars, diskVars
<1>4. P!UnpinIdle(p, dirty) <=> UnpinIdle(p, dirty)
  BY SameResident, <1>2 DEF P!UnpinIdle, UnpinIdle, P!diskVars, diskVars
<1>5. P!UnpinPinned(p, dirty) <=> UnpinPinned(p, dirty)
  BY SameResident, <1>1, <1>2 DEF P!UnpinPinned, UnpinPinned, P!diskVars, diskVars
<1> QED  BY <1>3, <1>4, <1>5 DEF P!UnpinPage, UnpinPage

LEMMA SameInit == P!PoolInit <=> PoolInit
BY SameSets DEF P!PoolInit, PoolInit, P!NoTable, NoTable, P!NoPages, NoPages, P!AllFree,
   AllFree, P!AllUnused, AllUnused, P!AllClean, AllClean

LEMMA SameRestart == P!PoolRestart <=> PoolRestart
BY SameSets DEF P!PoolRestart, PoolRestart, P!NoTable, NoTable, P!NoPages, NoPages,
   P!AllFree, AllFree, P!AllUnused, AllUnused, P!AllClean, AllClean

LEMMA SameClose == P!WriteAllDirty <=> WriteAllDirty
<1>1. ASSUME NEW S PROVE P!Max(S) = Max(S)
  BY DEF P!Max, Max
<1>2. ASSUME NEW p PROVE P!DirtyFramesOf(p) = DirtyFramesOf(p)
  BY SameSets DEF P!DirtyFramesOf, DirtyFramesOf
<1> QED  BY SameSets, <1>1, <1>2 DEF P!WriteAllDirty, WriteAllDirty

-----------------------------------------------------------------------------
(***************************************************************************)
(* What the calls of the pool do, for a thread that keeps its contract.    *)
(***************************************************************************)
PoolInv == P!StoreInv

Holds  == [p \in PageIds |-> IF p \in DOMAIN held THEN 1 ELSE 0]
Handle == [p \in PageIds |-> IF p \in DOMAIN held THEN held[p] ELSE NoFrame]

\* A pointer leads to the page, and nobody moves it.
LEMMA Pointer ==
  ASSUME PoolInv, NEW p \in DOMAIN held, p \in PageIds
  PROVE  /\ Resident(p) /\ page_table[p] = held[p] /\ held[p] \in Frames
         /\ pin_count[held[p]] = 1
         /\ Header(p) = p /\ frames[held[p]].body = Contents[p]
<1>1. P!PinnedStay /\ P!TypeOK
  BY P!Basics, PoolAssumptions DEF PoolInv
<1>2. Holds[p] > 0 /\ Handle[p] = held[p] /\ Holds[p] = 1
  BY DEF Holds, Handle
<1>3. /\ P!Resident(p) /\ page_table[p] = held[p]
      /\ frames[held[p]].page_id = p /\ pin_count[held[p]] = 1
  BY <1>1, <1>2, SameSets DEF P!PinnedStay, Holds, Handle
<1>4. page_table[p] \in Frames \cup {NoFrame}
  BY <1>1, SameSets DEF P!TypeOK
<1> QED  BY <1>3, <1>4, SameResident DEF Header, Contents, Current, Resident

LEMMA PoolStep ==
  ASSUME PoolInv, P!Next, \A q \in PageIds : P!Proper(q)'
  PROVE  PoolInv'
<1>1. P!IndInv'
  BY P!NextKeepsInv, PoolAssumptions DEF PoolInv, P!StoreInv
<1>2. P!WrittenOrBlank'
  BY P!AllProper, PoolAssumptions, SameSets
<1> QED  BY <1>1, <1>2 DEF PoolInv, P!StoreInv

\* Where the contents of no page change, the same pages are written.
LEMMA SameWritten ==
  ASSUME Contents' = Contents
  PROVE  Written' = Written
BY DEF Written

LEMMA FetchStep ==
  ASSUME PoolInv, DOMAIN held \subseteq PageIds, NEW p \in PageIds,
         Contents[p] # ZeroBody, p \notin DOMAIN held, Fetch(p)
  PROVE  /\ PoolInv' /\ P!Fetch(p)
         /\ Contents' = Contents
         /\ DOMAIN held' = DOMAIN held \cup {p} /\ changed' = changed
<1>1. p \in P!PageIds /\ (P!FetchHit(p) \/ P!FetchMiss(p))
  BY SameSets, SameFetch DEF Fetch
<1>2. Contents' = Contents
  BY <1>1, P!FetchKeepsContents, PoolAssumptions, SameSets, SameContentsKept
     DEF PoolInv
<1>3. held' = Holding(p, page_table'[p]) /\ changed' = changed
  BY DEF Fetch
<1>4. /\ DOMAIN held' = DOMAIN held \cup {p} /\ held'[p] = page_table'[p]
      /\ \A q \in DOMAIN held : held'[q] = held[q]
  BY <1>3 DEF Holding
<1>5. P!Fetch(p)
  <2>1. p \in P!Fetchable
    BY DEF P!Fetchable, Written
  <2>2. Holds[p] = 0 /\ Holds' = [Holds EXCEPT ![p] = @ + 1]
    <3>1. Holds[p] = 0 /\ Holds[p] + 1 = 1
      BY DEF Holds
    <3>2. Holds' = [Holds EXCEPT ![p] = 1]
      BY <1>4 DEF Holds
    <3> QED  BY <3>1, <3>2, Zenon
  <2>3. Handle' = [Handle EXCEPT ![p] = page_table'[p]]
    BY <1>4 DEF Handle
  <2>4. Written' = Written
    BY <1>2, SameWritten
  <2> QED  BY <1>1, <1>3, <2>1, <2>2, <2>3, <2>4 DEF P!Fetch, Holds, Handle
<1>6. \A q \in PageIds : P!Proper(q)'
  BY <1>1, <1>5, P!FetchIsPin, PoolAssumptions, SameSets DEF PoolInv
<1>7. P!Next
  BY <1>1, <1>5 DEF P!Next
<1> QED  BY <1>2, <1>3, <1>4, <1>5, <1>6, <1>7, PoolStep

LEMMA NewStep ==
  ASSUME PoolInv, DOMAIN held \subseteq PageIds, New
  PROVE  /\ PoolInv' /\ P!New
         /\ next_page_id \in PageIds /\ Contents[next_page_id] = ZeroBody
         /\ next_page_id \notin DOMAIN held
         /\ Contents' = Contents
         /\ DOMAIN held' = DOMAIN held \cup {next_page_id} /\ changed' = changed
<1>1. P!NewPage
  BY SameNew DEF New
<1>2. /\ next_page_id \in PageIds /\ ~ Resident(next_page_id)
      /\ Contents[next_page_id] = ZeroBody
      /\ Contents' = Contents
  BY <1>1, P!NewKeepsContents, PoolAssumptions, SameSets, SameResident, SameContents,
     SameContentsKept DEF PoolInv
<1>3. next_page_id \notin DOMAIN held
  BY <1>2, Pointer
<1>4. held' = Holding(next_page_id, ClaimedFrame) /\ changed' = changed
  BY DEF New
<1>5. /\ DOMAIN held' = DOMAIN held \cup {next_page_id}
      /\ held'[next_page_id] = ClaimedFrame
      /\ \A q \in DOMAIN held : held'[q] = held[q]
  BY <1>3, <1>4 DEF Holding
<1>6. P!New
  <2>1. Holds' = [Holds EXCEPT ![next_page_id] = 1]
    BY <1>2, <1>5 DEF Holds
  <2>2. Handle' = [Handle EXCEPT ![next_page_id] = ClaimedFrame]
    BY <1>2, <1>5 DEF Handle
  <2>3. Written' = Written
    BY <1>2, SameWritten
  <2> QED  BY <1>1, <1>4, <2>1, <2>2, <2>3, SameClaimed DEF P!New, Holds, Handle
<1>7. \A q \in PageIds : P!Proper(q)'
  BY <1>6, P!NewIsCreate, PoolAssumptions, SameSets DEF PoolInv
<1>8. P!Next
  BY <1>6 DEF P!Next
<1> QED  BY <1>2, <1>3, <1>4, <1>5, <1>6, <1>7, <1>8, PoolStep

LEMMA WriteStep ==
  ASSUME PoolInv, DOMAIN held \subseteq PageIds, NEW p \in DOMAIN held,
         NEW body \in Bodies, Write(p, body)
  PROVE  /\ PoolInv' /\ P!Write(p, body)
         /\ Contents' = [Contents EXCEPT ![p] = body]
         /\ held' = held /\ changed' = changed \cup {p}
<1>1. /\ p \in PageIds /\ Resident(p) /\ page_table[p] = held[p] /\ held[p] \in Frames
      /\ p \in P!PageIds
  BY Pointer, SameSets
<1>2. /\ frames' = [frames EXCEPT ![held[p]].body = body]
      /\ changed' = changed \cup {p} /\ held' = held
      /\ page_table' = page_table /\ free_list' = free_list /\ lru_list' = lru_list
      /\ pin_count' = pin_count /\ is_dirty' = is_dirty
      /\ next_page_id' = next_page_id /\ disk' = disk /\ file_pages' = file_pages
  BY DEF Write, diskVars
<1>3. /\ P!SessionInv /\ P!TypeOK /\ P!HeadersMatch /\ P!IdsGivenOut
  BY P!Basics, PoolAssumptions DEF PoolInv
<1>4. frames[held[p]] \in P!Page /\ frames \in [Frames -> P!Page]
  BY <1>1, <1>3, SameSets DEF P!TypeOK
<1>5. /\ frames'[held[p]].body = body
      /\ \A g \in Frames \ {held[p]} : frames'[g] = frames[g]
  BY <1>1, <1>2, <1>4 DEF P!Page
<1>6. Contents'[p] = body
  BY <1>1, <1>2, <1>5 DEF Contents, Current, Resident
<1>7. ASSUME NEW q \in PageIds \ {p} PROVE Contents'[q] = Contents[q]
  <2>1. page_table[q] \in Frames \cup {NoFrame} /\ q \in P!PageIds
    BY <1>3, SameSets DEF P!TypeOK
  <2>2. Resident(q) => page_table[q] # held[p]
    BY <1>1, <1>3, <2>1, SameResident DEF P!HeadersMatch
  <2> QED  BY <1>2, <1>5, <2>1, <2>2 DEF Contents, Current, Resident
<1>8. Contents' = [Contents EXCEPT ![p] = body]
  <2>1. \A q \in PageIds : Contents'[q] = [Contents EXCEPT ![p] = body][q]
    BY <1>1, <1>6, <1>7 DEF Contents
  <2> QED  BY <2>1 DEF Contents
<1>9. Written' = Written \cup {p}
  BY <1>1, <1>6, <1>7, ZeroBodyAssumption DEF Written
<1>10. P!Write(p, body)
  <2>1. Holds[p] > 0 /\ Handle[p] = held[p] /\ Holds' = Holds /\ Handle' = Handle
    BY <1>1, <1>2 DEF Holds, Handle
  <2>2. p < next_page_id
    BY <1>1, <1>3, SameResident DEF P!IdsGivenOut
  <2> QED  BY <1>1, <1>2, <1>9, <2>1, <2>2 DEF P!Write, P!diskVars, Holds, Handle
<1>11. \A q \in PageIds : P!Proper(q)'
  BY <1>1, <1>10, P!WriteIsWrite, PoolAssumptions, SameSets DEF PoolInv
<1>12. P!Next
  BY <1>1, <1>10 DEF P!Next
<1> QED  BY <1>2, <1>8, <1>10, <1>11, <1>12, PoolStep

LEMMA UnpinStep ==
  ASSUME PoolInv, DOMAIN held \subseteq PageIds, NEW p \in DOMAIN held,
         NEW dirty \in BOOLEAN, Unpin(p, dirty),
         IF dirty THEN Contents[p] # ZeroBody ELSE p \notin changed
  PROVE  /\ PoolInv' /\ P!Release(p, dirty)
         /\ Contents' = Contents
         /\ DOMAIN held' = DOMAIN held \ {p}
         /\ changed' = IF dirty THEN changed \ {p} ELSE changed
<1>1. P!UnpinPage(p, dirty) /\ p \in PageIds /\ p \in P!PageIds
  BY SameUnpin, SameSets DEF Unpin
<1>2. Contents' = Contents
  BY <1>1, P!UnpinKeepsContents, PoolAssumptions, SameSets, SameContentsKept
<1>3. /\ held' = Restrict(held, DOMAIN held \ {p})
      /\ changed' = IF dirty THEN changed \ {p} ELSE changed
  BY DEF Unpin
<1>4. /\ DOMAIN held' = DOMAIN held \ {p}
      /\ \A q \in DOMAIN held' : held'[q] = held[q]
  BY <1>3 DEF Restrict
<1>5. P!Release(p, dirty)
  <2>1. Holds[p] = 1 /\ Holds[p] - 1 = 0 /\ Holds[p] > 0
    BY <1>1 DEF Holds
  <2>2. Holds' = [Holds EXCEPT ![p] = 0]
    BY <1>1, <1>4 DEF Holds
  <2>3. Holds' = [Holds EXCEPT ![p] = @ - 1]
    BY <2>1, <2>2, Zenon
  <2>4. Handle' = [Handle EXCEPT ![p] = NoFrame]
    BY <1>1, <1>4 DEF Handle
  <2>5. Handle' = [Handle EXCEPT ![p] = IF Holds[p] = 1 THEN NoFrame ELSE @]
    BY <2>1, <2>4, Zenon
  <2>6. Written' = Written
    BY <1>2, SameWritten
  <2>7. IF dirty THEN p \in Written ELSE p \notin changed
    BY <1>1 DEF Written
  <2> QED  BY <1>1, <1>3, <2>1, <2>3, <2>5, <2>6, <2>7 DEF P!Release, Holds, Handle
<1>6. \A q \in PageIds : P!Proper(q)'
  BY <1>1, <1>5, P!ReleaseIsUnpin, PoolAssumptions, SameSets DEF PoolInv
<1>7. P!Next
  BY <1>1, <1>5 DEF P!Next
<1> QED  BY <1>2, <1>3, <1>4, <1>5, <1>6, <1>7, PoolStep

\* The database is closed between two calls.
LEMMA CloseStep ==
  ASSUME PoolInv, DOMAIN held = {}, WriteAllDirty, PoolRestart, held' = NoneHeld,
         changed' = changed
  PROVE  /\ PoolInv' /\ P!Restart
         /\ Contents' = Contents /\ DOMAIN held' = {}
<1>1. /\ P!WriteAllDirty /\ P!PoolRestart
      /\ DOMAIN held' = {}
  BY SameClose, SameRestart DEF NoneHeld
<1>2. /\ \A q \in PageIds : Holds[q] = 0
      /\ Holds' = Holds /\ Handle' = Handle
  BY <1>1 DEF Holds, Handle
<1>3. Contents' = Contents
  BY <1>1, <1>2, P!CloseKeepsContents, PoolAssumptions, SameSets, SameContentsKept
     DEF PoolInv, Holds
<1>4. P!Restart
  BY <1>1, <1>2, <1>3, SameWritten, SameSets DEF P!Restart, P!clientVars, Holds, Handle
<1>5. \A q \in PageIds : P!Proper(q)'
  BY <1>4, P!RestartIsRestart, PoolAssumptions, SameSets DEF PoolInv
<1>6. P!Next
  BY <1>4 DEF P!Next
<1> QED  BY <1>1, <1>3, <1>4, <1>5, <1>6, PoolStep

LEMMA StutterStep ==
  ASSUME PoolInv, UNCHANGED <<poolVars, held, changed>>
  PROVE  /\ PoolInv' /\ UNCHANGED P!vars
         /\ Contents' = Contents /\ held' = held /\ changed' = changed
<1>1. /\ page_table' = page_table /\ free_list' = free_list /\ lru_list' = lru_list
      /\ pin_count' = pin_count /\ is_dirty' = is_dirty /\ frames' = frames
      /\ next_page_id' = next_page_id /\ disk' = disk /\ file_pages' = file_pages
      /\ held' = held /\ changed' = changed
  BY DEF poolVars, metaVars, diskVars
<1>2. Contents' = Contents
  BY <1>1 DEF Contents, Current, Resident
<1>3. Written' = Written /\ Holds' = Holds /\ Handle' = Handle
  BY <1>1, <1>2, SameWritten DEF Holds, Handle
<1>4. UNCHANGED P!vars
  BY <1>1, <1>3 DEF P!vars, P!poolVars, P!metaVars, P!diskVars, P!clientVars, Holds, Handle
<1>5. \A q \in PageIds : P!Proper(q)'
  BY <1>1, <1>3, P!PagesUntouched, PoolAssumptions, SameSets DEF PoolInv
<1>6. P!IndInv'
  BY <1>4, P!NextKeepsInv, PoolAssumptions DEF PoolInv, P!StoreInv
<1>7. P!WrittenOrBlank'
  BY <1>5, P!AllProper, PoolAssumptions, SameSets
<1> QED  BY <1>1, <1>2, <1>4, <1>6, <1>7 DEF PoolInv, P!StoreInv

\* Two frames are enough for a thread that holds one page.
LEMMA FrameLeft ==
  ASSUME PoolInv, PoolSize > 1, NEW p, DOMAIN held \subseteq {p},
         DOMAIN held \subseteq PageIds
  PROVE  CanClaim
<1>1. P!FramesAccounted /\ P!PinsMatch /\ P!TypeOK
  BY P!Basics, PoolAssumptions DEF PoolInv
<1>2. SUFFICES ASSUME free_list = << >>, lru_list = << >>
               PROVE  FALSE
  BY DEF CanClaim, LruHasVictim
<1>3. 0 \in Frames /\ 1 \in Frames
  BY PoolSizeAssumption DEF Frames
<1>4. ASSUME NEW f \in Frames
      PROVE  frames[f].page_id \in DOMAIN held /\ page_table[frames[f].page_id] = f
  <2>1. f \notin P!ToSet(free_list) /\ f \notin P!ToSet(lru_list)
    BY <1>2 DEF P!ToSet
  <2>2. P!Mapped(f) /\ pin_count[f] # 0
    BY <1>1, <2>1, SameSets DEF P!FramesAccounted
  <2>3. frames[f] \in P!Page
    BY <1>1, SameSets DEF P!TypeOK
  <2>4. PICK q \in PageIds : q = frames[f].page_id
    BY <2>3, SameSets DEF P!Page
  <2>5. page_table[q] = f /\ P!Resident(q)
    BY <2>2, <2>4, NoFrameAssumption DEF P!Mapped, P!Resident, Frames
  <2>6. Holds[q] # 0
    BY <1>1, <2>2, <2>5, SameSets DEF P!PinsMatch, Holds
  <2> QED  BY <2>4, <2>5, <2>6 DEF Holds
<1> QED  BY <1>3, <1>4

-----------------------------------------------------------------------------
(***************************************************************************)
(* Bodies of pages.                                                        *)
(***************************************************************************)

LEMMA MakeLeaf ==
  ASSUME NEW entries \in Seq(EntryRecords), NEW parent \in PageIds, NEW next \in PageIds
  PROVE  /\ Leaf(entries, parent, next) \in LeafBodies
         /\ Leaf(entries, parent, next).entries = entries
         /\ Leaf(entries, parent, next).parent = parent
BY DEF Leaf, LeafBodies, EntryRecords

LEMMA MakeInternal ==
  ASSUME NEW keys \in Seq(Keys), NEW children \in Seq(PageIds), NEW parent \in PageIds
  PROVE  /\ Internal(keys, children, parent) \in InternalBodies
         /\ Internal(keys, children, parent).keys = keys
         /\ Internal(keys, children, parent).children = children
BY DEF Internal, InternalBodies

LEMMA RecordDomain ==
  ASSUME NEW k \in Keys
  PROVE  DOMAIN Record(k) = {"record"} /\ Record(k).record = k
BY DEF Record

LEMMA LeafParts ==
  ASSUME NEW b \in LeafBodies
  PROVE  /\ b \in Bodies /\ b # ZeroBody /\ AsNode(b) = b /\ b.is_leaf
         /\ b.entries \in Seq(EntryRecords) /\ b.parent \in PageIds /\ b.next \in PageIds
         /\ b \notin InternalBodies /\ \A k \in Keys : b # Record(k)
<1>1. /\ b.is_leaf = TRUE /\ DOMAIN b = {"is_leaf", "entries", "parent", "next"}
      /\ b.entries \in Seq(EntryRecords) /\ b.parent \in PageIds /\ b.next \in PageIds
  BY DEF LeafBodies, EntryRecords
<1>2. b \in Bodies /\ b # ZeroBody
  BY ZeroBodyAssumption DEF Bodies
<1>3. b \notin InternalBodies
  BY <1>1 DEF InternalBodies
<1>4. ASSUME NEW k \in Keys PROVE b # Record(k)
  BY <1>1, RecordDomain
<1> QED  BY <1>1, <1>2, <1>3, <1>4 DEF AsNode

LEMMA InternalParts ==
  ASSUME NEW b \in InternalBodies
  PROVE  /\ b \in Bodies /\ b # ZeroBody /\ AsNode(b) = b /\ ~ b.is_leaf
         /\ b.keys \in Seq(Keys) /\ b.children \in Seq(PageIds) /\ b.parent \in PageIds
         /\ b \notin LeafBodies /\ \A k \in Keys : b # Record(k)
<1>1. /\ b.is_leaf = FALSE /\ DOMAIN b = {"is_leaf", "keys", "children", "parent"}
      /\ b.keys \in Seq(Keys) /\ b.children \in Seq(PageIds) /\ b.parent \in PageIds
  BY DEF InternalBodies
<1>2. b \in Bodies /\ b # ZeroBody
  BY ZeroBodyAssumption DEF Bodies
<1>3. b \notin LeafBodies
  BY <1>1 DEF LeafBodies
<1>4. ASSUME NEW k \in Keys PROVE b # Record(k)
  BY <1>1, RecordDomain
<1> QED  BY <1>1, <1>2, <1>3, <1>4 DEF AsNode

LEMMA RecordParts ==
  ASSUME NEW k \in Keys
  PROVE  /\ Record(k) \in Bodies /\ Record(k) # ZeroBody /\ RecordOf(Record(k)) = k
         /\ Record(k) \notin LeafBodies /\ Record(k) \notin InternalBodies
<1>1. Record(k) \in Bodies
  BY DEF Bodies, Record
<1> QED  BY <1>1, ZeroBodyAssumption, LeafParts, InternalParts, RecordDomain DEF RecordOf

LEMMA ZeroParts == ZeroBody \notin LeafBodies /\ ZeroBody \notin InternalBodies
                   /\ \A k \in Keys : ZeroBody # Record(k)
BY ZeroBodyAssumption DEF Bodies, Record

-----------------------------------------------------------------------------
(***************************************************************************)
(* What the writes of the tree do to the tree.                             *)
(***************************************************************************)
LEMMA EntryParts ==
  ASSUME NEW entries \in Seq(EntryRecords), NEW e \in ToSet(entries)
  PROVE  e \in EntryRecords /\ e.value \in PageIds /\ e.key \in Keys
<1>1. e \in EntryRecords
  BY Elements
<1> QED  BY <1>1 DEF EntryRecords

\* Nothing is written, and the root stays.
LEMMA SameTree ==
  ASSUME Contents' = Contents, root_page_id' = root_page_id
  PROVE  /\ LeafPages' = LeafPages /\ Root' = Root
         /\ TreeStands => TreeStands'
         /\ \A q : OnPath(q)' <=> OnPath(q)
<1>1. LeafPages' = LeafPages /\ Root' = Root
  BY DEF LeafPages, Root
<1> QED  BY <1>1 DEF TreeStands, OnPath, GoodLeaf, NamesObjects

\* The page that changes, and the pages that do not.
LEMMA Written1 ==
  ASSUME NEW p \in PageIds, NEW body, Contents' = [Contents EXCEPT ![p] = body]
  PROVE  /\ Contents'[p] = body
         /\ \A q \in PageIds \ {p} : Contents'[q] = Contents[q]
BY DEF Contents

\* A leaf is changed, or a blank page becomes one; the objects and the shape of the
\* tree stay.
LEMMA LeafWritten ==
  ASSUME TreeStands, root_page_id \in PageIds, root_page_id' = root_page_id,
         NEW p \in PageIds, Contents[p] = ZeroBody \/ p \in LeafPages,
         NEW body \in LeafBodies, GoodLeaf(body.entries),
         root_page_id \notin LeafPages /\ p \in ToSet(Root.children)
           => body.parent = root_page_id,
         Contents' = [Contents EXCEPT ![p] = body]
  PROVE  /\ TreeStands' /\ LeafPages' = LeafPages \cup {p}
         /\ \A q : OnPath(q)' <=> OnPath(q)
         /\ \A q \in PageIds, k \in Keys :
               Contents[q] = Record(k) => Contents'[q] = Record(k)
         /\ \A q \in PageIds : Contents[q] \in InternalBodies => Contents'[q] = Contents[q]
<1>1. /\ Contents'[p] = body
      /\ \A q \in PageIds \ {p} : Contents'[q] = Contents[q]
  BY Written1
<1>2. Contents[p] \notin InternalBodies /\ \A k \in Keys : Contents[p] # Record(k)
  BY ZeroParts, LeafParts DEF LeafPages
<1>3. LeafPages' = LeafPages \cup {p}
  BY <1>1 DEF LeafPages
<1>4. \A q \in PageIds, k \in Keys : Contents[q] = Record(k) => Contents'[q] = Record(k)
  BY <1>1, <1>2
<1>5. \A q \in PageIds : Contents[q] \in InternalBodies => Contents'[q] = Contents[q]
  BY <1>1, <1>2
<1>6. \A q \in PageIds : Contents'[q] \in InternalBodies => Contents'[q] = Contents[q]
  BY <1>1, LeafParts
<1>7. root_page_id \notin LeafPages =>
        root_page_id # p /\ Root \in InternalBodies /\ Root' = Root
  BY <1>1, <1>2 DEF TreeStands, Root
<1>8. root_page_id \in LeafPages' <=> root_page_id \in LeafPages
  BY <1>3, <1>7
<1>9. ASSUME NEW q PROVE OnPath(q)' <=> OnPath(q)
  BY <1>7, <1>8 DEF OnPath
<1>10. TreeStands'
  <2>1. \A q \in PageIds : Contents'[q] \in Bodies \cup {ZeroBody}
    BY <1>1, LeafParts DEF TreeStands
  <2>2. 0 \in LeafPages' /\ (root_page_id' \in LeafPages' => root_page_id' = 0)
    BY <1>3, <1>8 DEF TreeStands
  <2>3. ASSUME root_page_id \notin LeafPages
        PROVE  /\ Root' \in InternalBodies
               /\ \A q \in ToSet(Root'.children) : Contents'[q].parent = root_page_id
    <3>1. Root \in InternalBodies /\ Root' = Root /\ ToSet(Root.children) \subseteq LeafPages
      BY <1>7, <2>3 DEF TreeStands, Root
    <3>2. ASSUME NEW q \in ToSet(Root.children)
          PROVE  Contents'[q].parent = root_page_id
      <4>1. q \in PageIds /\ Contents[q].parent = root_page_id
        BY <2>3, <3>1 DEF TreeStands, LeafPages
      <4> QED  BY <1>1, <2>3, <4>1
    <3> QED  BY <3>1, <3>2
  <2>4. ASSUME NEW q \in PageIds, Contents'[q] \in InternalBodies
        PROVE  /\ Contents'[q].keys # << >>
               /\ Len(Contents'[q].children) = Len(Contents'[q].keys) + 1
               /\ ToSet(Contents'[q].children) \subseteq LeafPages'
    BY <1>3, <1>6, <2>4 DEF TreeStands
  <2>5. ASSUME NEW q \in LeafPages', NEW e \in ToSet(Contents'[q].entries)
        PROVE  /\ Ascending(Contents'[q].entries) /\ Len(Contents'[q].entries) <= LeafMax
               /\ Contents'[e.value] = Record(e.key)
    <3>1. Contents'[q] \in LeafBodies /\ q \in PageIds
      BY DEF LeafPages
    <3>2. e.value \in PageIds /\ e.key \in Keys
      BY <3>1, LeafParts, EntryParts
    <3>3. /\ Ascending(Contents'[q].entries) /\ Len(Contents'[q].entries) <= LeafMax
          /\ Contents[e.value] = Record(e.key)
      <4>1. CASE q = p
        BY <1>1, <4>1 DEF GoodLeaf, NamesObjects
      <4>2. CASE q # p
        BY <1>1, <1>3, <4>2, <3>1 DEF TreeStands, GoodLeaf, NamesObjects
      <4> QED  BY <4>1, <4>2
    <3> QED  BY <1>4, <3>2, <3>3
  <2>6. \A q \in LeafPages' : /\ Ascending(Contents'[q].entries)
                              /\ Len(Contents'[q].entries) <= LeafMax
    BY <1>1, <1>3 DEF GoodLeaf, TreeStands, LeafPages
  <2> QED  BY <1>8, <2>1, <2>2, <2>3, <2>4, <2>5, <2>6 DEF TreeStands, GoodLeaf,
           NamesObjects
<1> QED  BY <1>3, <1>4, <1>5, <1>9, <1>10

GoodInternal(body) ==
  /\ body.keys # << >> /\ Len(body.children) = Len(body.keys) + 1
  /\ ToSet(body.children) \subseteq LeafPages

\* An object or a new internal page is written to a page that was blank.
LEMMA BlankWritten ==
  ASSUME TreeStands, root_page_id \in PageIds, root_page_id' = root_page_id,
         NEW p \in PageIds, Contents[p] = ZeroBody,
         NEW body \in Bodies \ LeafBodies, body \in InternalBodies => GoodInternal(body),
         Contents' = [Contents EXCEPT ![p] = body]
  PROVE  /\ TreeStands' /\ LeafPages' = LeafPages
         /\ \A q : OnPath(q)' <=> OnPath(q)
         /\ \A q \in PageIds, k \in Keys :
               Contents[q] = Record(k) => Contents'[q] = Record(k)
<1>1. /\ Contents'[p] = body
      /\ \A q \in PageIds \ {p} : Contents'[q] = Contents[q]
  BY Written1
<1>2. /\ Contents[p] \notin LeafBodies /\ Contents[p] \notin InternalBodies
      /\ \A k \in Keys : Contents[p] # Record(k)
  BY ZeroParts
<1>3. LeafPages' = LeafPages
  BY <1>1, <1>2 DEF LeafPages
<1>4. \A q \in PageIds, k \in Keys : Contents[q] = Record(k) => Contents'[q] = Record(k)
  BY <1>1, <1>2
<1>5. \A q \in LeafPages : Contents'[q] = Contents[q] /\ q \in PageIds
  BY <1>1, <1>2 DEF LeafPages
<1>6. root_page_id # p /\ Root' = Root
  <2>1. root_page_id # p
    BY <1>2 DEF TreeStands, Root, LeafPages
  <2> QED  BY <1>1, <2>1 DEF Root
<1>7. ASSUME NEW q PROVE OnPath(q)' <=> OnPath(q)
  BY <1>3, <1>6 DEF OnPath
<1>8. TreeStands'
  <2>1. \A q \in PageIds : Contents'[q] \in Bodies \cup {ZeroBody}
    BY <1>1 DEF TreeStands
  <2>2. 0 \in LeafPages' /\ (root_page_id' \in LeafPages' => root_page_id' = 0)
    BY <1>3 DEF TreeStands
  <2>3. ASSUME root_page_id \notin LeafPages
        PROVE  /\ Root' \in InternalBodies
               /\ \A q \in ToSet(Root'.children) : Contents'[q].parent = root_page_id
    <3>1. Root \in InternalBodies /\ ToSet(Root.children) \subseteq LeafPages
      BY <2>3 DEF TreeStands, Root
    <3> QED  BY <1>5, <1>6, <2>3, <3>1 DEF TreeStands
  <2>4. ASSUME NEW q \in PageIds, Contents'[q] \in InternalBodies
        PROVE  /\ Contents'[q].keys # << >>
               /\ Len(Contents'[q].children) = Len(Contents'[q].keys) + 1
               /\ ToSet(Contents'[q].children) \subseteq LeafPages'
    BY <1>1, <1>3, <2>4 DEF TreeStands, GoodInternal
  <2>5. ASSUME NEW q \in LeafPages', NEW e \in ToSet(Contents'[q].entries)
        PROVE  Contents'[e.value] = Record(e.key)
    <3>1. Contents'[q] = Contents[q] /\ Contents[q] \in LeafBodies /\ q \in LeafPages
      BY <1>3, <1>5 DEF LeafPages
    <3>2. e.value \in PageIds /\ e.key \in Keys
      BY <3>1, LeafParts, EntryParts
    <3> QED  BY <1>4, <3>1, <3>2 DEF TreeStands, GoodLeaf, NamesObjects
  <2>6. \A q \in LeafPages' : /\ Ascending(Contents'[q].entries)
                              /\ Len(Contents'[q].entries) <= LeafMax
    BY <1>3, <1>5 DEF TreeStands, GoodLeaf
  <2> QED  BY <1>3, <2>1, <2>2, <2>3, <2>4, <2>5, <2>6 DEF TreeStands, GoodLeaf,
           NamesObjects
<1> QED  BY <1>3, <1>4, <1>7, <1>8

\* The root gets another child, which knows it.
LEMMA RootWritten ==
  ASSUME TreeStands, root_page_id \in PageIds, root_page_id' = root_page_id,
         root_page_id \notin LeafPages,
         NEW body \in InternalBodies, GoodInternal(body),
         \A q \in ToSet(body.children) : Contents[q].parent = root_page_id,
         Contents' = [Contents EXCEPT ![root_page_id] = body]
  PROVE  /\ TreeStands' /\ LeafPages' = LeafPages
         /\ \A q \in PageIds, k \in Keys :
               Contents[q] = Record(k) => Contents'[q] = Record(k)
         /\ \A q \in LeafPages : Contents'[q] = Contents[q]
<1>1. /\ Contents'[root_page_id] = body
      /\ \A q \in PageIds \ {root_page_id} : Contents'[q] = Contents[q]
  BY Written1
<1>2. /\ Contents[root_page_id] \in InternalBodies
      /\ \A k \in Keys : Contents[root_page_id] # Record(k)
  BY InternalParts DEF TreeStands, Root
<1>3. LeafPages' = LeafPages
  BY <1>1, <1>2, InternalParts DEF LeafPages
<1>4. \A q \in PageIds, k \in Keys : Contents[q] = Record(k) => Contents'[q] = Record(k)
  BY <1>1, <1>2
<1>5. \A q \in LeafPages : Contents'[q] = Contents[q] /\ q \in PageIds
  BY <1>1 DEF LeafPages
<1>6. TreeStands'
  <2>1. \A q \in PageIds : Contents'[q] \in Bodies \cup {ZeroBody}
    BY <1>1, InternalParts DEF TreeStands
  <2>2. 0 \in LeafPages'
    BY <1>3 DEF TreeStands
  <2>3. /\ Root' \in InternalBodies
        /\ \A q \in ToSet(Root'.children) : Contents'[q].parent = root_page_id
    BY <1>1, <1>5 DEF Root, GoodInternal
  <2>4. ASSUME NEW q \in PageIds, Contents'[q] \in InternalBodies
        PROVE  /\ Contents'[q].keys # << >>
               /\ Len(Contents'[q].children) = Len(Contents'[q].keys) + 1
               /\ ToSet(Contents'[q].children) \subseteq LeafPages'
    BY <1>1, <1>3, <2>4 DEF TreeStands, GoodInternal
  <2>5. ASSUME NEW q \in LeafPages', NEW e \in ToSet(Contents'[q].entries)
        PROVE  Contents'[e.value] = Record(e.key)
    <3>1. Contents'[q] = Contents[q] /\ Contents[q] \in LeafBodies /\ q \in LeafPages
      BY <1>3, <1>5 DEF LeafPages
    <3>2. e.value \in PageIds /\ e.key \in Keys
      BY <3>1, LeafParts, EntryParts
    <3> QED  BY <1>4, <3>1, <3>2 DEF TreeStands, GoodLeaf, NamesObjects
  <2>6. \A q \in LeafPages' : /\ Ascending(Contents'[q].entries)
                              /\ Len(Contents'[q].entries) <= LeafMax
    BY <1>3, <1>5 DEF TreeStands, GoodLeaf
  <2> QED  BY <1>3, <2>1, <2>2, <2>3, <2>4, <2>5, <2>6 DEF TreeStands, GoodLeaf,
           NamesObjects
<1> QED  BY <1>3, <1>4, <1>5, <1>6

\* The tree starts from another page: from its new root, or after opening.
LEMMA RootMoves ==
  ASSUME TreeStands, Contents' = Contents,
         \/ root_page_id' = 0
         \/ /\ root_page_id' \in PageIds /\ Contents[root_page_id'] \in InternalBodies
            /\ \A q \in ToSet(Contents[root_page_id'].children) :
                  Contents[q].parent = root_page_id'
  PROVE  TreeStands' /\ LeafPages' = LeafPages
<1>1. LeafPages' = LeafPages
  BY DEF LeafPages
<1>2. root_page_id' # 0 => root_page_id' \notin LeafPages
  BY InternalParts DEF LeafPages
<1>3. Root' = Contents[root_page_id']
  BY DEF Root
<1> QED  BY <1>1, <1>2, <1>3 DEF TreeStands, GoodLeaf, NamesObjects

-----------------------------------------------------------------------------
(***************************************************************************)
(* The entries of leaves, and the children of internal pages.              *)
(***************************************************************************)
LEMMA KeysAreInts == HaveKeys(EntryRecords) /\ \A k \in Keys : k \in Int
<1>1. \A e \in EntryRecords : e.key \in Keys
  BY DEF EntryRecords
<1>2. \A k \in Keys : k \in Int
  BY KeysAssumption
<1> QED  BY <1>1, <1>2, Zenon DEF HaveKeys

LEMMA MakeEntry ==
  ASSUME NEW k \in Keys, NEW p \in PageIds
  PROVE  Entry(k, p) \in EntryRecords /\ Entry(k, p).key = k /\ Entry(k, p).value = p
BY DEF Entry, EntryRecords

LEMMA LeafOf ==
  ASSUME TreeStands, NEW p \in LeafPages
  PROVE  /\ p \in PageIds /\ Contents[p] \in LeafBodies
         /\ Contents[p].entries \in Seq(EntryRecords) /\ GoodLeaf(Contents[p].entries)
         /\ Contents[p].parent \in PageIds /\ Contents[p].next \in PageIds
         /\ AsNode(Contents[p]) = Contents[p] /\ Contents[p].is_leaf
         /\ Contents[p] # ZeroBody /\ \A k \in Keys : Contents[p] # Record(k)
<1>1. p \in PageIds /\ Contents[p] \in LeafBodies
  BY DEF LeafPages
<1> QED  BY <1>1, LeafParts DEF TreeStands, GoodLeaf, NamesObjects

\* What the entry of a key names is the object of the key.
LEMMA FoundIsObject ==
  ASSUME NEW t \in Seq(EntryRecords), GoodLeaf(t), NEW k \in Keys, LeafHas(t, k)
  PROVE  /\ t[LeafLookup(t, k)].value \in PageIds
         /\ Contents[t[LeafLookup(t, k)].value] = Record(k)
<1> DEFINE e == t[LeafLookup(t, k)]
<1>1. Ascending(t) /\ NamesObjects(t) /\ k \in Int
  BY KeysAreInts DEF GoodLeaf
<1>2. e.key = k /\ e \in ToSet(t)
  BY <1>1, LookupFinds, KeysAreInts
<1>3. e.value \in PageIds
  BY <1>2, EntryParts
<1> HIDE DEF e
<1>4. Contents[e.value] = Record(k)
  BY <1>1, <1>2 DEF NamesObjects
<1> QED  BY <1>3, <1>4 DEF e

\* A leaf takes the entry of an object.
LEMMA InsertedIsGood ==
  ASSUME NEW t \in Seq(EntryRecords), GoodLeaf(t), NEW k \in Keys, NEW p \in PageIds,
         Contents[p] = Record(k), LeafAccepts(t, k)
  PROVE  LeafInsert(t, Entry(k, p)) \in Seq(EntryRecords)
         /\ GoodLeaf(LeafInsert(t, Entry(k, p)))
<1> DEFINE e   == Entry(k, p)
           new == LeafInsert(t, e)
<1>1. e \in EntryRecords /\ e.key = k /\ e.value = p
  BY MakeEntry
<1> HIDE DEF e
<1>2. /\ new \in Seq(EntryRecords) /\ Ascending(new)
      /\ Len(new) = Len(t) + 1 /\ ToSet(new) = ToSet(t) \cup {e}
  BY <1>1, LeafInsertKeeps, KeysAreInts DEF GoodLeaf
<1>3. Len(new) <= LeafMax
  BY <1>2, LeafMaxAssumption, Elements DEF LeafAccepts
<1> HIDE DEF new
<1>4. NamesObjects(new)
  BY <1>1, <1>2 DEF GoodLeaf, NamesObjects
<1>5. new \in Seq(EntryRecords) /\ GoodLeaf(new)
  BY <1>2, <1>3, <1>4 DEF GoodLeaf
<1> QED  BY <1>5 DEF new, e

\* A leaf that does not take the entry of an object is split.
LEMMA HalvesAreGood ==
  ASSUME NEW t \in Seq(EntryRecords), GoodLeaf(t), NEW k \in Keys, NEW p \in PageIds,
         Contents[p] = Record(k), ~ LeafAccepts(t, k),
         NEW left, left = LeftHalf(Merged(t, Entry(k, p))),
         NEW right, right = RightHalf(Merged(t, Entry(k, p)))
  PROVE  /\ left \in Seq(EntryRecords) /\ GoodLeaf(left)
         /\ right \in Seq(EntryRecords) /\ GoodLeaf(right) /\ right # << >>
<1> DEFINE e == Entry(k, p)
<1>1. e \in EntryRecords /\ e.key = k /\ e.value = p
  BY MakeEntry
<1>2. /\ Ascending(t) /\ NamesObjects(t) /\ Len(t) \in Nat /\ Len(t) <= LeafMax
      /\ k \in Int
  BY Elements, KeysAreInts DEF GoodLeaf
<1>3. Len(t) \in 1 .. LeafMax
  <2>1. CASE LeafHas(t, k)
    BY <1>2, <2>1, LookupFinds, KeysAreInts, LeafMaxAssumption
  <2>2. CASE ~ (Len(t) < LeafMax)
    BY <1>2, <2>2, LeafMaxAssumption
  <2> QED  BY <2>1, <2>2 DEF LeafAccepts
<1> HIDE DEF e
<1>4. Halves(EntryRecords, t, e, left, right)
  BY <1>1, <1>2, <1>3, HalvesAre, KeysAreInts DEF e
<1>5. /\ left \in Seq(EntryRecords) /\ Ascending(left) /\ Len(left) <= LeafMax
      /\ right \in Seq(EntryRecords) /\ Ascending(right) /\ Len(right) <= LeafMax
      /\ Len(right) # 0
      /\ ToSet(left) \cup ToSet(right) \subseteq ToSet(t) \cup {e}
  BY <1>4, LeafMaxAssumption DEF Halves
<1>6. NamesObjects(left) /\ NamesObjects(right)
  BY <1>1, <1>2, <1>5 DEF NamesObjects
<1> QED  BY <1>5, <1>6 DEF GoodLeaf

LEMMA FirstEntry ==
  ASSUME NEW t \in Seq(EntryRecords), t # << >>
  PROVE  t[1].key \in Keys
<1>1. 1 \in 1 .. Len(t)
  BY EmptySeq, Elements
<1>2. t[1] \in EntryRecords
  BY <1>1, ElementOfSeq
<1> QED  BY <1>2 DEF EntryRecords

\* lookup goes to one of the children.
LEMMA LookupIsChild ==
  ASSUME NEW b \in InternalBodies, Len(b.children) = Len(b.keys) + 1, NEW k
  PROVE  InternalLookup(b, k) \in ToSet(b.children)
<1>1. b.keys \in Seq(Keys) /\ b.children \in Seq(PageIds)
  BY InternalParts
<1>2. ChildPlace(b.keys, k) \in 1 .. Len(b.keys) + 1
  BY <1>1, PlaceOfChild
<1>3. ToSet(b.children) = {b.children[n] : n \in 1 .. Len(b.keys) + 1}
  BY <1>1, Elements
<1> QED  BY <1>2, <1>3 DEF InternalLookup

\* A parent takes a separator and the leaf behind it.
LEMMA ParentTakes ==
  ASSUME NEW b \in InternalBodies, GoodInternal(b), NEW k \in Keys, NEW p \in LeafPages
  PROVE  /\ InsertAfter(b, k, p) \in InternalBodies /\ GoodInternal(InsertAfter(b, k, p))
         /\ ToSet(InsertAfter(b, k, p).children) = ToSet(b.children) \cup {p}
<1> DEFINE i   == SeparatorPlace(b.keys, k)
           new == InsertAfter(b, k, p)
<1>1. /\ b.children \in Seq(PageIds) /\ p \in PageIds
      /\ Len(b.children) = Len(b.keys) + 1
  BY InternalParts DEF GoodInternal, LeafPages
<1>2. /\ new \in InternalPageOf(Keys, PageIds, PageIds)
      /\ i \in 1 .. Len(b.keys) + 1 /\ Len(b.keys) \in Nat
      /\ new.children = InsertAt(b.children, i + 1, p)
      /\ Len(new.keys) = Len(b.keys) + 1 /\ Len(new.children) = Len(b.children) + 1
  <2>1. b \in InternalPageOf(Keys, PageIds, PageIds)
    BY DEF InternalBodies, InternalPageOf
  <2>2. Len(b.children) = Len(b.keys) + 1
    BY <1>1
  <2>3. p \in PageIds
    BY <1>1
  <2>4. i = SeparatorPlace(b.keys, k)
    OBVIOUS
  <2>5. new = InsertAfter(b, k, p)
    OBVIOUS
  <2> HIDE DEF i, new
  <2>6. new \in InternalPageOf(Keys, PageIds, PageIds)
    BY <2>1, <2>2, <2>3, <2>4, <2>5, InsertAfterIs
  <2>7. i \in 1 .. Len(b.keys) + 1
    BY <2>1, <2>2, <2>3, <2>4, <2>5, InsertAfterIs
  <2>8. new.children = InsertAt(b.children, i + 1, p)
    BY <2>1, <2>2, <2>3, <2>4, <2>5, InsertAfterIs
  <2>9. Len(b.keys) \in Nat /\ Len(new.keys) = Len(b.keys) + 1
    BY <2>1, <2>2, <2>3, <2>4, <2>5, InsertAfterIs
  <2>10. Len(new.children) = Len(b.children) + 1
    BY <2>1, <2>2, <2>3, <2>4, <2>5, InsertAfterIs
  <2> QED  BY <2>6, <2>7, <2>8, <2>9, <2>10
<1> HIDE DEF new
<1>3. i + 1 \in 1 .. Len(b.children) + 1
  BY <1>1, <1>2
<1>4. ToSet(new.children) = ToSet(b.children) \cup {p}
  BY <1>1, <1>2, <1>3, InsertAtToSet
<1>5. new.keys # << >>
  BY <1>2
<1>6. new \in InternalBodies
  BY <1>2 DEF InternalBodies, InternalPageOf
<1>7. GoodInternal(new)
  BY <1>1, <1>2, <1>4, <1>5 DEF GoodInternal
<1> QED  BY <1>4, <1>6, <1>7 DEF new

-----------------------------------------------------------------------------
(***************************************************************************)
(* The steps.  Each keeps the invariant, and is a step of the pool.        *)
(***************************************************************************)
Inv == PoolInv /\ IndInv /\ AnswersSound

\* A step that is a step of a user of the pool, or leaves it alone.
PoolUse ==
  \/ \E p \in PageIds : P!Fetch(p)
  \/ P!New
  \/ \E p \in PageIds, body \in Bodies : P!Write(p, body)
  \/ \E p \in PageIds, dirty \in BOOLEAN : P!Release(p, dirty)
  \/ P!Restart
  \/ UNCHANGED P!vars

\* Frames are taken off the free list with a pin, and come back to it unpinned.
LEMMA FreeStays ==
  ASSUME PoolInv, FreeUnpinned, PoolUse
  PROVE  FreeUnpinned'
<1> DEFINE free == ToSet(free_list)
<1>1. /\ P!SessionInv /\ P!TypeOK /\ P!PinnedStay
      /\ \A f \in Frames : f \in free => pin_count[f] = 0
      /\ pin_count \in [Frames -> Nat]
  BY P!Basics, PoolAssumptions, SameSets DEF PoolInv, FreeUnpinned, P!TypeOK
<1>2. ASSUME NEW s PROVE P!ToSet(s) = ToSet(s)
  BY DEF P!ToSet, ToSet
<1>3. ASSUME NEW p \in PageIds, P!Resident(p)
      PROVE  page_table[p] \in Frames /\ page_table[p] \notin free
  BY <1>1, <1>2, <1>3, P!ResidentPage, PoolAssumptions, SameSets
<1>4. ASSUME NEW p, NEW page, P!Claim, P!Install(p, page)
      PROVE  FreeUnpinned'
  <2>1. /\ P!ClaimedFrame \in Frames
        /\ P!ToSet(free_list') = P!ToSet(free_list) \ {P!ClaimedFrame}
    BY <1>1, <1>4, P!ClaimedFrameIsFree, PoolAssumptions, SameSets
  <2>2. ToSet(free_list') = free \ {P!ClaimedFrame}
    BY <1>2, <2>1
  <2>3. pin_count' = [pin_count EXCEPT ![P!ClaimedFrame] = 1]
    BY <1>4 DEF P!Install
  <2> QED  BY <1>1, <2>1, <2>2, <2>3 DEF FreeUnpinned
<1>5. ASSUME NEW p \in PageIds, P!Fetch(p)
      PROVE  FreeUnpinned'
  <2>1. CASE P!FetchHit(p)
    BY <1>1, <1>3, <2>1 DEF P!FetchHit, FreeUnpinned
  <2>2. CASE P!FetchMiss(p)
    BY <1>4, <2>2 DEF P!FetchMiss
  <2> QED  BY <1>5, <2>1, <2>2 DEF P!Fetch
<1>6. CASE P!New
  BY <1>4, <1>6 DEF P!New, P!NewPage
<1>7. ASSUME NEW p \in PageIds, NEW body \in Bodies, P!Write(p, body)
      PROVE  FreeUnpinned'
  BY <1>1, <1>7 DEF P!Write, FreeUnpinned
<1>8. ASSUME NEW p \in PageIds, NEW dirty \in BOOLEAN, P!Release(p, dirty)
      PROVE  FreeUnpinned'
  <2>1. P!UnpinPage(p, dirty)
    BY <1>8 DEF P!Release
  <2>2. P!Resident(p) => page_table[p] \in Frames /\ page_table[p] \notin free
    BY <1>3
  <2>3. /\ free_list' = free_list
        /\ \A f \in Frames : f \in free => pin_count'[f] = pin_count[f]
    BY <1>1, <2>1, <2>2 DEF P!UnpinPage, P!UnpinAbsent, P!UnpinIdle, P!UnpinPinned,
       P!poolVars, P!metaVars
  <2> QED  BY <1>1, <2>3 DEF FreeUnpinned
<1>9. CASE P!Restart
  <2>1. pin_count' = [f \in Frames |-> 0]
    BY <1>9, SameSets DEF P!Restart, P!PoolRestart, P!AllUnused
  <2> QED  BY <2>1 DEF FreeUnpinned
<1>10. CASE UNCHANGED P!vars
  BY <1>1, <1>10 DEF P!vars, P!poolVars, P!metaVars, FreeUnpinned
<1> QED  BY <1>5, <1>6, <1>7, <1>8, <1>9, <1>10 DEF PoolUse

LEMMA PageZero == 0 \in PageIds /\ NoNext \in PageIds
BY MaxPagesAssumption DEF PageIds, NoNext

LEMMA NoCallIs ==
  /\ NoCall \in Locals
  /\ NoCall.op = "none" /\ NoCall.page = 0
BY PageZero DEF NoCall, Locals

LEMMA LocalsAre ==
  ASSUME NEW c \in Locals
  PROVE  /\ c.op \in {"none", "insert", "find", "exists"} /\ c.fits \in BOOLEAN
         /\ c.key \in Keys \cup {Nothing} /\ c.separator \in Keys \cup {Nothing}
         /\ c.rid \in PageIds /\ c.page \in PageIds /\ c.sibling \in PageIds
         /\ c.up \in PageIds
BY DEF Locals

\* Pages held and changed are those of the call.
LEMMA HeldAtIs ==
  call \in Locals => HeldAt \in SUBSET PageIds /\ ChangedAt \subseteq HeldAt
<1>1. SUFFICES ASSUME call \in Locals
               PROVE  HeldAt \in SUBSET PageIds /\ ChangedAt \subseteq HeldAt
  OBVIOUS
<1>2. HeldAt \in SUBSET PageIds
  BY <1>1, LocalsAre DEF HeldAt
<1>3. ChangedAt \subseteq HeldAt
  BY DEF HeldAt, ChangedAt
<1> QED  BY <1>2, <1>3

LEMMA HeldAtIsNext ==
  (call \in Locals)' => (HeldAt \in SUBSET PageIds /\ ChangedAt \subseteq HeldAt)'
BY HeldAtIs, PTL

LEMMA PointersAre ==
  PoolInv /\ DOMAIN held \in SUBSET PageIds => \A p \in DOMAIN held : held[p] \in Frames
BY Pointer

LEMMA PointersAreNext ==
  (PoolInv /\ DOMAIN held \in SUBSET PageIds)' => (\A p \in DOMAIN held : held[p] \in Frames)'
BY PointersAre, PTL

\* What the thread holds after a step, and the types.
LEMMA Together ==
  ASSUME PoolInv', call' \in Locals,
         DOMAIN held' = HeldAt', changed' = ChangedAt',
         root_page_id' \in PageIds, next_data_page_id' \in Nat, stored' \subseteq Keys,
         answer' \in [key : Keys \cup {Nothing}, object : Keys \cup {Nothing}]
  PROVE  TypeOK' /\ HoldsItsPages'
<1>1. DOMAIN held' \in SUBSET PageIds /\ changed' \subseteq DOMAIN held'
  BY HeldAtIsNext
<1>2. \A p \in DOMAIN held' : held'[p] \in Frames
  BY <1>1, PointersAreNext
<1> QED  BY <1>1, <1>2 DEF TypeOK, HoldsItsPages

\* Most steps change no more than pc and the local variables.
LEMMA StepTogether ==
  ASSUME TypeOK, AnswersSound, NEW from, NEW to, NEW c \in Locals, Step(from, to, c),
         PoolInv', DOMAIN held' = HeldAt', changed' = ChangedAt'
  PROVE  TypeOK' /\ HoldsItsPages' /\ AnswersSound'
<1>1. /\ call' = c /\ root_page_id' = root_page_id
      /\ next_data_page_id' = next_data_page_id /\ stored' = stored /\ answer' = answer
  BY DEF Step, Goto, dataVars
<1> QED  BY <1>1, Together DEF TypeOK, AnswersSound

\* What is the same for all steps with one of the calls of the pool in them.
Kept ==
  /\ PoolInv' /\ PoolUse /\ TypeOK' /\ HoldsItsPages' /\ FreeUnpinned'
  /\ AnswersSound'

TreeUnmoved ==
  /\ TreeStands' /\ Contents' = Contents
  /\ LeafPages' = LeafPages /\ root_page_id' = root_page_id
  /\ \A q : OnPath(q)' <=> OnPath(q)

LEMMA StepIs ==
  ASSUME NEW from, NEW to, NEW c, Step(from, to, c)
  PROVE  /\ pc = from /\ pc' = to /\ call' = c
         /\ root_page_id' = root_page_id /\ next_data_page_id' = next_data_page_id
         /\ stored' = stored /\ answer' = answer
BY DEF Step, Goto, dataVars

LEMMA InvIs ==
  ASSUME Inv
  PROVE  /\ PoolInv /\ TypeOK /\ HoldsItsPages /\ FreeUnpinned /\ TreeStands
         /\ KnowsItsCall /\ AnswersSound
         /\ call \in Locals /\ root_page_id \in PageIds
         /\ DOMAIN held = HeldAt /\ changed = ChangedAt /\ DOMAIN held \subseteq PageIds
BY DEF Inv, IndInv, TypeOK, HoldsItsPages

LEMMA FetchKeeps ==
  ASSUME Inv, NEW from, NEW to, NEW c \in Locals, Step(from, to, c),
         NEW p \in PageIds, Contents[p] # ZeroBody, Fetch(p),
         HeldAt = {}, ChangedAt = {}, HeldAt' = {p}, ChangedAt' = {}
  PROVE  Kept /\ TreeUnmoved
<1>1. /\ PoolInv' /\ P!Fetch(p) /\ Contents' = Contents
      /\ DOMAIN held' = {p} /\ changed' = {}
  BY InvIs, FetchStep
<1>2. TypeOK' /\ HoldsItsPages' /\ AnswersSound'
  BY <1>1, InvIs, StepTogether
<1>3. root_page_id' = root_page_id
  BY StepIs
<1>4. PoolUse /\ FreeUnpinned'
  <2>1. PoolUse
    BY <1>1 DEF PoolUse
  <2> QED  BY <2>1, InvIs, FreeStays
<1> QED  BY <1>1, <1>2, <1>3, <1>4, InvIs, SameTree DEF Kept, TreeUnmoved

LEMMA NewKeeps ==
  ASSUME Inv, NEW from, NEW to, NEW c \in Locals, Step(from, to, c), New,
         HeldAt' = HeldAt \cup {next_page_id}, ChangedAt' = ChangedAt
  PROVE  /\ Kept /\ TreeUnmoved
         /\ next_page_id \in PageIds /\ Contents[next_page_id] = ZeroBody
<1>1. /\ PoolInv' /\ P!New /\ Contents' = Contents
      /\ next_page_id \in PageIds /\ Contents[next_page_id] = ZeroBody
      /\ DOMAIN held' = HeldAt' /\ changed' = ChangedAt'
  BY InvIs, NewStep
<1>2. TypeOK' /\ HoldsItsPages' /\ AnswersSound'
  BY <1>1, InvIs, StepTogether
<1>3. root_page_id' = root_page_id
  BY StepIs
<1>4. PoolUse /\ FreeUnpinned'
  <2>1. PoolUse
    BY <1>1 DEF PoolUse
  <2> QED  BY <2>1, InvIs, FreeStays
<1> QED  BY <1>1, <1>2, <1>3, <1>4, InvIs, SameTree DEF Kept, TreeUnmoved

LEMMA WriteKeeps ==
  ASSUME Inv, NEW from, NEW to, NEW c \in Locals, Step(from, to, c),
         NEW p \in HeldAt, NEW body \in Bodies, Write(p, body),
         HeldAt' = HeldAt, ChangedAt' = ChangedAt \cup {p}
  PROVE  Kept /\ Contents' = [Contents EXCEPT ![p] = body] /\ p \in PageIds
<1>1. /\ PoolInv' /\ P!Write(p, body) /\ Contents' = [Contents EXCEPT ![p] = body]
      /\ p \in PageIds /\ DOMAIN held' = HeldAt' /\ changed' = ChangedAt'
  BY InvIs, WriteStep
<1>2. TypeOK' /\ HoldsItsPages' /\ AnswersSound'
  BY <1>1, InvIs, StepTogether
<1>3. PoolUse /\ FreeUnpinned'
  <2>1. PoolUse
    BY <1>1 DEF PoolUse
  <2> QED  BY <2>1, InvIs, FreeStays
<1> QED  BY <1>1, <1>2, <1>3 DEF Kept

LEMMA UnpinKeeps ==
  ASSUME Inv, NEW from, NEW to, NEW c \in Locals, Step(from, to, c),
         NEW p \in HeldAt, NEW dirty \in BOOLEAN, Unpin(p, dirty),
         IF dirty THEN Contents[p] # ZeroBody ELSE p \notin ChangedAt,
         HeldAt' = HeldAt \ {p}, ChangedAt' = ChangedAt \ {p}
  PROVE  Kept /\ TreeUnmoved
<1>1. /\ PoolInv' /\ P!Release(p, dirty) /\ Contents' = Contents /\ p \in PageIds
      /\ DOMAIN held' = HeldAt' /\ changed' = ChangedAt'
  BY InvIs, UnpinStep
<1>2. TypeOK' /\ HoldsItsPages' /\ AnswersSound'
  BY <1>1, InvIs, StepTogether
<1>3. root_page_id' = root_page_id
  BY StepIs
<1>4. PoolUse /\ FreeUnpinned'
  <2>1. PoolUse
    BY <1>1 DEF PoolUse
  <2> QED  BY <2>1, InvIs, FreeStays
<1> QED  BY <1>1, <1>2, <1>3, <1>4, InvIs, SameTree DEF Kept, TreeUnmoved

\* The pages of the tree are written.
LEMMA PathIs ==
  ASSUME TreeStands, root_page_id \in PageIds, NEW p, OnPath(p)
  PROVE  /\ p \in PageIds /\ Contents[p] # ZeroBody
         /\ p \in LeafPages \/ (p = root_page_id /\ Contents[p] \in InternalBodies)
         /\ AsNode(Contents[p]) = Contents[p]
<1>1. CASE p \in LeafPages
  <2>1. p \in PageIds /\ Contents[p] \in LeafBodies
    BY <1>1 DEF LeafPages
  <2> QED  BY <1>1, <2>1, LeafParts
<1>2. CASE p \notin LeafPages
  <2>1. Root \in InternalBodies \/ root_page_id \in LeafPages
    BY DEF TreeStands
  <2>2. p = root_page_id /\ Contents[p] \in InternalBodies
    BY <1>2, <2>1 DEF OnPath, TreeStands, Root
  <2> QED  BY <2>2, InternalParts
<1> QED  BY <1>1, <1>2

LEMMA WalkFetchKeeps ==
  ASSUME Inv, WalkFetch
  PROVE  Inv' /\ PoolUse /\ Contents' = Contents
<1>1. /\ Step("walk", "at", call) /\ Fetch(call.page)
      /\ pc = "walk" /\ pc' = "at" /\ call' = call
  BY StepIs DEF WalkFetch
<1>2. OnPath(call.page) /\ call \in Locals
  BY <1>1, InvIs DEF KnowsItsCall
<1>3. Kept /\ TreeUnmoved
  <2>1. call.page \in PageIds /\ Contents[call.page] # ZeroBody
    BY <1>2, InvIs, PathIs
  <2>2. HeldAt = {} /\ ChangedAt = {} /\ HeldAt' = {call.page} /\ ChangedAt' = {}
    BY <1>1 DEF HeldAt, ChangedAt
  <2> QED  BY <1>1, <1>2, <2>1, <2>2, FetchKeeps
<1>4. KnowsItsCall'
  BY <1>1, <1>3, InvIs DEF KnowsItsCall, TreeUnmoved, Inserting, Halving, Linking, Promoting,
     Rooting
<1> QED  BY <1>3, <1>4 DEF Inv, IndInv, Kept, TreeUnmoved

\* A page the thread holds, seen through its pointer.
LEMMA HeldPage ==
  ASSUME Inv, NEW p \in HeldAt
  PROVE  /\ p \in PageIds /\ Header(p) = p
         /\ frames[held[p]].body = Contents[p] /\ Node(p) = AsNode(Contents[p])
BY InvIs, Pointer DEF Node

\* Between two calls the thread knows nothing of a call.
LEMMA IdleKnows ==
  ASSUME pc' = "idle", call' = NoCall
  PROVE  KnowsItsCall' /\ HeldAt' = {} /\ ChangedAt' = {} /\ call' \in Locals
<1>1. HeldAt' = {} /\ ChangedAt' = {} /\ call' \in Locals
  BY NoCallIs DEF HeldAt, ChangedAt
<1>2. KnowsItsCall'
  BY DEF KnowsItsCall, Inserting, Halving, Linking, Promoting, Rooting
<1> QED  BY <1>1, <1>2

\* A call returns after its last unpinPage.
LEMMA ReturnKeeps ==
  ASSUME Inv, pc' = "idle", call' = NoCall, root_page_id' \in PageIds,
         next_data_page_id' = next_data_page_id, stored' \subseteq Keys,
         answer' \in [key : Keys \cup {Nothing}, object : Keys \cup {Nothing}],
         AnswersSound',
         NEW p, HeldAt = {p}, NEW dirty \in BOOLEAN, Unpin(p, dirty),
         IF dirty THEN Contents[p] # ZeroBody ELSE p \notin ChangedAt,
         ChangedAt \subseteq {p}
  PROVE  /\ Kept /\ KnowsItsCall' /\ Contents' = Contents
         /\ root_page_id' = root_page_id => Inv'
<1>1. /\ PoolInv' /\ P!Release(p, dirty) /\ Contents' = Contents /\ p \in PageIds
      /\ DOMAIN held' = HeldAt' /\ changed' = ChangedAt'
  <2>1. DOMAIN held = {p} /\ p \in DOMAIN held /\ p \in PageIds /\ changed = ChangedAt
    BY InvIs
  <2>2. /\ PoolInv' /\ P!Release(p, dirty) /\ Contents' = Contents
        /\ DOMAIN held' = DOMAIN held \ {p}
        /\ changed' = IF dirty THEN changed \ {p} ELSE changed
    BY <2>1, InvIs, UnpinStep
  <2>3. changed' = {}
    BY <2>1, <2>2
  <2> QED  BY <2>1, <2>2, <2>3, IdleKnows
<1>2. TypeOK' /\ HoldsItsPages'
  BY <1>1, InvIs, IdleKnows, Together DEF TypeOK
<1>3. root_page_id' = root_page_id => TreeStands'
  BY <1>1, InvIs, SameTree
<1>4. PoolUse /\ FreeUnpinned'
  <2>1. PoolUse
    BY <1>1 DEF PoolUse
  <2> QED  BY <2>1, InvIs, FreeStays
<1> QED  BY <1>1, <1>2, <1>3, <1>4, IdleKnows DEF Kept, Inv, IndInv

\* insert returns TRUE.
LEMMA InsertReturnsKeeps ==
  ASSUME Inv, NEW from, InsertReturns(from), call.key \in Keys,
         NEW p, HeldAt = {p}, NEW dirty \in BOOLEAN, Unpin(p, dirty),
         IF dirty THEN Contents[p] # ZeroBody ELSE p \notin ChangedAt,
         ChangedAt \subseteq {p}
  PROVE  Inv' /\ PoolUse /\ Contents' = Contents
<1>1. /\ pc' = "idle" /\ call' = NoCall /\ stored' = stored \cup {call.key}
      /\ root_page_id' = root_page_id /\ next_data_page_id' = next_data_page_id
      /\ answer' = answer
  BY DEF InsertReturns, Goto
<1>2. root_page_id' \in PageIds /\ stored' \subseteq Keys /\ AnswersSound'
  BY <1>1, InvIs DEF TypeOK, AnswersSound
<1> QED  BY <1>1, <1>2, InvIs, ReturnKeeps DEF TypeOK, Kept

\* A call returns an answer, after it gave back a page it has not changed.
LEMMA FinishKeeps ==
  ASSUME Inv, NEW from, NEW a, Finish(from, a),
         a \in [key : Keys \cup {Nothing}, object : Keys \cup {Nothing}],
         a.object \in {Nothing, a.key},
         NEW p, HeldAt = {p}, ChangedAt = {}, Unpin(p, FALSE)
  PROVE  Inv' /\ PoolUse /\ Contents' = Contents
<1>1. /\ pc' = "idle" /\ call' = NoCall /\ answer' = a
      /\ root_page_id' = root_page_id /\ next_data_page_id' = next_data_page_id
      /\ stored' = stored
  BY DEF Finish, Goto, dataVars
<1>2. root_page_id' \in PageIds /\ stored' \subseteq Keys /\ AnswersSound'
  BY <1>1, InvIs DEF TypeOK, AnswersSound
<1> QED  BY <1>1, <1>2, InvIs, ReturnKeeps DEF Kept

\* A step that calls nothing of the pool.
LEMMA NoCallKeeps ==
  ASSUME Inv, UNCHANGED <<poolVars, held, changed>>, root_page_id' = root_page_id,
         call' \in Locals, HeldAt = {}, ChangedAt = {}, HeldAt' = {}, ChangedAt' = {},
         next_data_page_id' \in Nat, stored' = stored, answer' = NoAnswer
  PROVE  Kept /\ TreeUnmoved
<1>1. /\ PoolInv' /\ UNCHANGED P!vars /\ Contents' = Contents
      /\ held' = held /\ changed' = changed
  BY InvIs, StutterStep
<1>2. /\ NoAnswer \in [key : Keys \cup {Nothing}, object : Keys \cup {Nothing}]
      /\ AnswersSound'
  BY DEF NoAnswer, AnswersSound
<1>3. TypeOK' /\ HoldsItsPages'
  BY <1>1, <1>2, InvIs, Together DEF TypeOK
<1>4. TreeUnmoved
  BY <1>1, InvIs, SameTree DEF TreeUnmoved
<1>5. PoolUse /\ FreeUnpinned'
  <2>1. PoolUse
    BY <1>1 DEF PoolUse
  <2> QED  BY <2>1, InvIs, FreeStays
<1> QED  BY <1>1, <1>2, <1>3, <1>4, <1>5 DEF Kept

LEMMA ThrowsKeeps ==
  ASSUME Inv, NEW from, Throws(from), HeldAt = {}, ChangedAt = {}
  PROVE  Inv' /\ PoolUse /\ Contents' = Contents
<1>1. /\ pc' = "idle" /\ call' = NoCall /\ answer' = NoAnswer
      /\ root_page_id' = root_page_id /\ next_data_page_id' = next_data_page_id
      /\ stored' = stored /\ UNCHANGED <<poolVars, held, changed>>
  BY DEF Throws, Finish, Goto, dataVars
<1>2. Kept /\ TreeUnmoved
  BY <1>1, InvIs, IdleKnows, NoCallKeeps DEF TypeOK
<1> QED  BY <1>1, <1>2, IdleKnows DEF Inv, IndInv, Kept, TreeUnmoved

\* The constructor.
LEMMA OpenFetchKeeps ==
  ASSUME Inv, OpenFetch
  PROVE  Inv' /\ PoolUse /\ Contents' = Contents
<1>1. /\ Step("open", "probe", call) /\ Fetch(0)
      /\ pc = "open" /\ pc' = "probe" /\ call' = call
  BY StepIs DEF OpenFetch
<1>2. call = NoCall /\ call \in Locals /\ call.page = 0
  BY <1>1, InvIs, NoCallIs DEF KnowsItsCall
<1>3. Kept /\ TreeUnmoved
  <2>1. 0 \in PageIds /\ Contents[0] # ZeroBody
    BY InvIs, LeafOf DEF TreeStands
  <2>2. HeldAt = {} /\ ChangedAt = {} /\ HeldAt' = {0} /\ ChangedAt' = {}
    BY <1>1, <1>2 DEF HeldAt, ChangedAt
  <2> QED  BY <1>1, <1>2, <2>1, <2>2, FetchKeeps
<1>4. KnowsItsCall'
  BY <1>1, <1>2 DEF KnowsItsCall, Inserting, Halving, Linking, Promoting, Rooting
<1> QED  BY <1>3, <1>4 DEF Inv, IndInv, Kept, TreeUnmoved

LEMMA OpenProbeKeeps ==
  ASSUME Inv, OpenProbe
  PROVE  Inv' /\ PoolUse /\ Contents' = Contents
<1>1. /\ Step("probe", IF ValidRoot THEN "idle" ELSE "create", call) /\ Unpin(0, FALSE)
      /\ pc = "probe" /\ call' = call
  BY StepIs DEF OpenProbe
<1>2. call = NoCall /\ call \in Locals /\ call.page = 0
  BY <1>1, InvIs, NoCallIs DEF KnowsItsCall
<1>3. HeldAt = {0} /\ ChangedAt = {}
  BY <1>1, <1>2 DEF HeldAt, ChangedAt
<1>4. ValidRoot
  <2>1. 0 \in LeafPages
    BY InvIs DEF TreeStands
  <2>2. AsNode(Contents[0]).is_leaf
    BY <2>1, InvIs, LeafOf
  <2> QED  BY <1>3, <2>2, HeldPage DEF ValidRoot
<1>5. pc' = "idle"
  BY <1>1, <1>4, StepIs
<1>6. Kept /\ TreeUnmoved
  BY <1>1, <1>2, <1>3, <1>5, IdleKnows, UnpinKeeps
<1> QED  BY <1>1, <1>2, <1>5, <1>6, IdleKnows DEF Inv, IndInv, Kept, TreeUnmoved

\* A file with a root gets no other one.
LEMMA NoCreation ==
  ASSUME Inv
  PROVE  pc \notin {"create", "format", "formatted"}
BY InvIs DEF KnowsItsCall, Inserting, Halving, Linking, Promoting, Rooting

\* The calls.
LEMMA InsertKeeps ==
  ASSUME Inv, NEW key \in Keys, NEW fits \in BOOLEAN, Insert(key, fits)
  PROVE  Inv' /\ PoolUse /\ Contents' = Contents
<1>1. /\ pc = "idle" /\ pc' = "store" /\ call' = [NoCall EXCEPT !.op = "insert",
                                                 !.key = key, !.fits = fits]
      /\ next_data_page_id' = next_data_page_id + 1 /\ answer' = NoAnswer
      /\ root_page_id' = root_page_id /\ stored' = stored
      /\ UNCHANGED <<poolVars, held, changed>>
  BY DEF Insert, Goto
<1>2. call' \in Locals /\ call'.op = "insert" /\ call'.key = key
  BY <1>1, NoCallIs DEF Locals
<1>3. Kept /\ TreeUnmoved
  <2>1. HeldAt = {} /\ ChangedAt = {} /\ HeldAt' = {} /\ ChangedAt' = {}
    BY <1>1 DEF HeldAt, ChangedAt
  <2>2. next_data_page_id' \in Nat
    BY <1>1, InvIs DEF TypeOK
  <2> QED  BY <1>1, <1>2, <2>1, <2>2, NoCallKeeps
<1>4. KnowsItsCall'
  BY <1>1, <1>2 DEF KnowsItsCall, Inserting, Halving, Linking, Promoting, Rooting
<1> QED  BY <1>3, <1>4 DEF Inv, IndInv, Kept, TreeUnmoved

LEMMA LookupKeeps ==
  ASSUME Inv, NEW key \in Keys, NEW op \in {"find", "exists"}, Lookup(op, key)
  PROVE  Inv' /\ PoolUse /\ Contents' = Contents
<1>1. /\ pc = "idle" /\ pc' = "walk"
      /\ call' = [NoCall EXCEPT !.op = op, !.key = key, !.page = root_page_id]
      /\ next_data_page_id' = next_data_page_id /\ answer' = NoAnswer
      /\ root_page_id' = root_page_id /\ stored' = stored
      /\ UNCHANGED <<poolVars, held, changed>>
  BY DEF Lookup, Goto, dataVars
<1>2. /\ call' \in Locals /\ call'.op # "insert" /\ call'.key = key
      /\ call'.page = root_page_id
  BY <1>1, NoCallIs, InvIs DEF Locals
<1>3. Kept /\ TreeUnmoved
  <2>1. HeldAt = {} /\ ChangedAt = {} /\ HeldAt' = {} /\ ChangedAt' = {}
    BY <1>1 DEF HeldAt, ChangedAt
  <2>2. next_data_page_id' \in Nat
    BY <1>1, InvIs DEF TypeOK
  <2> QED  BY <1>1, <1>2, <2>1, <2>2, NoCallKeeps
<1>4. OnPath(call.page)'
  BY <1>2, <1>3 DEF TreeUnmoved, OnPath
<1>5. KnowsItsCall'
  BY <1>1, <1>2, <1>4 DEF KnowsItsCall, Inserting, Halving, Linking, Promoting, Rooting
<1> QED  BY <1>3, <1>5 DEF Inv, IndInv, Kept, TreeUnmoved

\* The destructor and the next session.
LEMMA CloseKeeps ==
  ASSUME Inv, CloseAndOpen
  PROVE  Inv' /\ PoolUse /\ Contents' = Contents
<1>1. /\ pc = "idle" /\ pc' = "open" /\ call' = NoCall
      /\ WriteAllDirty /\ PoolRestart /\ held' = NoneHeld /\ changed' = changed
      /\ root_page_id' = 0 /\ next_data_page_id' = FirstDataPage
      /\ answer' = NoAnswer /\ stored' = stored
  BY DEF CloseAndOpen, Goto
<1>2. /\ HeldAt = {} /\ ChangedAt = {} /\ HeldAt' = {} /\ ChangedAt' = {}
  BY <1>1 DEF HeldAt, ChangedAt
<1>3. /\ PoolInv' /\ P!Restart /\ Contents' = Contents
      /\ DOMAIN held' = {} /\ changed' = {}
  BY <1>1, <1>2, InvIs, CloseStep
<1>4. TreeStands'
  BY <1>1, <1>3, InvIs, RootMoves
<1>5. /\ answer' \in [key : Keys \cup {Nothing}, object : Keys \cup {Nothing}]
      /\ AnswersSound' /\ next_data_page_id' \in Nat
  BY <1>1 DEF NoAnswer, AnswersSound, FirstDataPage
<1>6. TypeOK' /\ HoldsItsPages'
  BY <1>1, <1>2, <1>3, <1>5, PageZero, NoCallIs, InvIs, Together DEF TypeOK
<1>7. KnowsItsCall'
  BY <1>1 DEF KnowsItsCall, Inserting, Halving, Linking, Promoting, Rooting
<1>8. PoolUse /\ FreeUnpinned'
  <2>1. PoolUse
    BY <1>3 DEF PoolUse
  <2> QED  BY <2>1, InvIs, FreeStays
<1> QED  BY <1>3, <1>4, <1>5, <1>6, <1>7, <1>8 DEF Inv, IndInv

\* storeObject.
LEMMA StoreNewKeeps ==
  ASSUME Inv, StoreNew
  PROVE  Inv' /\ PoolUse /\ Contents' = Contents
<1> DEFINE c == [call EXCEPT !.rid = next_page_id]
<1>1. CASE CanClaim
  <2>1. /\ Step("store", "record", c) /\ New
        /\ pc = "store" /\ pc' = "record" /\ call' = c
    BY <1>1, StepIs DEF StoreNew
  <2>2. next_page_id \in PageIds
    BY <2>1, InvIs, NewStep
  <2>3. c \in Locals /\ c.rid = next_page_id /\ c.key = call.key /\ c.op = call.op
    BY <2>2, InvIs DEF Locals
  <2> HIDE DEF c
  <2>4. /\ HeldAt' = HeldAt \cup {next_page_id} /\ ChangedAt' = ChangedAt
    BY <2>1, <2>3 DEF HeldAt, ChangedAt
  <2>5. Kept /\ TreeUnmoved /\ Contents[next_page_id] = ZeroBody
    BY <2>1, <2>3, <2>4, NewKeeps
  <2>6. KnowsItsCall'
    BY <2>1, <2>3, <2>5, InvIs DEF KnowsItsCall, TreeUnmoved, Inserting, Halving, Linking,
       Promoting, Rooting
  <2> QED  BY <2>5, <2>6 DEF Inv, IndInv, Kept, TreeUnmoved
<1>2. CASE ~ CanClaim
  <2>1. Throws("store") /\ pc = "store"
    BY <1>2 DEF StoreNew, Throws, Finish
  <2>2. HeldAt = {} /\ ChangedAt = {}
    BY <2>1 DEF HeldAt, ChangedAt
  <2> QED  BY <2>1, <2>2, ThrowsKeeps
<1> QED  BY <1>1, <1>2

LEMMA StoreRecordKeeps ==
  ASSUME Inv, StoreRecord
  PROVE  /\ Inv' /\ PoolUse
         /\ Contents' = [Contents EXCEPT ![call.rid] = Record(call.key)]
<1> DEFINE body == Record(call.key)
<1>1. /\ Step("record", "recorded", call) /\ Write(call.rid, body)
      /\ pc = "record" /\ pc' = "recorded" /\ call' = call /\ root_page_id' = root_page_id
  BY StepIs DEF StoreRecord
<1>2. /\ call \in Locals /\ call.rid \in PageIds /\ call.key \in Keys
      /\ call.op = "insert" /\ Contents[call.rid] = ZeroBody
  BY <1>1, InvIs, LocalsAre DEF KnowsItsCall
<1>3. body \in Bodies /\ body \in Bodies \ LeafBodies /\ body \notin InternalBodies
  BY <1>2, RecordParts
<1> HIDE DEF body
<1>4. /\ HeldAt = {call.rid} /\ HeldAt' = HeldAt /\ ChangedAt = {}
      /\ ChangedAt' = ChangedAt \cup {call.rid}
  BY <1>1 DEF HeldAt, ChangedAt
<1>5. Kept /\ Contents' = [Contents EXCEPT ![call.rid] = body]
  BY <1>1, <1>2, <1>3, <1>4, WriteKeeps
<1>6. TreeStands' /\ \A q : OnPath(q)' <=> OnPath(q)
  BY <1>1, <1>2, <1>3, <1>5, InvIs, BlankWritten
<1>7. Contents'[call.rid] = Record(call.key)
  BY <1>2, <1>5, Written1 DEF body
<1>8. KnowsItsCall'
  BY <1>1, <1>2, <1>7 DEF KnowsItsCall, Inserting, Halving, Linking, Promoting, Rooting
<1> QED  BY <1>5, <1>6, <1>8 DEF Inv, IndInv, Kept, body

LEMMA StoreThrowsKeeps ==
  ASSUME Inv, StoreThrows
  PROVE  Inv' /\ PoolUse /\ Contents' = Contents
<1>1. Finish("record", NoAnswer) /\ Unpin(call.rid, FALSE) /\ pc = "record"
  BY DEF StoreThrows, Finish
<1>2. HeldAt = {call.rid} /\ ChangedAt = {}
  BY <1>1 DEF HeldAt, ChangedAt
<1>3. /\ NoAnswer \in [key : Keys \cup {Nothing}, object : Keys \cup {Nothing}]
      /\ NoAnswer.object = Nothing
  BY DEF NoAnswer
<1> QED  BY <1>1, <1>2, <1>3, FinishKeeps

LEMMA StoreDoneKeeps ==
  ASSUME Inv, StoreDone
  PROVE  Inv' /\ PoolUse /\ Contents' = Contents
<1> DEFINE c == [call EXCEPT !.page = root_page_id]
<1>1. /\ Step("recorded", "walk", c) /\ Unpin(call.rid, TRUE)
      /\ pc = "recorded" /\ pc' = "walk" /\ call' = c
  BY StepIs DEF StoreDone
<1>2. /\ c \in Locals /\ c.page = root_page_id /\ c.key = call.key /\ c.rid = call.rid
      /\ c.op = call.op
  BY InvIs DEF Locals
<1>3. call.key \in Keys /\ call.op = "insert" /\ Contents[call.rid] = Record(call.key)
  BY <1>1, InvIs DEF KnowsItsCall
<1> HIDE DEF c
<1>4. Kept /\ TreeUnmoved
  <2>1. /\ HeldAt = {call.rid} /\ ChangedAt = {call.rid}
        /\ HeldAt' = HeldAt \ {call.rid} /\ ChangedAt' = ChangedAt \ {call.rid}
    BY <1>1, <1>2 DEF HeldAt, ChangedAt
  <2>2. Contents[call.rid] # ZeroBody
    BY <1>3, RecordParts
  <2> QED  BY <1>1, <1>2, <2>1, <2>2, UnpinKeeps
<1>5. OnPath(call.page)'
  BY <1>1, <1>2, <1>4 DEF TreeUnmoved, OnPath
<1>6. KnowsItsCall'
  BY <1>1, <1>2, <1>3, <1>4, <1>5 DEF KnowsItsCall, TreeUnmoved, Inserting, Halving, Linking,
     Promoting, Rooting
<1> QED  BY <1>4, <1>6 DEF Inv, IndInv, Kept, TreeUnmoved

\* Descending.
LEMMA AtIs ==
  ASSUME Inv, pc = "at"
  PROVE  /\ call \in Locals /\ call.key \in Keys /\ OnPath(call.page)
         /\ HeldAt = {call.page} /\ ChangedAt = {}
         /\ Header(call.page) = call.page /\ Node(call.page) = Contents[call.page]
         /\ AtLeaf => call.page \in LeafPages
         /\ ~ AtLeaf => /\ call.page = root_page_id /\ root_page_id \notin LeafPages
                        /\ Contents[call.page] \in InternalBodies
<1>1. call \in Locals /\ call.key \in Keys /\ OnPath(call.page)
  BY InvIs DEF KnowsItsCall
<1>2. HeldAt = {call.page} /\ ChangedAt = {}
  BY DEF HeldAt, ChangedAt
<1>3. Header(call.page) = call.page /\ Node(call.page) = Contents[call.page]
  BY <1>1, <1>2, InvIs, HeldPage, PathIs
<1>4. CASE call.page \in LeafPages
  <2>1. AtLeaf
    BY <1>3, <1>4, InvIs, LeafOf DEF AtLeaf
  <2> QED  BY <1>1, <1>2, <1>3, <1>4, <2>1
<1>5. CASE call.page \notin LeafPages
  <2>1. call.page = root_page_id /\ Contents[call.page] \in InternalBodies
    BY <1>1, <1>5, InvIs, PathIs
  <2>2. ~ AtLeaf
    BY <1>3, <2>1, InternalParts DEF AtLeaf
  <2> QED  BY <1>1, <1>2, <1>3, <1>5, <2>1, <2>2
<1> QED  BY <1>4, <1>5

LEMMA WalkDownKeeps ==
  ASSUME Inv, WalkDown
  PROVE  Inv' /\ PoolUse /\ Contents' = Contents
<1> DEFINE child == InternalLookup(Node(call.page), call.key)
           c     == [call EXCEPT !.page = child]
<1>1. /\ Step("at", "walk", c) /\ Unpin(call.page, FALSE) /\ ~ AtLeaf
      /\ pc = "at" /\ pc' = "walk" /\ call' = c
  BY StepIs DEF WalkDown
<1>2. /\ call \in Locals /\ call.key \in Keys /\ HeldAt = {call.page} /\ ChangedAt = {}
      /\ Node(call.page) = Root /\ root_page_id \notin LeafPages /\ Root \in InternalBodies
  BY <1>1, AtIs DEF Root
<1>3. child \in ToSet(Root.children) /\ child \in LeafPages /\ child \in PageIds
  <2>1. /\ Len(Root.children) = Len(Root.keys) + 1
        /\ ToSet(Root.children) \subseteq LeafPages
    BY <1>2, InvIs DEF TreeStands, Root
  <2>2. child \in ToSet(Root.children)
    BY <1>2, <2>1, LookupIsChild
  <2> QED  BY <2>1, <2>2 DEF LeafPages
<1> HIDE DEF child
<1>4. c \in Locals /\ c.page = child /\ c.key = call.key /\ c.rid = call.rid /\ c.op = call.op
  BY <1>2, <1>3 DEF Locals
<1> HIDE DEF c
<1>5. Kept /\ TreeUnmoved
  <2>1. HeldAt' = HeldAt \ {call.page} /\ ChangedAt' = ChangedAt \ {call.page}
    BY <1>1, <1>2 DEF HeldAt, ChangedAt
  <2> QED  BY <1>1, <1>2, <1>4, <2>1, UnpinKeeps
<1>6. OnPath(call.page)'
  BY <1>1, <1>2, <1>3, <1>4, <1>5 DEF TreeUnmoved, OnPath, Root
<1>7. KnowsItsCall'
  BY <1>1, <1>2, <1>4, <1>5, <1>6, InvIs DEF KnowsItsCall, TreeUnmoved, Inserting, Halving,
     Linking, Promoting, Rooting
<1> QED  BY <1>5, <1>7 DEF Inv, IndInv, Kept, TreeUnmoved

\* What a lookup returns.
LEMMA AnswerIs ==
  ASSUME call.key \in Keys, NEW object \in {Nothing, call.key}
  PROVE  /\ Answer(object) \in [key : Keys \cup {Nothing}, object : Keys \cup {Nothing}]
         /\ Answer(object).object \in {Nothing, Answer(object).key}
BY DEF Answer

LEMMA GetValueMissesKeeps ==
  ASSUME Inv, GetValueMisses
  PROVE  Inv' /\ PoolUse /\ Contents' = Contents
<1>1. Finish("at", Answer(Nothing)) /\ Unpin(Header(call.page), FALSE) /\ pc = "at"
  BY DEF GetValueMisses, AtLeaf
<1>2. /\ HeldAt = {call.page} /\ ChangedAt = {} /\ Header(call.page) = call.page
      /\ call.key \in Keys
  BY <1>1, AtIs
<1> QED  BY <1>1, <1>2, AnswerIs, FinishKeeps

LEMMA GetValueHitsKeeps ==
  ASSUME Inv, GetValueHits
  PROVE  Inv' /\ PoolUse /\ Contents' = Contents
<1> DEFINE c == [call EXCEPT !.rid = Found]
<1>1. AtLeaf /\ HasKey /\ Unpin(Header(call.page), FALSE) /\ pc = "at"
  BY DEF GetValueHits, AtLeaf
<1>2. /\ HeldAt = {call.page} /\ ChangedAt = {} /\ Header(call.page) = call.page
      /\ call.key \in Keys /\ call \in Locals /\ call.page \in LeafPages
      /\ Entries(call.page) = Contents[call.page].entries
  BY <1>1, AtIs DEF Entries
<1>3. CASE call.op = "exists"
  <2>1. Finish("at", Answer(call.key))
    BY <1>3 DEF GetValueHits
  <2> QED  BY <1>1, <1>2, <2>1, AnswerIs, FinishKeeps
<1>4. CASE call.op # "exists"
  <2>1. Step("at", "retrieve", c) /\ pc' = "retrieve" /\ call' = c
    BY <1>4, StepIs DEF GetValueHits
  <2>2. Found \in PageIds /\ Contents[Found] = Record(call.key)
    <3>1. /\ Contents[call.page].entries \in Seq(EntryRecords)
          /\ GoodLeaf(Contents[call.page].entries)
      BY <1>2, InvIs, LeafOf
    <3> QED  BY <1>1, <1>2, <3>1, FoundIsObject DEF HasKey, Found
  <2>3. c \in Locals /\ c.rid = Found /\ c.key = call.key /\ c.op = call.op
    BY <1>2, <2>2 DEF Locals
  <2> HIDE DEF c
  <2>4. Kept /\ TreeUnmoved
    <3>1. HeldAt' = HeldAt \ {call.page} /\ ChangedAt' = ChangedAt \ {call.page}
      BY <1>2, <2>1 DEF HeldAt, ChangedAt
    <3> QED  BY <1>1, <1>2, <2>1, <2>3, <3>1, UnpinKeeps
  <2>5. KnowsItsCall'
    BY <1>2, <2>1, <2>2, <2>3, <2>4 DEF KnowsItsCall, TreeUnmoved, Inserting, Halving,
       Linking, Promoting, Rooting
  <2> QED  BY <2>4, <2>5 DEF Inv, IndInv, Kept, TreeUnmoved
<1> QED  BY <1>3, <1>4

\* retrieveObjectBuffer.
LEMMA RetrieveFetchKeeps ==
  ASSUME Inv, RetrieveFetch
  PROVE  Inv' /\ PoolUse /\ Contents' = Contents
<1>1. CASE Resident(call.rid) \/ CanClaim
  <2>1. /\ Step("retrieve", "copy", call) /\ Fetch(call.rid)
        /\ pc = "retrieve" /\ pc' = "copy" /\ call' = call
    BY <1>1, StepIs DEF RetrieveFetch
  <2>2. /\ call \in Locals /\ call.rid \in PageIds /\ call.key \in Keys
        /\ Contents[call.rid] = Record(call.key)
    BY <2>1, InvIs, LocalsAre DEF KnowsItsCall
  <2>3. Kept /\ TreeUnmoved
    <3>1. /\ HeldAt = {} /\ ChangedAt = {} /\ HeldAt' = {call.rid} /\ ChangedAt' = {}
      BY <2>1 DEF HeldAt, ChangedAt
    <3>2. Contents[call.rid] # ZeroBody
      BY <2>2, RecordParts
    <3> QED  BY <2>1, <2>2, <3>1, <3>2, FetchKeeps
  <2>4. KnowsItsCall'
    BY <2>1, <2>2, <2>3 DEF KnowsItsCall, TreeUnmoved, Inserting, Halving, Linking,
       Promoting, Rooting
  <2> QED  BY <2>3, <2>4 DEF Inv, IndInv, Kept, TreeUnmoved
<1>2. CASE ~ (Resident(call.rid) \/ CanClaim)
  <2>1. Throws("retrieve") /\ pc = "retrieve"
    BY <1>2 DEF RetrieveFetch, Throws, Finish
  <2>2. HeldAt = {} /\ ChangedAt = {}
    BY <2>1 DEF HeldAt, ChangedAt
  <2> QED  BY <2>1, <2>2, ThrowsKeeps
<1> QED  BY <1>1, <1>2

LEMMA RetrieveCopyKeeps ==
  ASSUME Inv, RetrieveCopy
  PROVE  Inv' /\ PoolUse /\ Contents' = Contents
<1>1. /\ Finish("copy", Answer(RecordOf(frames[held[call.rid]].body)))
      /\ Unpin(call.rid, FALSE) /\ pc = "copy"
  BY DEF RetrieveCopy, Finish
<1>2. HeldAt = {call.rid} /\ ChangedAt = {}
  BY <1>1 DEF HeldAt, ChangedAt
<1>3. call.key \in Keys /\ Contents[call.rid] = Record(call.key)
  BY <1>1, InvIs DEF KnowsItsCall
<1>4. RecordOf(frames[held[call.rid]].body) = call.key
  BY <1>2, <1>3, HeldPage, RecordParts
<1> QED  BY <1>1, <1>2, <1>3, <1>4, AnswerIs, FinishKeeps

\* The leaf takes the entry.
LEMMA LeafTakesKeeps ==
  ASSUME Inv, LeafTakes
  PROVE  /\ Inv' /\ PoolUse
         /\ Contents' =
              [Contents EXCEPT ![call.page] =
                 [Contents[call.page] EXCEPT
                    !.entries = LeafInsert(Contents[call.page].entries, NewEntry)]]
<1> DEFINE p    == call.page
           leaf == Contents[p]
           new  == LeafInsert(leaf.entries, NewEntry)
           body == [leaf EXCEPT !.entries = new]
<1>1. /\ Step("at", "inserted", call) /\ AtLeaf /\ call.op = "insert"
      /\ LeafAccepts(Entries(p), call.key)
      /\ Write(p, [Node(p) EXCEPT !.entries = LeafInsert(@, NewEntry)])
      /\ pc = "at" /\ pc' = "inserted" /\ call' = call /\ root_page_id' = root_page_id
  BY StepIs DEF LeafTakes
<1>2. /\ HeldAt = {p} /\ ChangedAt = {} /\ Node(p) = leaf /\ p \in LeafPages
      /\ call.key \in Keys /\ call \in Locals /\ Entries(p) = leaf.entries
  BY <1>1, AtIs DEF Entries
<1>3. /\ p \in PageIds /\ call.rid \in PageIds
      /\ leaf \in LeafBodies /\ leaf.entries \in Seq(EntryRecords)
      /\ GoodLeaf(leaf.entries)
  BY <1>2, InvIs, LeafOf, LocalsAre
<1>4. Contents[call.rid] = Record(call.key)
  BY <1>1, InvIs DEF KnowsItsCall
<1>5. /\ new \in Seq(EntryRecords) /\ GoodLeaf(new)
  BY <1>1, <1>2, <1>3, <1>4, InsertedIsGood DEF NewEntry
<1>6. Write(p, body)
  BY <1>1, <1>2
<1> HIDE DEF new
<1>7. /\ body \in LeafBodies /\ body.entries = new /\ body.parent = leaf.parent
  BY <1>3, <1>5 DEF LeafBodies, EntryRecords
<1> HIDE DEF body
<1>8. Kept /\ Contents' = [Contents EXCEPT ![p] = body]
  <2>1. HeldAt' = HeldAt /\ ChangedAt' = ChangedAt \cup {p}
    BY <1>1, <1>2 DEF HeldAt, ChangedAt
  <2>2. body \in Bodies
    BY <1>7, LeafParts
  <2> QED  BY <1>1, <1>2, <1>6, <2>1, <2>2, WriteKeeps
<1>9. /\ TreeStands' /\ LeafPages' = LeafPages \cup {p}
      /\ Contents'[call.rid] = Record(call.key)
  <2>1. root_page_id \notin LeafPages /\ p \in ToSet(Root.children)
          => body.parent = root_page_id
    BY <1>7, InvIs DEF TreeStands
  <2> QED  BY <1>1, <1>2, <1>3, <1>4, <1>5, <1>7, <1>8, <2>1, InvIs, LeafWritten
<1>10. KnowsItsCall'
  BY <1>1, <1>2, <1>9 DEF KnowsItsCall, Inserting, Halving, Linking, Promoting, Rooting
<1> QED  BY <1>8, <1>9, <1>10 DEF Inv, IndInv, Kept, body, new

LEMMA LeafTakesDoneKeeps ==
  ASSUME Inv, LeafTakesDone
  PROVE  Inv' /\ PoolUse /\ Contents' = Contents
<1>1. InsertReturns("inserted") /\ Unpin(Header(call.page), TRUE) /\ pc = "inserted"
  BY DEF LeafTakesDone, InsertReturns
<1>2. HeldAt = {call.page} /\ ChangedAt = {call.page}
  BY <1>1 DEF HeldAt, ChangedAt
<1>3. call.key \in Keys /\ call.page \in LeafPages
  BY <1>1, InvIs DEF KnowsItsCall
<1>4. Header(call.page) = call.page /\ Contents[call.page] # ZeroBody
  BY <1>2, <1>3, HeldPage, InvIs, LeafOf
<1> QED  BY <1>1, <1>2, <1>3, <1>4, InsertReturnsKeeps

\* The leaf is split.
LEMMA SplitNewKeeps ==
  ASSUME Inv, SplitNew
  PROVE  Inv' /\ PoolUse /\ Contents' = Contents
<1> DEFINE merged == Merged(Entries(call.page), NewEntry)
           c      == [call EXCEPT !.merged = merged, !.sibling = next_page_id]
<1>1. /\ Step("at", "init", c) /\ New /\ LeafRefuses /\ AtLeaf /\ call.op = "insert"
      /\ ~ LeafAccepts(Entries(call.page), call.key)
      /\ pc = "at" /\ pc' = "init" /\ call' = c
  BY StepIs DEF SplitNew, LeafRefuses
<1>2. /\ HeldAt = {call.page} /\ ChangedAt = {} /\ call.page \in LeafPages
      /\ OnPath(call.page) /\ call.key \in Keys /\ call \in Locals
      /\ Entries(call.page) = Contents[call.page].entries
  BY <1>1, AtIs DEF Entries
<1>3. Contents[call.rid] = Record(call.key)
  BY <1>1, InvIs DEF KnowsItsCall
<1>4. next_page_id \in PageIds
  BY <1>1, InvIs, NewStep
<1>5. merged \in Seq(EntryRecords)
  <2>1. NewEntry \in EntryRecords
    BY <1>2, LocalsAre, MakeEntry DEF NewEntry
  <2>2. Contents[call.page].entries \in Seq(EntryRecords)
    BY <1>2, InvIs, LeafOf
  <2>3. Ascending(Contents[call.page].entries)
    BY <1>2, InvIs, LeafOf DEF GoodLeaf
  <2> QED  BY <1>2, <2>1, <2>2, <2>3, MergedIs, KeysAreInts
<1> HIDE DEF merged
<1>6. /\ c \in Locals /\ c.sibling = next_page_id /\ c.page = call.page
      /\ c.key = call.key /\ c.rid = call.rid /\ c.op = call.op /\ c.merged = merged
  BY <1>2, <1>4, <1>5 DEF Locals
<1> HIDE DEF c
<1>7. HeldAt' = HeldAt \cup {next_page_id} /\ ChangedAt' = ChangedAt
  BY <1>1, <1>2, <1>6 DEF HeldAt, ChangedAt
<1>8. Kept /\ TreeUnmoved /\ Contents[next_page_id] = ZeroBody
  BY <1>1, <1>6, <1>7, NewKeeps
<1>9. c.merged = Merged(Contents'[c.page].entries, NewEntry')
  BY <1>1, <1>2, <1>6, <1>8 DEF merged, NewEntry, TreeUnmoved
<1>10. KnowsItsCall'
  BY <1>1, <1>2, <1>3, <1>6, <1>8, <1>9 DEF KnowsItsCall, TreeUnmoved, Inserting, Halving,
     Linking, Promoting, Rooting
<1> QED  BY <1>8, <1>10 DEF Inv, IndInv, Kept, TreeUnmoved

\* What is known while split writes to the leaf and to its sibling,
Halved == {"init", "cut", "fill", "link"}

LEMMA SplittingIs ==
  ASSUME Inv, pc \in Halved
  PROVE  /\ HeldAt = {call.page, call.sibling}
         /\ call \in Locals /\ call.key \in Keys /\ call.op = "insert"
         /\ call.page \in LeafPages /\ OnPath(call.page)
         /\ call.page \in PageIds /\ call.sibling \in PageIds /\ call.rid \in PageIds
         /\ Node(call.page) = Contents[call.page]
         /\ Entries(call.page) = Contents[call.page].entries
         /\ Contents[call.page] \in LeafBodies
         /\ Contents[call.page].entries \in Seq(EntryRecords)
         /\ GoodLeaf(Contents[call.page].entries)
         /\ Contents[call.rid] = Record(call.key)
<1>1. HeldAt = {call.page, call.sibling}
  BY DEF HeldAt, Halved
<1>2. /\ call \in Locals /\ call.key \in Keys /\ call.op = "insert"
      /\ call.page \in LeafPages /\ OnPath(call.page)
      /\ Contents[call.rid] = Record(call.key)
  BY InvIs DEF KnowsItsCall, Inserting, Halving, Halved
<1>3. call.page \in PageIds /\ call.sibling \in PageIds /\ call.rid \in PageIds
  BY <1>2, LocalsAre
<1>4. Node(call.page) = AsNode(Contents[call.page])
  BY <1>1, HeldPage
<1>5. Node(call.page) = Contents[call.page] /\ Contents[call.page] \in LeafBodies
  BY <1>2, <1>4, InvIs, LeafOf
<1>6. /\ Contents[call.page].entries \in Seq(EntryRecords)
      /\ GoodLeaf(Contents[call.page].entries)
  BY <1>2, InvIs, LeafOf
<1> QED  BY <1>1, <1>2, <1>3, <1>5, <1>6 DEF Entries

\* of the sibling once it is a leaf,
LEMMA SiblingIs ==
  ASSUME Inv, pc \in Halved \ {"init"}
  PROVE  /\ call.sibling \in LeafPages /\ call.sibling \notin {0, root_page_id}
         /\ call.sibling # call.page /\ Contents[call.sibling] \in LeafBodies
         /\ Node(call.sibling) = Contents[call.sibling]
         /\ Contents[call.sibling].parent = Contents[call.page].parent
<1>1. /\ call.sibling \in LeafPages /\ call.sibling \notin {0, root_page_id}
      /\ call.sibling # call.page
      /\ Contents[call.sibling].parent = Contents[call.page].parent
  BY InvIs DEF KnowsItsCall, Inserting, Halving, Halved
<1>2. Node(call.sibling) = AsNode(Contents[call.sibling])
  BY SplittingIs, HeldPage
<1> QED  BY <1>1, <1>2, InvIs, LeafOf

\* and of the halves while they are in the temporary arrays.
LEMMA HalvesWait ==
  ASSUME Inv, pc \in {"init", "cut"}
  PROVE  /\ ~ LeafAccepts(Contents[call.page].entries, call.key)
         /\ call.merged = Merged(Contents[call.page].entries, NewEntry)
         /\ LeftHalf(call.merged) \in Seq(EntryRecords) /\ GoodLeaf(LeftHalf(call.merged))
         /\ RightHalf(call.merged) \in Seq(EntryRecords)
         /\ GoodLeaf(RightHalf(call.merged)) /\ RightHalf(call.merged) # << >>
<1>1. /\ ~ LeafAccepts(Contents[call.page].entries, call.key)
      /\ call.merged = Merged(Contents[call.page].entries, NewEntry)
  BY InvIs DEF KnowsItsCall
<1>2. /\ call.key \in Keys /\ call.rid \in PageIds
      /\ Contents[call.page].entries \in Seq(EntryRecords)
      /\ GoodLeaf(Contents[call.page].entries) /\ Contents[call.rid] = Record(call.key)
  BY SplittingIs DEF Halved
<1> QED  BY <1>1, <1>2, HalvesAreGood DEF NewEntry

\* Each of these writes.
LEMMA LeafOverwritten ==
  ASSUME Inv, pc \in Halved, NEW to, Step(pc, to, call),
         NEW p \in {call.page, call.sibling}, NEW body \in LeafBodies, Write(p, body),
         GoodLeaf(body.entries),
         Contents[p] = ZeroBody \/ (p \in LeafPages /\ body.parent = Contents[p].parent),
         to \in Halving, ChangedAt' = ChangedAt \cup {p}
  PROVE  /\ Kept /\ TreeStands'
         /\ Contents' = [Contents EXCEPT ![p] = body] /\ Contents'[p] = body
         /\ \A q \in PageIds \ {p} : Contents'[q] = Contents[q]
         /\ LeafPages' = LeafPages \cup {p} /\ OnPath(call.page)'
         /\ Contents'[call.rid] = Record(call.key)
         /\ \A t \in Seq(EntryRecords) : GoodLeaf(t) => GoodLeaf(t)'
<1>1. /\ HeldAt = {call.page, call.sibling} /\ call \in Locals /\ call.key \in Keys
      /\ call.page \in PageIds /\ call.sibling \in PageIds /\ call.rid \in PageIds
      /\ OnPath(call.page) /\ Contents[call.rid] = Record(call.key)
  BY SplittingIs
<1>2. pc' = to /\ call' = call /\ root_page_id' = root_page_id
  BY StepIs
<1>3. HeldAt' = HeldAt
  BY <1>1, <1>2 DEF HeldAt, Halving
<1>4. Kept /\ Contents' = [Contents EXCEPT ![p] = body]
  <2>1. body \in Bodies
    BY LeafParts
  <2> QED  BY <1>1, <1>3, <2>1, WriteKeeps
<1>5. root_page_id \notin LeafPages /\ p \in ToSet(Root.children)
        => body.parent = root_page_id
  <2>1. CASE Contents[p] = ZeroBody
    <3>1. p \notin LeafPages
      BY <2>1, ZeroParts DEF LeafPages
    <3> QED  BY <3>1, InvIs DEF TreeStands, Root
  <2>2. CASE p \in LeafPages /\ body.parent = Contents[p].parent
    BY <2>2, InvIs DEF TreeStands
  <2> QED  BY <2>1, <2>2
<1>6. /\ TreeStands' /\ LeafPages' = LeafPages \cup {p}
      /\ \A q : OnPath(q)' <=> OnPath(q)
      /\ \A q \in PageIds, k \in Keys : Contents[q] = Record(k) => Contents'[q] = Record(k)
  BY <1>1, <1>2, <1>4, <1>5, InvIs, LeafWritten
<1>7. Contents'[p] = body /\ \A q \in PageIds \ {p} : Contents'[q] = Contents[q]
  BY <1>1, <1>4, Written1
<1>8. ASSUME NEW t \in Seq(EntryRecords), GoodLeaf(t)  PROVE GoodLeaf(t)'
  <2>1. \A e \in ToSet(t) : Contents'[e.value] = Record(e.key)
    BY <1>6, <1>8, EntryParts DEF GoodLeaf, NamesObjects
  <2> QED  BY <1>8, <2>1 DEF GoodLeaf, NamesObjects
<1>9. OnPath(call.page)'
  BY <1>1, <1>2, <1>6
<1> QED  BY <1>1, <1>4, <1>6, <1>7, <1>8, <1>9

LEMMA SplitInitKeeps ==
  ASSUME Inv, SplitInit
  PROVE  /\ Inv' /\ PoolUse /\ Contents[call.sibling] = ZeroBody
         /\ Contents' = [Contents EXCEPT ![call.sibling] =
                           Leaf(<< >>, Contents[call.page].parent, NoNext)]
<1> DEFINE p    == call.page
           q    == call.sibling
           body == Leaf(<< >>, Contents[p].parent, NoNext)
<1>1. /\ Step("init", "cut", call) /\ Write(q, Leaf(<< >>, Node(p).parent, NoNext))
      /\ pc = "init" /\ pc' = "cut" /\ call' = call /\ root_page_id' = root_page_id
  BY StepIs DEF SplitInit
<1>2. pc \in Halved /\ pc \in {"init", "cut"}
  BY <1>1 DEF Halved
<1>3. /\ p \in PageIds /\ q \in PageIds /\ p \in LeafPages /\ Node(p) = Contents[p]
      /\ call.key \in Keys /\ call.op = "insert"
  BY <1>2, SplittingIs
<1>4. /\ Contents[q] = ZeroBody /\ ~ LeafAccepts(Contents[p].entries, call.key)
      /\ call.merged = Merged(Contents[p].entries, NewEntry)
  BY <1>1, <1>2, InvIs, HalvesWait DEF KnowsItsCall
<1>5. q # p /\ q # 0 /\ q # root_page_id
  <2>1. q \notin LeafPages
    BY <1>4, ZeroParts DEF LeafPages
  <2>2. 0 \in LeafPages
    BY InvIs DEF TreeStands
  <2>3. Contents[root_page_id] # ZeroBody
    BY InvIs, PathIs DEF OnPath
  <2> QED  BY <1>3, <1>4, <2>1, <2>2, <2>3
<1>6. /\ body \in LeafBodies /\ body.entries = << >> /\ body.parent = Contents[p].parent
  <2>1. << >> \in Seq(EntryRecords) /\ NoNext \in PageIds
    BY PageZero
  <2>2. Contents[p].parent \in PageIds
    BY <1>3, InvIs, LeafOf
  <2> DEFINE none   == << >>
             parent == Contents[p].parent
  <2> HIDE DEF none, parent
  <2>3. none \in Seq(EntryRecords) /\ parent \in PageIds /\ NoNext \in PageIds
    BY <2>1, <2>2 DEF none, parent
  <2>4. LET leaf == Leaf(none, parent, NoNext)
        IN  leaf \in LeafBodies /\ leaf.entries = none /\ leaf.parent = parent
    BY <2>3, MakeLeaf
  <2> QED  BY <2>4 DEF none, parent
<1>7. GoodLeaf(body.entries)
  <2>1. Ascending(<< >>) /\ Len(<< >>) <= LeafMax /\ ToSet(<< >>) = {}
    BY LeafMaxAssumption DEF Ascending, ToSet
  <2>2. GoodLeaf(<< >>)
    BY <2>1 DEF GoodLeaf, NamesObjects
  <2> QED  BY <1>6, <2>2
<1>8. Write(q, body)
  BY <1>1, <1>3
<1> HIDE DEF body
<1>9. ChangedAt' = ChangedAt \cup {q}
  BY <1>1 DEF ChangedAt
<1>10. /\ Kept /\ TreeStands' /\ Contents' = [Contents EXCEPT ![q] = body]
       /\ Contents'[q] = body /\ Contents'[p] = Contents[p]
       /\ LeafPages' = LeafPages \cup {q} /\ OnPath(call.page)'
       /\ Contents'[call.rid] = Record(call.key)
  <2>1. "cut" \in Halving
    BY DEF Halving
  <2> QED  BY <1>1, <1>2, <1>3, <1>4, <1>5, <1>6, <1>7, <1>8, <1>9, <2>1, LeafOverwritten
<1>11. call.merged = Merged(Contents'[p].entries, NewEntry')
  BY <1>1, <1>4, <1>10 DEF NewEntry
<1>12. KnowsItsCall'
  BY <1>1, <1>3, <1>4, <1>5, <1>6, <1>10, <1>11 DEF KnowsItsCall, Inserting, Halving,
     Linking, Promoting, Rooting
<1> QED  BY <1>4, <1>10, <1>12 DEF Inv, IndInv, Kept, body

LEMMA SplitCutKeeps ==
  ASSUME Inv, SplitCut
  PROVE  /\ Inv' /\ PoolUse
         /\ Contents' = [Contents EXCEPT ![call.page] =
                           [Contents[call.page] EXCEPT !.entries = LeftHalf(call.merged)]]
<1> DEFINE p    == call.page
           q    == call.sibling
           left == LeftHalf(call.merged)
           body == [Contents[p] EXCEPT !.entries = left]
<1>1. /\ Step("cut", "fill", call) /\ Write(p, [Node(p) EXCEPT !.entries = left])
      /\ pc = "cut" /\ pc' = "fill" /\ call' = call /\ root_page_id' = root_page_id
  BY StepIs DEF SplitCut
<1>2. pc \in Halved /\ pc \in Halved \ {"init"} /\ pc \in {"init", "cut"}
  BY <1>1 DEF Halved
<1>3. /\ p \in PageIds /\ q \in PageIds /\ p \in LeafPages /\ Node(p) = Contents[p]
      /\ Contents[p] \in LeafBodies /\ call.key \in Keys /\ call.op = "insert"
  BY <1>2, SplittingIs
<1>4. /\ q \in LeafPages /\ q \notin {0, root_page_id} /\ q # p
      /\ Contents[q].parent = Contents[p].parent
  BY <1>2, SiblingIs
<1>5. /\ left \in Seq(EntryRecords) /\ GoodLeaf(left)
      /\ RightHalf(call.merged) \in Seq(EntryRecords)
      /\ GoodLeaf(RightHalf(call.merged)) /\ RightHalf(call.merged) # << >>
  BY <1>2, HalvesWait
<1>6. Write(p, body)
  BY <1>1, <1>3
<1> HIDE DEF left
<1>7. body \in LeafBodies /\ body.entries = left /\ body.parent = Contents[p].parent
  BY <1>3, <1>5 DEF LeafBodies, EntryRecords
<1> HIDE DEF body
<1>8. ChangedAt' = ChangedAt \cup {p}
  BY <1>1 DEF ChangedAt
<1>9. /\ Kept /\ TreeStands' /\ Contents' = [Contents EXCEPT ![p] = body]
      /\ Contents'[p] = body /\ Contents'[q] = Contents[q]
      /\ LeafPages' = LeafPages \cup {p} /\ OnPath(call.page)'
      /\ Contents'[call.rid] = Record(call.key)
      /\ GoodLeaf(RightHalf(call.merged))'
  <2>1. "fill" \in Halving
    BY DEF Halving
  <2>2. /\ Kept /\ TreeStands' /\ Contents' = [Contents EXCEPT ![p] = body]
        /\ Contents'[p] = body /\ Contents'[q] = Contents[q]
        /\ LeafPages' = LeafPages \cup {p} /\ OnPath(call.page)'
        /\ Contents'[call.rid] = Record(call.key)
        /\ \A t \in Seq(EntryRecords) : GoodLeaf(t) => GoodLeaf(t)'
    BY <1>1, <1>2, <1>3, <1>4, <1>5, <1>6, <1>7, <1>8, <2>1, LeafOverwritten
  <2> QED  BY <1>1, <1>5, <2>2 DEF GoodLeaf, NamesObjects
<1>10. KnowsItsCall'
  BY <1>1, <1>3, <1>4, <1>5, <1>7, <1>9 DEF KnowsItsCall, Inserting, Halving,
     Linking, Promoting, Rooting
<1> QED  BY <1>9, <1>10 DEF Inv, IndInv, Kept, body, left

LEMMA SplitFillKeeps ==
  ASSUME Inv, SplitFill
  PROVE  /\ Inv' /\ PoolUse /\ call.sibling \in LeafPages /\ call.sibling # root_page_id
         /\ \A q : q # call.sibling => Contents'[q] = Contents[q]
         /\ Contents'[call.sibling].entries = RightHalf(call.merged)
<1> DEFINE p     == call.page
           q     == call.sibling
           right == RightHalf(call.merged)
           body  == [Contents[q] EXCEPT !.entries = right, !.next = Contents[p].next]
<1>1. /\ Step("fill", "link", call)
      /\ Write(q, [Node(q) EXCEPT !.entries = right, !.next = Node(p).next])
      /\ pc = "fill" /\ pc' = "link" /\ call' = call /\ root_page_id' = root_page_id
  BY StepIs DEF SplitFill
<1>2. pc \in Halved /\ pc \in Halved \ {"init"}
  BY <1>1 DEF Halved
<1>3. /\ p \in PageIds /\ q \in PageIds /\ p \in LeafPages /\ Node(p) = Contents[p]
      /\ Contents[p] \in LeafBodies /\ call.key \in Keys /\ call.op = "insert"
  BY <1>2, SplittingIs
<1>4. /\ q \in LeafPages /\ q \notin {0, root_page_id} /\ q # p
      /\ Node(q) = Contents[q] /\ Contents[q] \in LeafBodies
      /\ Contents[q].parent = Contents[p].parent
  BY <1>2, SiblingIs
<1>5. right \in Seq(EntryRecords) /\ GoodLeaf(right) /\ right # << >>
  BY <1>1, InvIs DEF KnowsItsCall
<1>6. Write(q, body)
  BY <1>1, <1>3, <1>4
<1> HIDE DEF right
<1>7. body \in LeafBodies /\ body.entries = right /\ body.parent = Contents[q].parent
  BY <1>3, <1>4, <1>5 DEF LeafBodies, EntryRecords
<1> HIDE DEF body
<1>8. ChangedAt' = ChangedAt \cup {q}
  BY <1>1 DEF ChangedAt
<1>9. /\ Kept /\ TreeStands' /\ Contents' = [Contents EXCEPT ![q] = body]
      /\ Contents'[q] = body /\ Contents'[p] = Contents[p]
      /\ LeafPages' = LeafPages \cup {q} /\ OnPath(call.page)'
      /\ Contents'[call.rid] = Record(call.key)
  <2>1. "link" \in Halving
    BY DEF Halving
  <2> QED  BY <1>1, <1>2, <1>3, <1>4, <1>5, <1>6, <1>7, <1>8, <2>1, LeafOverwritten
<1>10. KnowsItsCall'
  BY <1>1, <1>3, <1>4, <1>5, <1>7, <1>9 DEF KnowsItsCall, Inserting, Halving,
     Linking, Promoting, Rooting
<1>11. \A x : x # q => Contents'[x] = Contents[x]
  BY <1>9
<1> QED  BY <1>4, <1>7, <1>9, <1>10, <1>11 DEF Inv, IndInv, Kept, right

LEMMA SplitLinkKeeps ==
  ASSUME Inv, SplitLink
  PROVE  /\ Inv' /\ PoolUse /\ (call.page \in LeafPages)'
         /\ Contents' = [Contents EXCEPT ![call.page] =
                           [Contents[call.page] EXCEPT !.next = call.sibling]]
         /\ Contents'[call.page].entries = Contents[call.page].entries
<1> DEFINE p    == call.page
           q    == call.sibling
           body == [Contents[p] EXCEPT !.next = q]
<1>1. /\ Step("link", "halved", call) /\ Write(p, [Node(p) EXCEPT !.next = q])
      /\ pc = "link" /\ pc' = "halved" /\ call' = call /\ root_page_id' = root_page_id
  BY StepIs DEF SplitLink
<1>2. pc \in Halved /\ pc \in Halved \ {"init"}
  BY <1>1 DEF Halved
<1>3. /\ p \in PageIds /\ q \in PageIds /\ p \in LeafPages /\ Node(p) = Contents[p]
      /\ Contents[p] \in LeafBodies /\ GoodLeaf(Contents[p].entries)
      /\ call.key \in Keys /\ call.op = "insert"
  BY <1>2, SplittingIs
<1>4. /\ q \in LeafPages /\ q \notin {0, root_page_id} /\ q # p
      /\ Contents[q].parent = Contents[p].parent /\ Contents[q].entries # << >>
  BY <1>1, <1>2, SiblingIs, InvIs DEF KnowsItsCall
<1>5. Write(p, body)
  BY <1>1, <1>3
<1>6. /\ body \in LeafBodies /\ body.entries = Contents[p].entries
      /\ body.parent = Contents[p].parent
  BY <1>3 DEF LeafBodies
<1> HIDE DEF body
<1>7. ChangedAt' = ChangedAt \cup {p}
  BY <1>1 DEF ChangedAt
<1>8. /\ Kept /\ TreeStands' /\ Contents' = [Contents EXCEPT ![p] = body]
      /\ Contents'[p] = body /\ Contents'[q] = Contents[q]
      /\ LeafPages' = LeafPages \cup {p} /\ OnPath(call.page)'
      /\ Contents'[call.rid] = Record(call.key)
  <2>1. "halved" \in Halving
    BY DEF Halving
  <2> QED  BY <1>1, <1>2, <1>3, <1>4, <1>5, <1>6, <1>7, <2>1, LeafOverwritten
<1>9. KnowsItsCall'
  BY <1>1, <1>3, <1>4, <1>6, <1>8 DEF KnowsItsCall, Inserting, Halving,
     Linking, Promoting, Rooting
<1>10. (call.page \in LeafPages)'
  BY <1>1, <1>8
<1> QED  BY <1>6, <1>8, <1>9, <1>10 DEF Inv, IndInv, Kept, body

LEMMA SplitUnpinSiblingKeeps ==
  ASSUME Inv, SplitUnpinSibling
  PROVE  /\ Inv' /\ PoolUse /\ Contents' = Contents
         /\ Step("halved", "split",
                 [call EXCEPT !.separator = Contents[call.sibling].entries[1].key])
<1> DEFINE p   == call.page
           q   == call.sibling
           key == Contents[q].entries[1].key
           c   == [call EXCEPT !.separator = key]
<1>1. /\ pc = "halved" /\ Unpin(q, TRUE)
      /\ Step("halved", "split",
              [call EXCEPT !.separator = frames'[held[q]].body.entries[1].key])
  BY DEF SplitUnpinSibling, Step
<1>2. /\ HeldAt = {p, q} /\ ChangedAt = {p, q} /\ p # q
      /\ call \in Locals /\ q \in LeafPages /\ Contents[q].entries # << >>
  BY <1>1, InvIs DEF HeldAt, ChangedAt, KnowsItsCall, Inserting, Halving
<1>3. frames'[held[q]].body = Contents[q]
  <2>1. frames' = frames
    BY <1>1 DEF Unpin, UnpinPage, UnpinAbsent, UnpinIdle, UnpinPinned, poolVars,
       metaVars
  <2> QED  BY <1>2, <2>1, HeldPage
<1>4. /\ Step("halved", "split", c) /\ pc' = "split" /\ call' = c
  BY <1>1, <1>3, StepIs
<1>5. Contents[q].entries \in Seq(EntryRecords) /\ Contents[q] # ZeroBody
  BY <1>2, InvIs, LeafOf
<1>6. key \in Keys
  BY <1>2, <1>5, FirstEntry
<1> HIDE DEF key
<1>7. /\ c \in Locals /\ c.separator = key /\ c.page = p /\ c.sibling = q
      /\ c.key = call.key /\ c.rid = call.rid /\ c.op = call.op
  BY <1>2, <1>6 DEF Locals
<1> HIDE DEF c
<1>8. HeldAt' = HeldAt \ {q} /\ ChangedAt' = ChangedAt \ {q}
  BY <1>1, <1>2, <1>4, <1>7 DEF HeldAt, ChangedAt
<1>9. Kept /\ TreeUnmoved
  BY <1>1, <1>2, <1>4, <1>5, <1>7, <1>8, UnpinKeeps
<1>10. KnowsItsCall'
  BY <1>1, <1>4, <1>6, <1>7, <1>9, InvIs DEF KnowsItsCall, TreeUnmoved, Inserting, Halving,
     Linking, Promoting, Rooting
<1> QED  BY <1>4, <1>9, <1>10 DEF Inv, IndInv, Kept, TreeUnmoved, c, key

LEMMA SplitUnpinLeafKeeps ==
  ASSUME Inv, SplitUnpinLeaf
  PROVE  Inv' /\ PoolUse /\ Contents' = Contents
<1>1. /\ Step("split", "propagate", call) /\ Unpin(Header(call.page), TRUE)
      /\ pc = "split" /\ pc' = "propagate" /\ call' = call
  BY StepIs DEF SplitUnpinLeaf
<1>2. /\ HeldAt = {call.page} /\ ChangedAt = {call.page} /\ call \in Locals
      /\ call.page \in LeafPages
  BY <1>1, InvIs DEF HeldAt, ChangedAt, KnowsItsCall, Linking
<1>3. Header(call.page) = call.page /\ Contents[call.page] # ZeroBody
  BY <1>2, InvIs, LeafOf, HeldPage
<1>4. HeldAt' = HeldAt \ {call.page} /\ ChangedAt' = ChangedAt \ {call.page}
  BY <1>1, <1>2 DEF HeldAt, ChangedAt
<1>5. Kept /\ TreeUnmoved
  BY <1>1, <1>2, <1>3, <1>4, UnpinKeeps
<1>6. KnowsItsCall'
  BY <1>1, <1>5, InvIs DEF KnowsItsCall, TreeUnmoved, Inserting, Halving,
     Linking, Promoting, Rooting
<1> QED  BY <1>5, <1>6 DEF Inv, IndInv, Kept, TreeUnmoved

\* insertIntoParent.
LEMMA LinkingIs ==
  ASSUME Inv, pc \in Linking
  PROVE  /\ call \in Locals /\ call.page \in LeafPages /\ OnPath(call.page)
         /\ call.page \in PageIds /\ Contents[call.page] # ZeroBody
BY InvIs, LeafOf DEF KnowsItsCall, Linking

LEMMA ParentFetchLeftKeeps ==
  ASSUME Inv, ParentFetchLeft
  PROVE  Inv' /\ PoolUse /\ Contents' = Contents
<1>1. /\ Step("propagate", "left", call) /\ Fetch(call.page)
      /\ pc = "propagate" /\ pc' = "left" /\ call' = call
  BY StepIs DEF ParentFetchLeft
<1>2. call \in Locals /\ call.page \in PageIds /\ Contents[call.page] # ZeroBody
  BY <1>1, LinkingIs DEF Linking
<1>3. HeldAt = {} /\ ChangedAt = {} /\ HeldAt' = {call.page} /\ ChangedAt' = {}
  BY <1>1 DEF HeldAt, ChangedAt
<1>4. Kept /\ TreeUnmoved
  BY <1>1, <1>2, <1>3, FetchKeeps
<1>5. KnowsItsCall'
  BY <1>1, <1>4, InvIs DEF KnowsItsCall, TreeUnmoved, Inserting, Halving,
     Linking, Promoting, Rooting
<1> QED  BY <1>4, <1>5 DEF Inv, IndInv, Kept, TreeUnmoved

LEMMA ParentReadLeftKeeps ==
  ASSUME Inv, ParentReadLeft
  PROVE  Inv' /\ PoolUse /\ Contents' = Contents
<1> DEFINE p  == call.page
           up == Node(p).parent
           c  == [call EXCEPT !.up = up]
           to == IF p = root_page_id THEN "newroot" ELSE "parent"
<1>1. /\ Step("left", to, c) /\ Unpin(p, FALSE)
      /\ pc = "left" /\ pc' = to /\ call' = c
  <2>1. Step("left", to, c) /\ Unpin(p, FALSE)
    BY DEF ParentReadLeft
  <2> HIDE DEF to, c
  <2> QED  BY <2>1, StepIs
<1>2. /\ call \in Locals /\ p \in LeafPages /\ OnPath(p) /\ HeldAt = {p} /\ ChangedAt = {}
  BY <1>1, LinkingIs DEF Linking, HeldAt, ChangedAt
<1>3. Node(p) = Contents[p] /\ up \in PageIds
  BY <1>2, HeldPage, InvIs, LeafOf
<1>4. p # root_page_id => root_page_id \notin LeafPages /\ up = root_page_id
  BY <1>2, <1>3, InvIs DEF OnPath, TreeStands
<1>5. Contents[call.sibling].parent = up
  BY <1>1, <1>3, InvIs DEF KnowsItsCall, Linking
<1> HIDE DEF up
<1>6. /\ c \in Locals /\ c.up = up /\ c.page = p /\ c.sibling = call.sibling
      /\ c.key = call.key /\ c.rid = call.rid /\ c.op = call.op
      /\ c.separator = call.separator
  BY <1>2, <1>3 DEF Locals
<1> HIDE DEF c
<1>7. HeldAt' = HeldAt \ {p} /\ ChangedAt' = ChangedAt \ {p}
  BY <1>1, <1>2 DEF HeldAt, ChangedAt
<1>8. Kept /\ TreeUnmoved
  BY <1>1, <1>2, <1>6, <1>7, UnpinKeeps
<1>9. CASE p = root_page_id
  <2>1. pc' = "newroot" /\ root_page_id \in LeafPages
    BY <1>1, <1>2, <1>9
  <2>2. KnowsItsCall'
    BY <1>1, <1>2, <1>6, <1>8, <1>9, <2>1, InvIs DEF KnowsItsCall, TreeUnmoved, Inserting,
       Halving, Linking, Promoting, Rooting
  <2> QED  BY <1>8, <2>2 DEF Inv, IndInv, Kept, TreeUnmoved
<1>10. CASE p # root_page_id
  <2>1. pc' = "parent"
    BY <1>1, <1>10
  <2>2. KnowsItsCall'
    BY <1>1, <1>4, <1>5, <1>6, <1>8, <1>10, <2>1, InvIs DEF KnowsItsCall, TreeUnmoved,
       Inserting, Halving, Linking, Promoting, Rooting
  <2> QED  BY <1>8, <2>2 DEF Inv, IndInv, Kept, TreeUnmoved
<1> QED  BY <1>9, <1>10

LEMMA PromotingIs ==
  ASSUME Inv, pc \in Promoting
  PROVE  /\ call \in Locals /\ call.key \in Keys /\ call.op = "insert"
         /\ call.up = root_page_id /\ root_page_id \notin LeafPages
         /\ Root \in InternalBodies /\ GoodInternal(Root)
         /\ \A q \in ToSet(Root.children) : Contents[q].parent = root_page_id
         /\ Contents[root_page_id] # ZeroBody
         /\ call.sibling \in LeafPages /\ Contents[call.sibling].parent = root_page_id
         /\ call.separator \in Keys /\ Contents[call.rid] = Record(call.key)
<1>1. /\ call \in Locals /\ call.key \in Keys /\ call.op = "insert"
      /\ call.up = root_page_id /\ root_page_id \notin LeafPages
      /\ call.sibling \in LeafPages /\ Contents[call.sibling].parent = root_page_id
      /\ call.separator \in Keys /\ Contents[call.rid] = Record(call.key)
  BY InvIs DEF KnowsItsCall, Inserting, Promoting
<1>2. /\ Root \in InternalBodies /\ GoodInternal(Root)
      /\ \A q \in ToSet(Root.children) : Contents[q].parent = root_page_id
  BY <1>1, InvIs DEF TreeStands, Root, GoodInternal
<1> QED  BY <1>1, <1>2, InternalParts DEF Root

LEMMA ParentFetchKeeps ==
  ASSUME Inv, ParentFetch
  PROVE  Inv' /\ PoolUse /\ Contents' = Contents
<1>1. /\ Step("parent", "insertafter", call) /\ Fetch(call.up)
      /\ pc = "parent" /\ pc' = "insertafter" /\ call' = call
  BY StepIs DEF ParentFetch
<1>2. call \in Locals /\ call.up \in PageIds /\ Contents[call.up] # ZeroBody
  BY <1>1, PromotingIs, InvIs DEF Promoting
<1>3. HeldAt = {} /\ ChangedAt = {} /\ HeldAt' = {call.up} /\ ChangedAt' = {}
  BY <1>1 DEF HeldAt, ChangedAt
<1>4. Kept /\ TreeUnmoved
  BY <1>1, <1>2, <1>3, FetchKeeps
<1>5. KnowsItsCall'
  BY <1>1, <1>4, InvIs DEF KnowsItsCall, TreeUnmoved, Inserting, Halving,
     Linking, Promoting, Rooting
<1> QED  BY <1>4, <1>5 DEF Inv, IndInv, Kept, TreeUnmoved

LEMMA ParentInsertKeeps ==
  ASSUME Inv, ParentInsert
  PROVE  /\ Inv' /\ PoolUse
         /\ Contents' =
              [Contents EXCEPT ![root_page_id] =
                 InsertAfter(Root, call.separator, call.sibling)]
<1> DEFINE r    == root_page_id
           body == InsertAfter(Root, call.separator, call.sibling)
<1>1. /\ Step("insertafter", "parentdone", call)
      /\ Write(call.up, InsertAfter(Node(call.up), call.separator, call.sibling))
      /\ pc = "insertafter" /\ pc' = "parentdone" /\ call' = call /\ root_page_id' = r
  BY StepIs DEF ParentInsert
<1>2. /\ call \in Locals /\ call.key \in Keys /\ call.op = "insert"
      /\ call.up = r /\ r \notin LeafPages
      /\ Root \in InternalBodies /\ GoodInternal(Root)
      /\ \A q \in ToSet(Root.children) : Contents[q].parent = r
      /\ call.sibling \in LeafPages /\ Contents[call.sibling].parent = r
      /\ call.separator \in Keys /\ Contents[call.rid] = Record(call.key)
      /\ call.rid \in PageIds
  BY <1>1, PromotingIs, LocalsAre DEF Promoting
<1>3. HeldAt = {r} /\ ChangedAt = {} /\ HeldAt' = HeldAt /\ ChangedAt' = ChangedAt \cup {r}
  BY <1>1, <1>2 DEF HeldAt, ChangedAt
<1>4. Node(call.up) = Root
  BY <1>2, <1>3, HeldPage, InternalParts DEF Root
<1>5. /\ body \in InternalBodies /\ GoodInternal(body)
      /\ ToSet(body.children) = ToSet(Root.children) \cup {call.sibling}
  <2>1. /\ Root \in InternalBodies /\ GoodInternal(Root)
        /\ call.separator \in Keys /\ call.sibling \in LeafPages
    BY <1>2
  <2> QED  BY <2>1, ParentTakes, ZenonT(30)
<1>6. Write(r, body)
  BY <1>1, <1>2, <1>4
<1> HIDE DEF body
<1>7. Kept /\ Contents' = [Contents EXCEPT ![r] = body]
  BY <1>1, <1>2, <1>3, <1>5, <1>6, InternalParts, WriteKeeps
<1>8. /\ TreeStands' /\ LeafPages' = LeafPages
      /\ Contents'[call.rid] = Record(call.key)
      /\ \A q \in LeafPages : Contents'[q] = Contents[q]
  <2>1. \A q \in ToSet(body.children) : Contents[q].parent = r
    BY <1>2, <1>5
  <2> QED  BY <1>1, <1>2, <1>5, <1>7, <2>1, InvIs, RootWritten
<1>9. call.sibling # 0
  BY <1>1, InvIs DEF KnowsItsCall, Inserting, Halving, Linking, Promoting
<1>10. KnowsItsCall'
  BY <1>1, <1>2, <1>8, <1>9 DEF KnowsItsCall, Inserting, Halving,
     Linking, Promoting, Rooting
<1> QED  BY <1>7, <1>8, <1>10 DEF Inv, IndInv, Kept, body

LEMMA ParentDoneKeeps ==
  ASSUME Inv, ParentDone
  PROVE  Inv' /\ PoolUse /\ Contents' = Contents
<1>1. InsertReturns("parentdone") /\ Unpin(call.up, TRUE) /\ pc = "parentdone"
  BY DEF ParentDone, InsertReturns
<1>2. HeldAt = {call.up} /\ ChangedAt = {call.up}
  BY <1>1 DEF HeldAt, ChangedAt
<1>3. call.key \in Keys /\ Contents[call.up] # ZeroBody
  BY <1>1, PromotingIs DEF Promoting
<1> QED  BY <1>1, <1>2, <1>3, InsertReturnsKeeps

LEMMA ParentFullKeeps ==
  ASSUME Inv, ParentFull
  PROVE  Inv' /\ PoolUse /\ Contents' = Contents
<1>1. InsertReturns("insertafter") /\ Unpin(call.up, FALSE) /\ pc = "insertafter"
  BY DEF ParentFull, InsertReturns
<1>2. HeldAt = {call.up} /\ ChangedAt = {}
  BY <1>1 DEF HeldAt, ChangedAt
<1>3. call.key \in Keys
  BY <1>1, PromotingIs DEF Promoting
<1> QED  BY <1>1, <1>2, <1>3, InsertReturnsKeeps

\* createNewRoot.
LEMMA RootingIs ==
  ASSUME Inv, pc \in Rooting
  PROVE  /\ call \in Locals /\ call.key \in Keys /\ call.op = "insert"
         /\ root_page_id \in LeafPages /\ call.page \in {root_page_id, call.sibling}
         /\ pc \in {"newroot", "rootwrite", "rootdone"} => call.page = root_page_id
         /\ call.sibling \in LeafPages /\ call.sibling \notin {0, root_page_id}
         /\ call.separator \in Keys /\ Contents[call.rid] = Record(call.key)
         /\ call.page \in LeafPages
BY InvIs DEF KnowsItsCall, Inserting, Rooting

LEMMA RootNewKeeps ==
  ASSUME Inv, RootNew
  PROVE  Inv' /\ PoolUse /\ Contents' = Contents
<1> DEFINE c == [call EXCEPT !.up = next_page_id]
<1>1. /\ Step("newroot", "rootwrite", c) /\ New
      /\ pc = "newroot" /\ pc' = "rootwrite" /\ call' = c
  BY StepIs DEF RootNew
<1>2. next_page_id \in PageIds
  BY <1>1, InvIs, NewStep
<1>3. /\ c \in Locals /\ c.up = next_page_id /\ c.page = call.page
      /\ c.sibling = call.sibling /\ c.separator = call.separator
      /\ c.key = call.key /\ c.rid = call.rid /\ c.op = call.op
  BY <1>2, InvIs DEF Locals
<1> HIDE DEF c
<1>4. HeldAt' = HeldAt \cup {next_page_id} /\ ChangedAt' = ChangedAt
  BY <1>1, <1>3 DEF HeldAt, ChangedAt
<1>5. Kept /\ TreeUnmoved /\ Contents[next_page_id] = ZeroBody
  BY <1>1, <1>3, <1>4, NewKeeps
<1>6. KnowsItsCall'
  BY <1>1, <1>3, <1>5, InvIs DEF KnowsItsCall, TreeUnmoved, Inserting, Halving,
     Linking, Promoting, Rooting
<1> QED  BY <1>5, <1>6 DEF Inv, IndInv, Kept, TreeUnmoved

LEMMA RootWriteKeeps ==
  ASSUME Inv, RootWrite
  PROVE  /\ Inv' /\ PoolUse
         /\ Contents' =
              [Contents EXCEPT ![call.up] =
                 Internal(<<call.separator>>, <<root_page_id, call.sibling>>, 0)]
<1> DEFINE r        == root_page_id
           keys     == <<call.separator>>
           children == <<r, call.sibling>>
           body     == Internal(keys, children, 0)
<1>1. /\ Step("rootwrite", "rootdone", call)
      /\ Write(call.up, Internal(<<call.separator>>, <<call.page, call.sibling>>, 0))
      /\ pc = "rootwrite" /\ pc' = "rootdone" /\ call' = call /\ root_page_id' = r
  BY StepIs DEF RootWrite
<1>2. /\ call \in Locals /\ call.key \in Keys /\ call.op = "insert" /\ r \in LeafPages
      /\ call.page = r /\ call.sibling \in LeafPages /\ call.sibling \notin {0, r}
      /\ call.separator \in Keys /\ Contents[call.rid] = Record(call.key)
      /\ call.rid \in PageIds /\ call.up \in PageIds
  BY <1>1, RootingIs, LocalsAre DEF Rooting
<1>3. Contents[call.up] = ZeroBody
  BY <1>1, InvIs DEF KnowsItsCall
<1>4. /\ body \in InternalBodies /\ body.children = children /\ GoodInternal(body)
  <2>1. r \in PageIds /\ call.sibling \in PageIds
    BY <1>2 DEF LeafPages
  <2>2. keys \in Seq(Keys) /\ children \in Seq(PageIds)
    BY <1>2, <2>1
  <2>4. ToSet(children) \subseteq LeafPages
    BY <1>2 DEF ToSet
  <2>5. Len(children) = 2 /\ Len(keys) = 1 /\ keys # << >>
    OBVIOUS
  <2> HIDE DEF keys, children
  <2>3. /\ body \in InternalBodies /\ body.keys = keys /\ body.children = children
    BY <2>2, PageZero, MakeInternal
  <2> HIDE DEF body
  <2> QED  BY <2>3, <2>4, <2>5 DEF GoodInternal
<1>5. Write(call.up, body)
  BY <1>1, <1>2
<1> HIDE DEF body
<1>6. HeldAt = {call.up} /\ ChangedAt = {} /\ HeldAt' = HeldAt
      /\ ChangedAt' = ChangedAt \cup {call.up}
  BY <1>1 DEF HeldAt, ChangedAt
<1>7. Kept /\ Contents' = [Contents EXCEPT ![call.up] = body]
  BY <1>1, <1>2, <1>4, <1>5, <1>6, InternalParts, WriteKeeps
<1>8. /\ TreeStands' /\ LeafPages' = LeafPages
      /\ Contents'[call.rid] = Record(call.key)
  <2>1. body \in Bodies \ LeafBodies
    BY <1>4, InternalParts
  <2> QED  BY <1>1, <1>2, <1>3, <1>4, <1>7, <2>1, InvIs, BlankWritten
<1>9. Contents'[call.up] = body
  BY <1>2, <1>7, Written1
<1>10. KnowsItsCall'
  BY <1>1, <1>2, <1>4, <1>8, <1>9 DEF KnowsItsCall, Inserting, Halving,
     Linking, Promoting, Rooting
<1> QED  BY <1>7, <1>8, <1>10 DEF Inv, IndInv, Kept, body

LEMMA RootUnpinKeeps ==
  ASSUME Inv, RootUnpin
  PROVE  Inv' /\ PoolUse /\ Contents' = Contents
<1>1. /\ Step("rootdone", "child", call) /\ Unpin(call.up, TRUE)
      /\ pc = "rootdone" /\ pc' = "child" /\ call' = call
  BY StepIs DEF RootUnpin
<1>2. /\ HeldAt = {call.up} /\ ChangedAt = {call.up} /\ call \in Locals
      /\ Contents[call.up] # ZeroBody
  BY <1>1, InvIs, InternalParts DEF HeldAt, ChangedAt, KnowsItsCall
<1>3. HeldAt' = HeldAt \ {call.up} /\ ChangedAt' = ChangedAt \ {call.up}
  BY <1>1, <1>2 DEF HeldAt, ChangedAt
<1>4. Kept /\ TreeUnmoved
  BY <1>1, <1>2, <1>3, UnpinKeeps
<1>5. KnowsItsCall'
  BY <1>1, <1>4, InvIs DEF KnowsItsCall, TreeUnmoved, Inserting, Halving,
     Linking, Promoting, Rooting
<1> QED  BY <1>4, <1>5 DEF Inv, IndInv, Kept, TreeUnmoved

LEMMA ChildFetchKeeps ==
  ASSUME Inv, ChildFetch
  PROVE  Inv' /\ PoolUse /\ Contents' = Contents
<1>1. /\ Step("child", "adopt", call) /\ Fetch(call.page)
      /\ pc = "child" /\ pc' = "adopt" /\ call' = call
  BY StepIs DEF ChildFetch
<1>2. call \in Locals /\ call.page \in PageIds /\ Contents[call.page] # ZeroBody
  BY <1>1, RootingIs, InvIs, LeafOf DEF Rooting
<1>3. HeldAt = {} /\ ChangedAt = {} /\ HeldAt' = {call.page} /\ ChangedAt' = {}
  BY <1>1 DEF HeldAt, ChangedAt
<1>4. Kept /\ TreeUnmoved
  BY <1>1, <1>2, <1>3, FetchKeeps
<1>5. KnowsItsCall'
  BY <1>1, <1>4, InvIs DEF KnowsItsCall, TreeUnmoved, Inserting, Halving,
     Linking, Promoting, Rooting
<1> QED  BY <1>4, <1>5 DEF Inv, IndInv, Kept, TreeUnmoved

LEMMA ChildAdoptKeeps ==
  ASSUME Inv, ChildAdopt
  PROVE  /\ Inv' /\ PoolUse
         /\ Contents' =
              [Contents EXCEPT ![call.page] =
                 [Contents[call.page] EXCEPT !.parent = call.up]]
<1> DEFINE p    == call.page
           r    == root_page_id
           leaf == Contents[p]
           body == [leaf EXCEPT !.parent = call.up]
<1>1. /\ Step("adopt", "adopted", call)
      /\ Write(p, [Node(p) EXCEPT !.parent = call.up])
      /\ pc = "adopt" /\ pc' = "adopted" /\ call' = call /\ root_page_id' = r
  BY StepIs DEF ChildAdopt
<1>2. /\ call \in Locals /\ call.key \in Keys /\ call.op = "insert" /\ r \in LeafPages
      /\ p \in {r, call.sibling} /\ p \in LeafPages /\ p \in PageIds
      /\ call.sibling \in LeafPages /\ call.sibling \notin {0, r}
      /\ call.separator \in Keys /\ Contents[call.rid] = Record(call.key)
      /\ call.rid \in PageIds /\ call.up \in PageIds
  BY <1>1, RootingIs, LocalsAre DEF Rooting
<1>3. /\ Contents[call.up] \in InternalBodies
      /\ Contents[call.up].children = <<r, call.sibling>>
      /\ p = call.sibling => Contents[r].parent = call.up
  BY <1>1, InvIs DEF KnowsItsCall
<1>4. leaf \in LeafBodies /\ GoodLeaf(leaf.entries)
  BY <1>2, InvIs, LeafOf
<1>5. HeldAt = {p} /\ ChangedAt = {} /\ HeldAt' = HeldAt /\ ChangedAt' = ChangedAt \cup {p}
  BY <1>1 DEF HeldAt, ChangedAt
<1>6. Write(p, body)
  BY <1>1, <1>2, <1>5, HeldPage, InvIs, LeafOf
<1>7. body \in LeafBodies /\ body.entries = leaf.entries /\ body.parent = call.up
  BY <1>2, <1>4 DEF LeafBodies
<1> HIDE DEF body
<1>8. Kept /\ Contents' = [Contents EXCEPT ![p] = body]
  BY <1>1, <1>2, <1>5, <1>6, <1>7, LeafParts, WriteKeeps
<1>9. /\ TreeStands' /\ LeafPages' = LeafPages \cup {p}
      /\ Contents'[call.rid] = Record(call.key)
      /\ Contents'[call.up] = Contents[call.up]
  BY <1>1, <1>2, <1>3, <1>4, <1>7, <1>8, InvIs, LeafWritten
<1>10. Contents'[p] = body /\ (p # r => Contents'[r] = Contents[r])
  BY <1>2, <1>8, InvIs, Written1
<1> HIDE DEF leaf
<1>11. KnowsItsCall'
  BY <1>1, <1>2, <1>3, <1>7, <1>9, <1>10 DEF KnowsItsCall, Inserting, Halving,
     Linking, Promoting, Rooting
<1> QED  BY <1>8, <1>9, <1>11 DEF Inv, IndInv, Kept, body, leaf

\* Both children know the new root.
LEMMA AdoptedIs ==
  ASSUME Inv, pc = "adopted"
  PROVE  /\ HeldAt = {call.page} /\ ChangedAt = {call.page} /\ call \in Locals
         /\ call.key \in Keys /\ call.page \in LeafPages /\ Contents[call.page] # ZeroBody
         /\ call.page \in {root_page_id, call.sibling}
         /\ call.sibling \in LeafPages /\ call.sibling # root_page_id
         /\ Contents[call.up] \in InternalBodies /\ call.up \in PageIds
         /\ Contents[call.up].children = <<root_page_id, call.sibling>>
         /\ Contents[call.page].parent = call.up
         /\ Contents[root_page_id].parent = call.up
<1>1. HeldAt = {call.page} /\ ChangedAt = {call.page}
  BY DEF HeldAt, ChangedAt
<1>2. /\ call \in Locals /\ call.key \in Keys /\ call.page \in LeafPages
      /\ call.page \in {root_page_id, call.sibling}
      /\ call.sibling \in LeafPages /\ call.sibling # root_page_id
  BY RootingIs DEF Rooting
<1>3. /\ Contents[call.up] \in InternalBodies
      /\ Contents[call.up].children = <<root_page_id, call.sibling>>
      /\ Contents[call.page].parent = call.up
      /\ call.page = call.sibling => Contents[root_page_id].parent = call.up
  BY InvIs DEF KnowsItsCall
<1> QED  BY <1>1, <1>2, <1>3, InvIs, LeafOf, LocalsAre

LEMMA LeftDoneKeeps ==
  ASSUME Inv, LeftDone
  PROVE  Inv' /\ PoolUse /\ Contents' = Contents
<1> DEFINE c == [call EXCEPT !.page = call.sibling]
<1>1. /\ Step("adopted", "child", c) /\ Unpin(call.page, TRUE) /\ call.page # call.sibling
      /\ pc = "adopted" /\ pc' = "child" /\ call' = c
  BY StepIs DEF LeftDone
<1>2. /\ HeldAt = {call.page} /\ ChangedAt = {call.page} /\ call \in Locals
      /\ Contents[call.page] # ZeroBody /\ call.sibling \in PageIds
      /\ Contents[root_page_id].parent = call.up
  BY <1>1, AdoptedIs, LocalsAre
<1>3. /\ c \in Locals /\ c.up = call.up /\ c.page = call.sibling
      /\ c.sibling = call.sibling /\ c.separator = call.separator
      /\ c.key = call.key /\ c.rid = call.rid /\ c.op = call.op
  BY <1>2 DEF Locals
<1> HIDE DEF c
<1>4. HeldAt' = HeldAt \ {call.page} /\ ChangedAt' = ChangedAt \ {call.page}
  BY <1>1, <1>2 DEF HeldAt, ChangedAt
<1>5. Kept /\ TreeUnmoved
  BY <1>1, <1>2, <1>3, <1>4, UnpinKeeps
<1>6. KnowsItsCall'
  BY <1>1, <1>2, <1>3, <1>5, InvIs DEF KnowsItsCall, TreeUnmoved, Inserting, Halving,
     Linking, Promoting, Rooting
<1> QED  BY <1>5, <1>6 DEF Inv, IndInv, Kept, TreeUnmoved

LEMMA RightDoneKeeps ==
  ASSUME Inv, RightDone
  PROVE  Inv' /\ PoolUse /\ Contents' = Contents
<1>1. /\ pc = "adopted" /\ call.page = call.sibling /\ Unpin(call.page, TRUE)
      /\ pc' = "idle" /\ call' = NoCall /\ stored' = stored \cup {call.key}
      /\ root_page_id' = call.up /\ next_data_page_id' = next_data_page_id
      /\ answer' = answer
  BY DEF RightDone, Goto
<1>2. /\ HeldAt = {call.page} /\ ChangedAt = {call.page} /\ call.key \in Keys
      /\ Contents[call.page] # ZeroBody /\ call.up \in PageIds
      /\ Contents[call.up] \in InternalBodies
      /\ Contents[call.up].children = <<root_page_id, call.sibling>>
      /\ Contents[call.sibling].parent = call.up
      /\ Contents[root_page_id].parent = call.up
  BY <1>1, AdoptedIs
<1>3. Kept /\ KnowsItsCall' /\ Contents' = Contents
  <2>1. stored' \subseteq Keys /\ AnswersSound'
    BY <1>1, <1>2, InvIs DEF TypeOK, AnswersSound
  <2> QED  BY <1>1, <1>2, <2>1, InvIs, ReturnKeeps DEF TypeOK
<1>4. TreeStands'
  <2>1. ToSet(<<root_page_id, call.sibling>>) = {root_page_id, call.sibling}
    BY DEF ToSet
  <2>2. \A q \in ToSet(Contents[root_page_id'].children) : Contents[q].parent = root_page_id'
    BY <1>1, <1>2, <2>1
  <2> QED  BY <1>1, <1>2, <1>3, <2>2, InvIs, RootMoves
<1> QED  BY <1>3, <1>4 DEF Inv, IndInv, Kept

-----------------------------------------------------------------------------
\* The first session opens a file that has a root.
LEMMA InitStep ==
  ASSUME Init, EmptyFile = FALSE
  PROVE  /\ PoolInv /\ P!Init
         /\ \A q \in PageIds : Contents[q] = IF q = 0 THEN Leaf(<< >>, 0, NoNext) ELSE ZeroBody
<1> DEFINE root == Leaf(<< >>, 0, NoNext)
<1>0. 0 \in PageIds /\ MaxPages \in Nat \ {0} /\ PageIds \subseteq Nat
  BY MaxPagesAssumption DEF PageIds
<1>1. root \in LeafBodies /\ root \in Bodies /\ root # ZeroBody
  <2>1. << >> \in Seq(EntryRecords) /\ NoNext \in PageIds
    BY PageZero
  <2>2. root \in LeafBodies
    BY <1>0, <2>1, MakeLeaf
  <2> QED  BY <2>2, ZeroBodyAssumption DEF Bodies
<1>2. /\ file_pages = 1 /\ PoolInit /\ DOMAIN held = {} /\ changed = {}
      /\ disk = [p \in PageIds |-> IF p < 1 THEN [page_id |-> p, body |-> root]
                                   ELSE ZeroPage]
  BY DEF Init, NoneHeld
<1>3. \A q \in PageIds : q < 1 <=> q = 0
  BY <1>0
<1> HIDE DEF root
<1>4. ASSUME NEW q \in PageIds
      PROVE  Contents[q] = IF q = 0 THEN root ELSE ZeroBody
  BY <1>2, <1>3 DEF PoolInit, NoTable, Contents, Current, Resident, ZeroPage
<1>5. Written = {0}
  BY <1>0, <1>1, <1>4 DEF Written
<1>6. P!Init
  <2>1. 0 .. file_pages - 1 = {0} /\ file_pages \in 0 .. MaxPages
    BY <1>0, <1>2
  <2>2. /\ [p \in PageIds |-> root] \in [PageIds -> Bodies]
        /\ disk = [p \in PageIds |-> IF p \in Written
                     THEN [page_id |-> p, body |-> [q \in PageIds |-> root][p]]
                     ELSE ZeroPage]
    BY <1>1, <1>2, <1>3, <1>5
  <2>3. \E b \in [PageIds -> Bodies] :
          disk = [p \in PageIds |-> IF p \in Written
                                    THEN [page_id |-> p, body |-> b[p]] ELSE ZeroPage]
    BY <2>2
  <2>4. /\ Holds = [p \in PageIds |-> 0] /\ Handle = [p \in PageIds |-> NoFrame]
    BY <1>2 DEF Holds, Handle
  <2> QED  BY <1>2, <1>5, <2>1, <2>3, <2>4, SameSets, SameInit DEF P!Init, Holds, Handle
<1>7. P!IndInv
  BY <1>6, P!InitInv, P!InitHonest, PoolAssumptions DEF P!IndInv
<1>8. P!WrittenOrBlank
  <2>1. \A q \in PageIds : ~ P!Resident(q)
    BY <1>2, SameResident DEF PoolInit, NoTable, Resident
  <2>2. P!Visible(0) = root
    BY <1>0, <1>2, <1>5, <2>1 DEF P!Visible
  <2> QED  BY <1>1, <1>5, <2>1, <2>2, SameSets DEF P!WrittenOrBlank
<1> QED  BY <1>4, <1>6, <1>7, <1>8 DEF PoolInv, P!StoreInv, root

LEMMA InitInv ==
  ASSUME Init, EmptyFile = FALSE
  PROVE  Inv
<1> DEFINE root == Leaf(<< >>, 0, NoNext)
<1>1. /\ pc = "open" /\ call = NoCall /\ held = NoneHeld /\ changed = {}
      /\ root_page_id = 0 /\ next_data_page_id = FirstDataPage /\ stored = {}
      /\ answer = NoAnswer /\ PoolInit
  BY DEF Init
<1>2. /\ PoolInv
      /\ \A q \in PageIds : Contents[q] = IF q = 0 THEN root ELSE ZeroBody
  BY InitStep
<1>3. root \in LeafBodies /\ root.entries = << >>
  <2>1. << >> \in Seq(EntryRecords)
    OBVIOUS
  <2> QED  BY <2>1, PageZero, MakeLeaf
<1> HIDE DEF root
<1>4. HoldsItsPages
  BY <1>1 DEF HoldsItsPages, HeldAt, ChangedAt, NoneHeld
<1>5. TypeOK
  <2>1. answer \in [key : Keys \cup {Nothing}, object : Keys \cup {Nothing}]
    BY <1>1 DEF NoAnswer
  <2>2. next_data_page_id \in Nat
    BY <1>1 DEF FirstDataPage
  <2>3. DOMAIN held = {}
    BY <1>1 DEF NoneHeld
  <2> QED  BY <1>1, <2>1, <2>2, <2>3, PageZero, NoCallIs DEF TypeOK
<1>6. FreeUnpinned
  BY <1>1 DEF PoolInit, AllUnused, FreeUnpinned
<1>7. LeafPages = {0}
  BY <1>2, <1>3, PageZero, ZeroParts DEF LeafPages
<1>8. TreeStands
  <2>1. \A p \in PageIds : Contents[p] \notin InternalBodies
    BY <1>2, <1>3, ZeroParts, LeafParts
  <2>2. \A p \in PageIds : Contents[p] \in Bodies \cup {ZeroBody}
    BY <1>2, <1>3 DEF Bodies
  <2>3. /\ Ascending(<< >>) /\ Len(<< >>) <= LeafMax
        /\ ToSet(<< >>) = {}
    BY LeafMaxAssumption DEF Ascending, ToSet
  <2>4. Contents[0].entries = << >>
    BY <1>2, <1>3, PageZero
  <2> QED  BY <1>1, <1>7, <2>1, <2>2, <2>3, <2>4 DEF TreeStands, GoodLeaf, NamesObjects
<1>9. KnowsItsCall
  BY <1>1 DEF KnowsItsCall, Inserting, Halving, Linking, Promoting, Rooting
<1>10. AnswersSound
  BY <1>1 DEF AnswersSound, NoAnswer
<1> QED  BY <1>2, <1>4, <1>5, <1>6, <1>8, <1>9, <1>10 DEF Inv, IndInv

LEMMA NextKeeps ==
  ASSUME Inv, Next
  PROVE  Inv' /\ PoolUse
<1>1. CASE Calls
  BY <1>1, InsertKeeps, LookupKeeps, CloseKeeps DEF Calls
<1>2. CASE Work
  <2>1. ~ CreateNew /\ ~ CreateFormat /\ ~ CreateDone
    BY NoCreation DEF CreateNew, CreateFormat, CreateDone, Step
  <2>2. CASE OpenFetch \/ OpenProbe \/ WalkFetch \/ WalkDown
    BY <2>2, OpenFetchKeeps, OpenProbeKeeps, WalkFetchKeeps, WalkDownKeeps
  <2>3. CASE StoreNew \/ StoreRecord \/ StoreThrows \/ StoreDone
    BY <2>3, StoreNewKeeps, StoreRecordKeeps, StoreThrowsKeeps, StoreDoneKeeps
  <2>4. CASE GetValueMisses \/ GetValueHits \/ RetrieveFetch \/ RetrieveCopy
    BY <2>4, GetValueMissesKeeps, GetValueHitsKeeps, RetrieveFetchKeeps, RetrieveCopyKeeps
  <2>5. CASE LeafTakes \/ LeafTakesDone
    BY <2>5, LeafTakesKeeps, LeafTakesDoneKeeps
  <2>6. CASE SplitNew \/ SplitInit \/ SplitCut \/ SplitFill \/ SplitLink
             \/ SplitUnpinSibling \/ SplitUnpinLeaf
    BY <2>6, SplitNewKeeps, SplitInitKeeps, SplitCutKeeps, SplitFillKeeps,
       SplitLinkKeeps, SplitUnpinSiblingKeeps, SplitUnpinLeafKeeps
  <2>7. CASE ParentFetchLeft \/ ParentReadLeft \/ ParentFetch \/ ParentInsert
             \/ ParentDone \/ ParentFull
    BY <2>7, ParentFetchLeftKeeps, ParentReadLeftKeeps, ParentFetchKeeps,
       ParentInsertKeeps, ParentDoneKeeps, ParentFullKeeps
  <2>8. CASE RootNew \/ RootWrite \/ RootUnpin \/ ChildFetch \/ ChildAdopt
             \/ LeftDone \/ RightDone
    BY <2>8, RootNewKeeps, RootWriteKeeps, RootUnpinKeeps, ChildFetchKeeps,
       ChildAdoptKeeps, LeftDoneKeeps, RightDoneKeeps
  <2> QED  BY <1>2, <2>1, <2>2, <2>3, <2>4, <2>5, <2>6, <2>7, <2>8 DEF Work
<1> QED  BY <1>1, <1>2 DEF Next

LEMMA StutterKeeps ==
  ASSUME Inv, UNCHANGED vars
  PROVE  Inv' /\ PoolUse /\ Contents' = Contents
<1>1. /\ UNCHANGED <<poolVars, held, changed>>
      /\ root_page_id' = root_page_id /\ next_data_page_id' = next_data_page_id
      /\ stored' = stored /\ pc' = pc /\ call' = call /\ answer' = answer
  BY DEF vars, dataVars
<1>2. /\ PoolInv' /\ UNCHANGED P!vars /\ Contents' = Contents
      /\ held' = held /\ changed' = changed
  BY <1>1, InvIs, StutterStep
<1>3. PoolUse
  BY <1>2 DEF PoolUse
<1>4. FreeUnpinned'
  BY <1>3, InvIs, FreeStays
<1>5. TreeStands' /\ LeafPages' = LeafPages /\ \A q : OnPath(q)' <=> OnPath(q)
  BY <1>1, <1>2, InvIs, SameTree
<1>6. TypeOK' /\ HoldsItsPages' /\ AnswersSound'
  BY <1>1, <1>2, InvIs DEF TypeOK, HoldsItsPages, HeldAt, ChangedAt, AnswersSound
<1>7. KnowsItsCall'
  BY <1>1, <1>2, <1>5, InvIs DEF KnowsItsCall, Inserting, Halving, Linking, Promoting,
     Rooting, NewEntry, GoodLeaf, NamesObjects
<1> QED  BY <1>2, <1>3, <1>4, <1>5, <1>6, <1>7 DEF Inv, IndInv

-----------------------------------------------------------------------------
(***************************************************************************)
(* Proper use: where descents end, and what the leaves they end at have.   *)
(***************************************************************************)
LEMMA LeavesAre ==
  ASSUME Inv, NEW p \in LeafPages
  PROVE  /\ p \in PageIds /\ Contents[p].entries \in Seq(EntryRecords)
         /\ Ascending(Contents[p].entries) /\ GoodLeaf(Contents[p].entries)
         /\ KeysAt(p) \subseteq Keys
<1>1. /\ p \in PageIds /\ Contents[p].entries \in Seq(EntryRecords)
      /\ GoodLeaf(Contents[p].entries)
  BY InvIs, LeafOf
<1>2. KeysAt(p) \subseteq Keys
  BY <1>1, EntryParts DEF KeysAt, KeysIn
<1> QED  BY <1>1, <1>2 DEF GoodLeaf

LEMMA ReachedIs ==
  ASSUME Inv
  PROVE  /\ Reached \subseteq LeafPages /\ \A k : LeafFor(k) \in Reached
         /\ root_page_id \in LeafPages \/ (Root \in InternalBodies /\ GoodInternal(Root))
<1>1. CASE root_page_id \in LeafPages
  BY <1>1 DEF Reached, LeafFor
<1>2. CASE root_page_id \notin LeafPages
  <2>1. Root \in InternalBodies /\ GoodInternal(Root)
    BY <1>2, InvIs DEF TreeStands, Root, GoodInternal
  <2>2. \A k : InternalLookup(Root, k) \in ToSet(Root.children)
    BY <2>1, LookupIsChild DEF GoodInternal
  <2> QED  BY <1>2, <2>1, <2>2 DEF Reached, LeafFor, GoodInternal
<1> QED  BY <1>1, <1>2

\* A root that sends descents where it sent them before.
SameRoot ==
  /\ root_page_id' = root_page_id
  /\ \/ Contents'[root_page_id] = Contents[root_page_id]
     \/ root_page_id \in LeafPages /\ Contents'[root_page_id] \in LeafBodies

LEMMA SameRootIs ==
  ASSUME Inv, SameRoot
  PROVE  /\ Reached' = Reached /\ \A k : LeafFor(k)' = LeafFor(k)
         /\ (root_page_id \in LeafPages)' <=> root_page_id \in LeafPages
         /\ root_page_id \notin LeafPages => Root' = Root
<1>1. root_page_id \in PageIds /\ root_page_id' = root_page_id
  BY InvIs DEF SameRoot
<1>2. (root_page_id \in LeafPages)' <=> root_page_id \in LeafPages
  BY <1>1 DEF SameRoot, LeafPages
<1>3. root_page_id \notin LeafPages => Root' = Root
  BY <1>1 DEF SameRoot, Root
<1> QED  BY <1>1, <1>2, <1>3 DEF Reached, LeafFor

LEMMA SortsKept ==
  ASSUME Inv, RootSorts, SameRoot,
         \A p \in Reached : Contents'[p].entries = Contents[p].entries
  PROVE  RootSorts'
<1>1. /\ Reached' = Reached /\ \A k : LeafFor(k)' = LeafFor(k)
      /\ (root_page_id \in LeafPages)' <=> root_page_id \in LeafPages
      /\ root_page_id \notin LeafPages => Root' = Root
  BY SameRootIs
<1>2. \A p \in Reached : KeysAt(p)' = KeysAt(p)
  BY DEF KeysAt
<1> QED  BY <1>1, <1>2 DEF RootSorts

\* Nothing changes in the leaves where descents end, or soon will.
LEMMA SameViewKeeps ==
  ASSUME Inv, KeysInPlace, SameRoot,
         \A p \in Reached : Contents'[p].entries = Contents[p].entries,
         Pending' <=> Pending,
         \A k \in Keys : k \in stored' \/ (Taken' /\ k = call'.key)
                           <=> k \in stored \/ (Taken /\ k = call.key),
         Pending => /\ Upper' = Upper /\ Lower' = Lower /\ call'.sibling = call.sibling
                    /\ pc' \notin Halving => call'.separator = Upper[1].key,
         KnowsItsKey'
  PROVE  KeysInPlace'
<1>1. Reached' = Reached /\ \A k : LeafFor(k)' = LeafFor(k)
  BY SameRootIs
<1>2. RootSorts'
  BY SortsKept DEF KeysInPlace
<1>3. \A p \in Reached : KeysAt(p)' = KeysAt(p)
  BY DEF KeysAt
<1>4. HoldsStored'
  BY <1>1, <1>3 DEF KeysInPlace, HoldsStored
<1>5. Separates'
  <2> SUFFICES ASSUME Pending
               PROVE  /\ call'.sibling \notin Reached /\ Upper' # << >>
                      /\ Lower' \in Reached /\ Contents'[Lower'].entries # << >>
                      /\ pc' \notin Halving => call'.separator = Upper'[1].key
                      /\ \A k \in KeysAt(Lower)' : k < Upper'[1].key
                      /\ \A k \in KeysIn(Upper)' :
                           Upper'[1].key <= k /\ LeafFor(k) = Lower'
    BY <1>1 DEF Separates, Halving
  <2>1. /\ call.sibling \notin Reached /\ Upper # << >>
        /\ Lower \in Reached /\ Contents[Lower].entries # << >>
        /\ \A k \in KeysAt(Lower) : k < Upper[1].key
        /\ \A k \in KeysIn(Upper) : Upper[1].key <= k /\ LeafFor(k) = Lower
    BY DEF KeysInPlace, Separates
  <2>2. /\ Lower' = Lower /\ Upper' = Upper /\ call'.sibling = call.sibling
        /\ Contents'[Lower'].entries = Contents[Lower].entries
    BY <2>1
  <2>3. KeysIn(Upper)' = KeysIn(Upper) /\ KeysAt(Lower)' = KeysAt(Lower)
    BY <2>2 DEF KeysAt
  <2> QED  BY <2>1, <2>2, <2>3
<1> QED  BY <1>2, <1>4, <1>5 DEF KeysInPlace

\* While no leaf is split.
LEMMA QuietKeeps ==
  ASSUME Inv, KeysInPlace, Contents' = Contents, root_page_id' = root_page_id,
         ~ Pending, ~ Pending',
         \A k \in Keys : k \in stored' \/ (Taken' /\ k = call'.key)
                           <=> k \in stored \/ (Taken /\ k = call.key),
         KnowsItsKey'
  PROVE  KeysInPlace'
BY SameViewKeeps DEF SameRoot

\* What the steps of a call leave alone.
LEMMA CallGoesOn ==
  ASSUME KeysInPlace, pc # "idle", stored' = stored, answer' = answer
  PROVE  /\ answer' = NoAnswer /\ AnswersRight'
         /\ call.op = "insert" => call.key \notin stored
BY DEF KeysInPlace, KnowsItsKey, AnswersRight

LEMMA UnmovedIs ==
  ASSUME Inv, Contents' = Contents, root_page_id' = root_page_id
  PROVE  SameRoot /\ Reached' = Reached /\ \A k : LeafFor(k)' = LeafFor(k)
<1>1. SameRoot
  BY DEF SameRoot
<1> QED  BY <1>1, SameRootIs

\* A step of a call on the way to a leaf, or behind it.
LEMMA StepKeeps ==
  ASSUME Inv, KeysInPlace, NEW from, NEW to, NEW c, Step(from, to, c), from # "idle",
         Contents' = Contents, c.key = call.key, ~ Pending, ~ Pending',
         ~ Taken, ~ Taken', KnowsItsKey'
  PROVE  KeysInPlace' /\ AnswersRight'
<1>1. /\ pc = from /\ call' = c /\ root_page_id' = root_page_id
      /\ stored' = stored /\ answer' = answer
  BY StepIs
<1>2. KeysInPlace'
  BY <1>1, QuietKeeps
<1> QED  BY <1>1, <1>2, CallGoesOn

\* A call returns.
LEMMA IdleKeeps ==
  ASSUME Inv, KeysInPlace, Contents' = Contents, root_page_id' = root_page_id,
         pc' = "idle", call' = NoCall, ~ Pending,
         \A k \in Keys : k \in stored' <=> k \in stored \/ (Taken /\ k = call.key)
  PROVE  KeysInPlace'
<1>1. ~ Pending' /\ ~ Taken'
  BY DEF Pending, Taken, Linking, Promoting, Rooting
<1>2. KnowsItsKey'
  BY NoCallIs DEF KnowsItsKey
<1> QED  BY <1>1, <1>2, QuietKeeps

\* The session begins.
LEMMA OpenFetchProper ==
  ASSUME Inv, KeysInPlace, OpenFetch
  PROVE  KeysInPlace' /\ AnswersRight'
<1>1. /\ Step("open", "probe", call) /\ pc = "open" /\ pc' = "probe" /\ call' = call
      /\ stored' = stored /\ answer' = answer
  BY StepIs DEF OpenFetch
<1>2. KnowsItsKey'
  BY <1>1, CallGoesOn DEF KnowsItsKey
<1> QED  BY <1>1, <1>2, OpenFetchKeeps, StepKeeps DEF Pending, Taken, Linking, Promoting,
            Rooting

LEMMA OpenProbeProper ==
  ASSUME Inv, KeysInPlace, OpenProbe
  PROVE  KeysInPlace' /\ AnswersRight'
<1> DEFINE to == IF ValidRoot THEN "idle" ELSE "create"
<1>1. Step("probe", to, call) /\ to \in {"idle", "create"}
  BY DEF OpenProbe
<1> HIDE DEF to
<1>2. /\ pc = "probe" /\ pc' = to /\ call' = call /\ stored' = stored /\ answer' = answer
  BY <1>1, StepIs
<1>3. KnowsItsKey'
  BY <1>1, <1>2, CallGoesOn DEF KnowsItsKey
<1>4. ~ Pending /\ ~ Pending' /\ ~ Taken /\ ~ Taken'
  BY <1>1, <1>2 DEF Pending, Taken, Linking, Promoting, Rooting
<1> QED  BY <1>1, <1>2, <1>3, <1>4, OpenProbeKeeps, StepKeeps

LEMMA CloseProper ==
  ASSUME Inv, KeysInPlace, CloseAndOpen, ~ MovedRootToo
  PROVE  KeysInPlace' /\ AnswersRight'
<1>1. /\ pc = "idle" /\ pc' = "open" /\ call' = NoCall /\ answer' = NoAnswer
      /\ root_page_id' = root_page_id /\ stored' = stored
  BY DEF CloseAndOpen, Goto
<1>2. KnowsItsKey'
  BY <1>1, NoCallIs DEF KnowsItsKey
<1>3. ~ Pending /\ ~ Pending' /\ ~ Taken /\ ~ Taken'
  BY <1>1 DEF Pending, Taken, Linking, Promoting, Rooting
<1> QED  BY <1>1, <1>2, <1>3, CloseKeeps, QuietKeeps DEF AnswersRight

\* The calls.
LEMMA InsertProper ==
  ASSUME Inv, KeysInPlace, NEW key \in Keys, NEW fits \in BOOLEAN, Insert(key, fits),
         ~ Duplicates
  PROVE  KeysInPlace' /\ AnswersRight'
<1>1. /\ pc = "idle" /\ pc' = "store" /\ call' = [NoCall EXCEPT !.op = "insert",
                                                 !.key = key, !.fits = fits]
      /\ answer' = NoAnswer /\ root_page_id' = root_page_id /\ stored' = stored
      /\ key \notin stored
  BY DEF Insert, Goto
<1>2. call'.key = key
  BY <1>1 DEF NoCall
<1>3. KnowsItsKey'
  BY <1>1, <1>2 DEF KnowsItsKey
<1>4. ~ Pending /\ ~ Pending' /\ ~ Taken /\ ~ Taken'
  BY <1>1 DEF Pending, Taken, Linking, Promoting, Rooting
<1> QED  BY <1>1, <1>3, <1>4, InsertKeeps, QuietKeeps DEF AnswersRight

LEMMA LookupProper ==
  ASSUME Inv, KeysInPlace, NEW key \in Keys, NEW op \in {"find", "exists"}, Lookup(op, key)
  PROVE  KeysInPlace' /\ AnswersRight'
<1>1. /\ pc = "idle" /\ pc' = "walk"
      /\ call' = [NoCall EXCEPT !.op = op, !.key = key, !.page = root_page_id]
      /\ answer' = NoAnswer /\ root_page_id' = root_page_id /\ stored' = stored
  BY DEF Lookup, Goto, dataVars
<1>2. call'.op # "insert" /\ call'.page = root_page_id'
  BY <1>1 DEF NoCall
<1>3. KnowsItsKey'
  BY <1>1, <1>2 DEF KnowsItsKey
<1>4. ~ Pending /\ ~ Pending' /\ ~ Taken /\ ~ Taken'
  BY <1>1 DEF Pending, Taken, Linking, Promoting, Rooting
<1> QED  BY <1>1, <1>3, <1>4, LookupKeeps, QuietKeeps DEF AnswersRight

LEMMA ThrowsProper ==
  ASSUME Inv, KeysInPlace, NEW from, Throws(from), Contents' = Contents,
         ~ Pending, ~ Taken
  PROVE  KeysInPlace' /\ AnswersRight'
<1>1. /\ pc' = "idle" /\ call' = NoCall /\ answer' = NoAnswer
      /\ root_page_id' = root_page_id /\ stored' = stored
  BY DEF Throws, Finish, Goto, dataVars
<1> QED  BY <1>1, IdleKeeps DEF AnswersRight

\* storeObject.
LEMMA StoreNewProper ==
  ASSUME Inv, KeysInPlace, StoreNew
  PROVE  KeysInPlace' /\ AnswersRight'
<1> DEFINE c == [call EXCEPT !.rid = next_page_id]
<1>1. Contents' = Contents /\ call \in Locals
  BY StoreNewKeeps, InvIs
<1>2. CASE CanClaim
  <2>1. /\ Step("store", "record", c) /\ pc = "store" /\ pc' = "record" /\ call' = c
        /\ stored' = stored /\ answer' = answer
    BY <1>2, StepIs DEF StoreNew
  <2>2. c.key = call.key /\ c.op = call.op
    BY <1>1 DEF Locals
  <2> HIDE DEF c
  <2>3. KnowsItsKey'
    BY <2>1, <2>2, CallGoesOn DEF KnowsItsKey
  <2>4. ~ Pending /\ ~ Pending' /\ ~ Taken /\ ~ Taken'
    BY <2>1 DEF Pending, Taken, Linking, Promoting, Rooting
  <2> QED  BY <1>1, <2>1, <2>2, <2>3, <2>4, StepKeeps
<1>3. CASE ~ CanClaim
  <2>1. Throws("store") /\ pc = "store"
    BY <1>3 DEF StoreNew, Throws, Finish
  <2>2. ~ Pending /\ ~ Taken
    BY <2>1 DEF Pending, Taken, Linking, Promoting, Rooting
  <2> QED  BY <1>1, <2>1, <2>2, ThrowsProper
<1> QED  BY <1>2, <1>3

LEMMA StoreThrowsProper ==
  ASSUME Inv, KeysInPlace, StoreThrows
  PROVE  KeysInPlace' /\ AnswersRight'
<1>1. /\ pc = "record" /\ pc' = "idle" /\ call' = NoCall /\ answer' = NoAnswer
      /\ root_page_id' = root_page_id /\ stored' = stored
  BY DEF StoreThrows, Finish, Goto, dataVars
<1>2. ~ Pending /\ ~ Taken
  BY <1>1 DEF Pending, Taken, Linking, Promoting, Rooting
<1> QED  BY <1>1, <1>2, StoreThrowsKeeps, IdleKeeps DEF AnswersRight

LEMMA StoreDoneProper ==
  ASSUME Inv, KeysInPlace, StoreDone
  PROVE  KeysInPlace' /\ AnswersRight'
<1> DEFINE c == [call EXCEPT !.page = root_page_id]
<1>1. /\ Step("recorded", "walk", c) /\ pc = "recorded" /\ pc' = "walk" /\ call' = c
      /\ root_page_id' = root_page_id /\ stored' = stored /\ answer' = answer
  BY StepIs DEF StoreDone
<1>2. c.page = root_page_id /\ c.key = call.key /\ c.op = call.op
  BY InvIs DEF Locals
<1> HIDE DEF c
<1>3. KnowsItsKey'
  BY <1>1, <1>2, CallGoesOn DEF KnowsItsKey
<1>4. ~ Pending /\ ~ Pending' /\ ~ Taken /\ ~ Taken'
  BY <1>1 DEF Pending, Taken, Linking, Promoting, Rooting
<1> QED  BY <1>1, <1>2, <1>3, <1>4, StoreDoneKeeps, StepKeeps

\* Descending.
LEMMA WalkFetchProper ==
  ASSUME Inv, KeysInPlace, WalkFetch
  PROVE  KeysInPlace' /\ AnswersRight'
<1>1. /\ Step("walk", "at", call) /\ pc = "walk" /\ pc' = "at" /\ call' = call
      /\ root_page_id' = root_page_id /\ stored' = stored /\ answer' = answer
  BY StepIs DEF WalkFetch
<1>2. Contents' = Contents
  BY WalkFetchKeeps
<1>3. KnowsItsKey'
  BY <1>1, <1>2, CallGoesOn, UnmovedIs DEF KeysInPlace, KnowsItsKey
<1>4. ~ Pending /\ ~ Pending' /\ ~ Taken /\ ~ Taken'
  BY <1>1 DEF Pending, Taken, Linking, Promoting, Rooting
<1> QED  BY <1>1, <1>2, <1>3, <1>4, StepKeeps

LEMMA WalkDownProper ==
  ASSUME Inv, KeysInPlace, WalkDown
  PROVE  KeysInPlace' /\ AnswersRight'
<1> DEFINE child == InternalLookup(Node(call.page), call.key)
           c     == [call EXCEPT !.page = child]
<1>1. /\ Step("at", "walk", c) /\ pc = "at" /\ pc' = "walk" /\ call' = c /\ ~ AtLeaf
      /\ root_page_id' = root_page_id /\ stored' = stored /\ answer' = answer
  BY StepIs DEF WalkDown
<1>2. child = LeafFor(call.key)
  BY <1>1, AtIs DEF LeafFor, Root
<1>3. Contents' = Contents /\ call \in Locals
  BY WalkDownKeeps, InvIs
<1> HIDE DEF child
<1>4. c.page = child /\ c.key = call.key /\ c.op = call.op
  BY <1>3 DEF Locals
<1> HIDE DEF c
<1>5. LeafFor(call.key)' = child
  BY <1>1, <1>2, <1>3, <1>4, UnmovedIs
<1>6. KnowsItsKey'
  BY <1>1, <1>4, <1>5, CallGoesOn DEF KnowsItsKey
<1>7. ~ Pending /\ ~ Pending' /\ ~ Taken /\ ~ Taken'
  BY <1>1 DEF Pending, Taken, Linking, Promoting, Rooting
<1> QED  BY <1>1, <1>3, <1>4, <1>6, <1>7, StepKeeps

\* The descent for a key ends at the leaf that has it, if one does.
LEMMA AtLeafIs ==
  ASSUME Inv, KeysInPlace, AtLeaf
  PROVE  /\ call.page = LeafFor(call.key) /\ call.page \in Reached
         /\ call.page \in LeafPages /\ call \in Locals /\ call.key \in Keys
         /\ Entries(call.page) = Contents[call.page].entries
         /\ call.key \in KeysAt(call.page) <=> call.key \in stored
         /\ HasKey <=> call.key \in KeysAt(call.page)
         /\ ~ Pending /\ ~ Taken
<1>1. /\ pc = "at" /\ call.page \in LeafPages /\ call \in Locals /\ call.key \in Keys
      /\ Entries(call.page) = Contents[call.page].entries
  BY AtIs DEF AtLeaf, Entries
<1>2. call.page = LeafFor(call.key) /\ call.page \in Reached
  <2>1. call.page \in {root_page_id, LeafFor(call.key)}
    BY <1>1 DEF KeysInPlace, KnowsItsKey
  <2> QED  BY <1>1, <2>1, ReachedIs DEF LeafFor
<1>3. ~ Pending /\ ~ Taken
  BY <1>1 DEF Pending, Taken, Linking, Promoting, Rooting
<1>4. call.key \in KeysAt(call.page) <=> call.key \in stored
  <2>1. (\E p \in Reached : call.key \in KeysAt(p)) <=> call.key \in stored
    BY <1>1, <1>3 DEF KeysInPlace, HoldsStored
  <2> QED  BY <1>2, <2>1 DEF KeysInPlace, RootSorts
<1>5. HasKey <=> call.key \in KeysAt(call.page)
  <2>1. /\ Contents[call.page].entries \in Seq(EntryRecords)
        /\ Ascending(Contents[call.page].entries)
    BY <1>1, LeavesAre
  <2> QED  BY <1>1, <2>1, LookupFinds, KeysAreInts DEF HasKey, KeysAt
<1> QED  BY <1>1, <1>2, <1>3, <1>4, <1>5

\* What find and exists answer.
LEMMA AnswersKey ==
  ASSUME NEW from, NEW object, Finish(from, Answer(object)),
         object = IF call.key \in stored THEN call.key ELSE Nothing
  PROVE  AnswersRight'
<1>1. answer' = Answer(object) /\ stored' = stored
  BY DEF Finish, dataVars
<1> QED  BY <1>1 DEF AnswersRight, Answer

LEMMA FinishProper ==
  ASSUME Inv, KeysInPlace, NEW from, NEW a, Finish(from, a), Contents' = Contents,
         ~ Pending, ~ Taken
  PROVE  KeysInPlace'
<1>1. /\ pc' = "idle" /\ call' = NoCall
      /\ root_page_id' = root_page_id /\ stored' = stored
  BY DEF Finish, Goto, dataVars
<1> QED  BY <1>1, IdleKeeps

LEMMA GetValueMissesProper ==
  ASSUME Inv, KeysInPlace, GetValueMisses
  PROVE  KeysInPlace' /\ AnswersRight'
<1>1. AtLeaf /\ ~ HasKey /\ Finish("at", Answer(Nothing)) /\ Contents' = Contents
  BY GetValueMissesKeeps DEF GetValueMisses
<1>2. call.key \notin stored /\ ~ Pending /\ ~ Taken
  BY <1>1, AtLeafIs
<1> QED  BY <1>1, <1>2, FinishProper, AnswersKey

LEMMA GetValueHitsProper ==
  ASSUME Inv, KeysInPlace, GetValueHits
  PROVE  KeysInPlace' /\ AnswersRight'
<1> DEFINE c == [call EXCEPT !.rid = Found]
<1>1. AtLeaf /\ HasKey /\ Contents' = Contents /\ call.op # "insert"
  BY GetValueHitsKeeps DEF GetValueHits
<1>2. call.key \in stored /\ ~ Pending /\ ~ Taken /\ call \in Locals
  BY <1>1, AtLeafIs
<1>3. CASE call.op = "exists"
  <2>1. Finish("at", Answer(call.key))
    BY <1>3 DEF GetValueHits
  <2> QED  BY <1>1, <1>2, <2>1, FinishProper, AnswersKey
<1>4. CASE call.op # "exists"
  <2>1. /\ Step("at", "retrieve", c) /\ pc = "at" /\ pc' = "retrieve" /\ call' = c
        /\ stored' = stored /\ answer' = answer
    BY <1>4, StepIs DEF GetValueHits
  <2>2. c.key = call.key /\ c.op = call.op
    BY <1>2 DEF Locals
  <2> HIDE DEF c
  <2>3. KnowsItsKey'
    BY <1>1, <1>2, <2>1, <2>2, CallGoesOn DEF KnowsItsKey
  <2>4. ~ Pending' /\ ~ Taken'
    BY <2>1 DEF Pending, Taken, Linking, Promoting, Rooting
  <2> QED  BY <1>1, <1>2, <2>1, <2>2, <2>3, <2>4, StepKeeps
<1> QED  BY <1>3, <1>4

LEMMA RetrieveFetchProper ==
  ASSUME Inv, KeysInPlace, RetrieveFetch
  PROVE  KeysInPlace' /\ AnswersRight'
<1>1. Contents' = Contents
  BY RetrieveFetchKeeps
<1>2. CASE Resident(call.rid) \/ CanClaim
  <2>1. /\ Step("retrieve", "copy", call) /\ pc = "retrieve" /\ pc' = "copy"
        /\ call' = call /\ stored' = stored /\ answer' = answer
    BY <1>2, StepIs DEF RetrieveFetch
  <2>2. KnowsItsKey'
    BY <2>1, CallGoesOn DEF KeysInPlace, KnowsItsKey
  <2>3. ~ Pending /\ ~ Pending' /\ ~ Taken /\ ~ Taken'
    BY <2>1 DEF Pending, Taken, Linking, Promoting, Rooting
  <2> QED  BY <1>1, <2>1, <2>2, <2>3, StepKeeps
<1>3. CASE ~ (Resident(call.rid) \/ CanClaim)
  <2>1. Throws("retrieve") /\ pc = "retrieve"
    BY <1>3 DEF RetrieveFetch, Throws, Finish
  <2>2. ~ Pending /\ ~ Taken
    BY <2>1 DEF Pending, Taken, Linking, Promoting, Rooting
  <2> QED  BY <1>1, <2>1, <2>2, ThrowsProper
<1> QED  BY <1>2, <1>3

LEMMA RetrieveCopyProper ==
  ASSUME Inv, KeysInPlace, RetrieveCopy
  PROVE  KeysInPlace' /\ AnswersRight'
<1>1. /\ Finish("copy", Answer(RecordOf(frames[held[call.rid]].body)))
      /\ pc = "copy" /\ Contents' = Contents
  BY RetrieveCopyKeeps DEF RetrieveCopy, Finish
<1>2. /\ call.key \in Keys /\ Contents[call.rid] = Record(call.key) /\ HeldAt = {call.rid}
      /\ call.key \in stored
  BY <1>1, InvIs DEF KnowsItsCall, HeldAt, KeysInPlace, KnowsItsKey
<1>3. RecordOf(frames[held[call.rid]].body) = call.key
  BY <1>2, HeldPage, RecordParts
<1>4. ~ Pending /\ ~ Taken
  BY <1>1 DEF Pending, Taken, Linking, Promoting, Rooting
<1> QED  BY <1>1, <1>2, <1>3, <1>4, FinishProper, AnswersKey

\* insert returns.
LEMMA InsertDoneProper ==
  ASSUME Inv, KeysInPlace, NEW from, InsertReturns(from), from # "idle",
         Contents' = Contents, ~ Pending, Taken
  PROVE  KeysInPlace' /\ AnswersRight'
<1>1. /\ pc = from /\ pc' = "idle" /\ call' = NoCall /\ answer' = answer
      /\ root_page_id' = root_page_id /\ stored' = stored \cup {call.key}
  BY DEF InsertReturns, Goto
<1>2. answer' = NoAnswer
  BY <1>1 DEF KeysInPlace, KnowsItsKey
<1> QED  BY <1>1, <1>2, IdleKeeps DEF AnswersRight

LEMMA LeafTakesDoneProper ==
  ASSUME Inv, KeysInPlace, LeafTakesDone
  PROVE  KeysInPlace' /\ AnswersRight'
<1>1. InsertReturns("inserted") /\ pc = "inserted" /\ Contents' = Contents
  BY LeafTakesDoneKeeps DEF LeafTakesDone, InsertReturns
<1>2. ~ Pending /\ Taken
  BY <1>1 DEF Pending, Taken, Linking, Promoting, Rooting
<1> QED  BY <1>1, <1>2, InsertDoneProper

LEMMA ParentDoneProper ==
  ASSUME Inv, KeysInPlace, ParentDone
  PROVE  KeysInPlace' /\ AnswersRight'
<1>1. InsertReturns("parentdone") /\ pc = "parentdone" /\ Contents' = Contents
  BY ParentDoneKeeps DEF ParentDone, InsertReturns
<1>2. ~ Pending /\ Taken
  BY <1>1 DEF Pending, Taken, Linking, Promoting, Rooting
<1> QED  BY <1>1, <1>2, InsertDoneProper

LEMMA SplitNewProper ==
  ASSUME Inv, KeysInPlace, SplitNew
  PROVE  KeysInPlace' /\ AnswersRight'
<1> DEFINE merged == Merged(Entries(call.page), NewEntry)
           c      == [call EXCEPT !.merged = merged, !.sibling = next_page_id]
<1>1. /\ Step("at", "init", c) /\ AtLeaf /\ pc = "at" /\ pc' = "init" /\ call' = c
      /\ root_page_id' = root_page_id /\ stored' = stored /\ answer' = answer
  BY StepIs DEF SplitNew, LeafRefuses
<1>2. Contents' = Contents /\ call \in Locals /\ call.page = LeafFor(call.key)
  BY <1>1, SplitNewKeeps, AtLeafIs
<1> HIDE DEF merged
<1>3. c.key = call.key /\ c.op = call.op /\ c.page = call.page
  BY <1>2 DEF Locals
<1> HIDE DEF c
<1>4. LeafFor(call.key)' = LeafFor(call.key)
  BY <1>1, <1>2, <1>3, UnmovedIs
<1>5. KnowsItsKey'
  BY <1>1, <1>2, <1>3, <1>4, CallGoesOn DEF KnowsItsKey
<1>6. ~ Pending /\ ~ Pending' /\ ~ Taken /\ ~ Taken'
  BY <1>1 DEF Pending, Taken, Linking, Promoting, Rooting
<1> QED  BY <1>1, <1>2, <1>3, <1>5, <1>6, StepKeeps

\* The steps from the split to the new root or the full parent; those with a
\* separator, and all.
Separated == Linking \cup Rooting \cup (Promoting \ {"parentdone"})
Splitting == {"fill", "link", "halved"} \cup Separated

LEMMA SplittingHas ==
  ASSUME pc \in Splitting
  PROVE  /\ Pending /\ Taken /\ pc # "idle"
         /\ pc # "fill" => Upper = Contents[call.sibling].entries
<1>1. Pending /\ Taken /\ pc # "idle"
  BY DEF Splitting, Separated, Pending, Taken, Linking, Promoting, Rooting
<1> QED  BY <1>1 DEF Upper

LEMMA SplittingHasNext ==
  ASSUME (pc \in Splitting)'
  PROVE  /\ Pending' /\ Taken'
         /\ pc' # "fill" => Upper' = Contents'[call'.sibling].entries
<1>1. Pending' /\ Taken'
  BY DEF Splitting, Separated, Pending, Taken, Linking, Promoting, Rooting
<1> QED  BY <1>1 DEF Upper

\* Steps that leave both halves as they are, wherever the upper one is.
LEMMA HalvesGoOn ==
  ASSUME Inv, KeysInPlace, NEW from, NEW to, NEW c, Step(from, to, c),
         from \in Splitting, to \in Splitting, SameRoot,
         \A p \in Reached : Contents'[p].entries = Contents[p].entries,
         Upper' = Upper, Lower' = Lower,
         c.op = call.op, c.key = call.key, c.sibling = call.sibling,
         to \in Halving \/ c.separator = Upper[1].key,
         to \in {"rootdone", "child", "adopt", "adopted"}
           => Contents'[c.up].keys = <<c.separator>>
  PROVE  KeysInPlace' /\ AnswersRight'
<1>1. /\ pc = from /\ pc' = to /\ call' = c /\ root_page_id' = root_page_id
      /\ stored' = stored /\ answer' = answer
  BY StepIs
<1>2. Pending /\ Taken /\ pc # "idle"
  BY <1>1, SplittingHas
<1>3. Pending' /\ Taken'
  BY <1>1, SplittingHasNext DEF Splitting, Separated, Linking, Promoting, Rooting
<1>4. /\ answer' = NoAnswer /\ AnswersRight'
      /\ call.op = "insert" => call.key \notin stored
  BY <1>1, <1>2, CallGoesOn
<1>5. KnowsItsKey'
  BY <1>1, <1>4 DEF KnowsItsKey, Splitting, Separated, Linking, Promoting, Rooting
<1>6. KeysInPlace'
  BY <1>1, <1>2, <1>3, <1>5, SameViewKeeps
<1> QED  BY <1>4, <1>6

\* Steps behind the split that change nothing in the leaves it is about.
LEMMA SplitGoesOn ==
  ASSUME Inv, KeysInPlace, NEW from, NEW to, NEW c, Step(from, to, c),
         from \in Separated \cup {"halved"}, to \in Separated, SameRoot,
         \A p \in Reached \cup {call.sibling} : Contents'[p].entries = Contents[p].entries,
         c.op = call.op, c.key = call.key, c.sibling = call.sibling, Lower' = Lower,
         c.separator = IF from = "halved" THEN Contents[call.sibling].entries[1].key
                       ELSE call.separator,
         to \in {"rootdone", "child", "adopt", "adopted"}
           => Contents'[c.up].keys = <<c.separator>>
  PROVE  KeysInPlace' /\ AnswersRight'
<1>1. pc = from /\ pc' = to /\ call' = c
  BY StepIs
<1>2. from \in Splitting \ {"fill"} /\ to \in Splitting \ {"fill"}
  BY DEF Splitting, Separated, Linking, Promoting, Rooting
<1>3. Pending /\ Upper = Contents[call.sibling].entries
  BY <1>1, <1>2, SplittingHas
<1>4. Upper' = Contents'[call'.sibling].entries
  BY <1>1, <1>2, SplittingHasNext DEF Splitting, Separated, Linking, Promoting, Rooting
<1>5. from # "halved" => from \notin Halving
  BY DEF Halving, Separated, Linking, Promoting, Rooting
<1>6. c.separator = Upper[1].key
  BY <1>1, <1>3, <1>5 DEF KeysInPlace, Separates
<1> QED  BY <1>1, <1>2, <1>3, <1>4, <1>6, HalvesGoOn

LEMMA SplitStepKeeps ==
  ASSUME Inv, KeysInPlace, NEW from, NEW to, NEW c, Step(from, to, c),
         from \in Separated \cup {"halved"}, to \in Separated, Contents' = Contents,
         c.op = call.op, c.key = call.key, c.sibling = call.sibling, Lower' = Lower,
         c.separator = IF from = "halved" THEN Contents[call.sibling].entries[1].key
                       ELSE call.separator,
         to \in {"rootdone", "child", "adopt", "adopted"}
           => Contents[c.up].keys = <<c.separator>>
  PROVE  KeysInPlace' /\ AnswersRight'
<1>1. SameRoot
  BY StepIs, UnmovedIs
<1> QED  BY <1>1, SplitGoesOn

LEMMA SplitUnpinSiblingProper ==
  ASSUME Inv, KeysInPlace, SplitUnpinSibling
  PROVE  KeysInPlace' /\ AnswersRight'
<1> DEFINE key == Contents[call.sibling].entries[1].key
           c   == [call EXCEPT !.separator = key]
<1>1. /\ Step("halved", "split", c) /\ pc = "halved" /\ pc' = "split" /\ call' = c
  BY SplitUnpinSiblingKeeps, StepIs
<1>2. Contents' = Contents /\ call \in Locals
  BY SplitUnpinSiblingKeeps, InvIs
<1> HIDE DEF key
<1>3. /\ c.op = call.op /\ c.key = call.key /\ c.sibling = call.sibling
      /\ c.page = call.page /\ c.separator = key
  BY <1>2 DEF Locals
<1> HIDE DEF c
<1>4. Lower' = Lower
  BY <1>1, <1>3 DEF Lower, Rooting
<1>5. "split" \in Separated
  BY DEF Separated, Linking
<1> QED  BY <1>1, <1>2, <1>3, <1>4, <1>5, SplitStepKeeps DEF key

LEMMA SplitUnpinLeafProper ==
  ASSUME Inv, KeysInPlace, SplitUnpinLeaf
  PROVE  KeysInPlace' /\ AnswersRight'
<1>1. /\ Step("split", "propagate", call) /\ pc = "split" /\ pc' = "propagate"
      /\ call' = call
  BY StepIs DEF SplitUnpinLeaf
<1>2. Lower' = Lower
  BY <1>1 DEF Lower, Rooting
<1>3. {"split", "propagate"} \subseteq Separated
  BY DEF Separated, Linking
<1> QED  BY <1>1, <1>2, <1>3, SplitUnpinLeafKeeps, SplitStepKeeps

LEMMA ParentFetchLeftProper ==
  ASSUME Inv, KeysInPlace, ParentFetchLeft
  PROVE  KeysInPlace' /\ AnswersRight'
<1>1. /\ Step("propagate", "left", call) /\ pc = "propagate" /\ pc' = "left"
      /\ call' = call
  BY StepIs DEF ParentFetchLeft
<1>2. Lower' = Lower
  BY <1>1 DEF Lower, Rooting
<1>3. {"propagate", "left"} \subseteq Separated
  BY DEF Separated, Linking
<1> QED  BY <1>1, <1>2, <1>3, ParentFetchLeftKeeps, SplitStepKeeps

LEMMA ParentReadLeftProper ==
  ASSUME Inv, KeysInPlace, ParentReadLeft
  PROVE  KeysInPlace' /\ AnswersRight'
<1> DEFINE to == IF call.page = root_page_id THEN "newroot" ELSE "parent"
           c  == [call EXCEPT !.up = Node(call.page).parent]
<1>1. /\ Step("left", to, c) /\ pc = "left" /\ pc' = to /\ call' = c
      /\ root_page_id' = root_page_id
  BY StepIs DEF ParentReadLeft
<1>2. Contents' = Contents /\ call \in Locals
  BY ParentReadLeftKeeps, InvIs
<1>3. /\ c.op = call.op /\ c.key = call.key /\ c.sibling = call.sibling
      /\ c.page = call.page /\ c.separator = call.separator
  BY <1>2 DEF Locals
<1> HIDE DEF c
<1>4. Lower' = Lower
  BY <1>1, <1>3 DEF Lower, Rooting
<1>5. "left" \in Separated /\ to \in Separated
  BY DEF Separated, Linking, Promoting, Rooting
<1>6. to \notin {"rootdone", "child", "adopt", "adopted"}
  OBVIOUS
<1> HIDE DEF to
<1> QED  BY <1>1, <1>2, <1>3, <1>4, <1>5, <1>6, SplitStepKeeps

LEMMA ParentFetchProper ==
  ASSUME Inv, KeysInPlace, ParentFetch
  PROVE  KeysInPlace' /\ AnswersRight'
<1>1. /\ Step("parent", "insertafter", call) /\ pc = "parent" /\ pc' = "insertafter"
      /\ call' = call
  BY StepIs DEF ParentFetch
<1>2. Lower' = Lower
  BY <1>1 DEF Lower, Rooting
<1>3. {"parent", "insertafter"} \subseteq Separated
  BY DEF Separated, Promoting
<1> QED  BY <1>1, <1>2, <1>3, ParentFetchKeeps, SplitStepKeeps

LEMMA RootNewProper ==
  ASSUME Inv, KeysInPlace, RootNew
  PROVE  KeysInPlace' /\ AnswersRight'
<1> DEFINE c == [call EXCEPT !.up = next_page_id]
<1>1. /\ Step("newroot", "rootwrite", c) /\ pc = "newroot" /\ pc' = "rootwrite"
      /\ call' = c /\ root_page_id' = root_page_id
  BY StepIs DEF RootNew
<1>2. Contents' = Contents /\ call \in Locals
  BY RootNewKeeps, InvIs
<1>3. /\ c.op = call.op /\ c.key = call.key /\ c.sibling = call.sibling
      /\ c.separator = call.separator
  BY <1>2 DEF Locals
<1> HIDE DEF c
<1>4. Lower' = Lower
  BY <1>1 DEF Lower, Rooting
<1>5. {"newroot", "rootwrite"} \subseteq Separated
  BY DEF Separated, Rooting
<1> QED  BY <1>1, <1>2, <1>3, <1>4, <1>5, SplitStepKeeps

LEMMA RootUnpinProper ==
  ASSUME Inv, KeysInPlace, RootUnpin
  PROVE  KeysInPlace' /\ AnswersRight'
<1>1. /\ Step("rootdone", "child", call) /\ pc = "rootdone" /\ pc' = "child"
      /\ call' = call /\ root_page_id' = root_page_id
  BY StepIs DEF RootUnpin
<1>2. Lower' = Lower
  BY <1>1 DEF Lower, Rooting
<1>3. {"rootdone", "child"} \subseteq Separated
  BY DEF Separated, Rooting
<1>4. Contents[call.up].keys = <<call.separator>>
  BY <1>1 DEF KeysInPlace, KnowsItsKey
<1> QED  BY <1>1, <1>2, <1>3, <1>4, RootUnpinKeeps, SplitStepKeeps

LEMMA ChildFetchProper ==
  ASSUME Inv, KeysInPlace, ChildFetch
  PROVE  KeysInPlace' /\ AnswersRight'
<1>1. /\ Step("child", "adopt", call) /\ pc = "child" /\ pc' = "adopt"
      /\ call' = call /\ root_page_id' = root_page_id
  BY StepIs DEF ChildFetch
<1>2. Lower' = Lower
  BY <1>1 DEF Lower, Rooting
<1>3. {"child", "adopt"} \subseteq Separated
  BY DEF Separated, Rooting
<1>4. Contents[call.up].keys = <<call.separator>>
  BY <1>1 DEF KeysInPlace, KnowsItsKey
<1> QED  BY <1>1, <1>2, <1>3, <1>4, ChildFetchKeeps, SplitStepKeeps

LEMMA LeftDoneProper ==
  ASSUME Inv, KeysInPlace, LeftDone
  PROVE  KeysInPlace' /\ AnswersRight'
<1> DEFINE c == [call EXCEPT !.page = call.sibling]
<1>1. /\ Step("adopted", "child", c) /\ pc = "adopted" /\ pc' = "child" /\ call' = c
      /\ root_page_id' = root_page_id
  BY StepIs DEF LeftDone
<1>2. Contents' = Contents /\ call \in Locals
  BY LeftDoneKeeps, InvIs
<1>3. /\ c.op = call.op /\ c.key = call.key /\ c.sibling = call.sibling
      /\ c.separator = call.separator /\ c.up = call.up
  BY <1>2 DEF Locals
<1> HIDE DEF c
<1>4. Lower' = Lower
  BY <1>1 DEF Lower, Rooting
<1>5. {"adopted", "child"} \subseteq Separated
  BY DEF Separated, Rooting
<1>6. Contents[call.up].keys = <<call.separator>>
  BY <1>1 DEF KeysInPlace, KnowsItsKey
<1> QED  BY <1>1, <1>2, <1>3, <1>4, <1>5, <1>6, SplitStepKeeps

LEMMA ContentsIs == DOMAIN Contents = PageIds
BY DEF Contents

LEMMA RootIsLeafNext ==
  ASSUME Inv', (pc \in Rooting)'
  PROVE  (root_page_id \in LeafPages)'
BY DEF Inv, IndInv, KnowsItsCall, Rooting

\* No descent comes to a blank page.
LEMMA BlankIsElsewhere ==
  ASSUME Inv, root_page_id' = root_page_id, NEW p, Contents[p] = ZeroBody,
         NEW body, Contents' = [Contents EXCEPT ![p] = body]
  PROVE  /\ SameRoot /\ p \notin Reached
         /\ \A q \in Reached \cup LeafPages : Contents'[q] = Contents[q]
<1>1. Contents[root_page_id] \in LeafBodies \/ Contents[root_page_id] \in InternalBodies
  BY ReachedIs DEF LeafPages, Root
<1>2. root_page_id # p
  BY <1>1, ZeroParts
<1>3. p \notin LeafPages
  BY ZeroParts DEF LeafPages
<1>4. \A q : q # p => Contents'[q] = Contents[q]
  OBVIOUS
<1> QED  BY <1>2, <1>3, <1>4, ReachedIs DEF SameRoot

\* Writing to a page that was blank, or where the leaf keeps its entries.
LEMMA StoreRecordProper ==
  ASSUME Inv, KeysInPlace, StoreRecord
  PROVE  KeysInPlace' /\ AnswersRight'
<1>1. /\ Step("record", "recorded", call) /\ pc = "record" /\ pc' = "recorded"
      /\ call' = call /\ root_page_id' = root_page_id /\ stored' = stored
      /\ answer' = answer
  BY StepIs DEF StoreRecord
<1>2. /\ Contents' = [Contents EXCEPT ![call.rid] = Record(call.key)]
      /\ Contents[call.rid] = ZeroBody
  BY <1>1, StoreRecordKeeps, InvIs DEF KnowsItsCall
<1>3. SameRoot /\ \A p \in Reached : Contents'[p] = Contents[p]
  BY <1>1, <1>2, BlankIsElsewhere
<1>4. ~ Pending /\ ~ Pending' /\ ~ Taken /\ ~ Taken'
  BY <1>1 DEF Pending, Taken, Linking, Promoting, Rooting
<1>5. KnowsItsKey' /\ AnswersRight'
  BY <1>1, CallGoesOn DEF KnowsItsKey
<1> QED  BY <1>1, <1>3, <1>4, <1>5, SameViewKeeps

LEMMA SplitInitProper ==
  ASSUME Inv, KeysInPlace, SplitInit
  PROVE  KeysInPlace' /\ AnswersRight'
<1>1. /\ Step("init", "cut", call) /\ pc = "init" /\ pc' = "cut"
      /\ call' = call /\ root_page_id' = root_page_id /\ stored' = stored
      /\ answer' = answer
  BY StepIs DEF SplitInit
<1>2. /\ SameRoot /\ call.sibling \notin Reached
      /\ \A p \in Reached : Contents'[p] = Contents[p]
  BY <1>1, SplitInitKeeps, BlankIsElsewhere
<1>3. /\ Reached' = Reached /\ \A k : LeafFor(k)' = LeafFor(k)
  BY <1>2, SameRootIs
<1>4. LeafFor(call.key)' = LeafFor(call.key)
  BY <1>1, <1>3
<1>5. ~ Pending /\ ~ Pending' /\ ~ Taken /\ ~ Taken'
  BY <1>1 DEF Pending, Taken, Linking, Promoting, Rooting
<1>6. KnowsItsKey' /\ AnswersRight'
  <2>1. /\ answer' = NoAnswer /\ AnswersRight'
        /\ call.op = "insert" => call.key \notin stored
    BY <1>1, CallGoesOn
  <2>2. call.page = LeafFor(call.key)
    BY <1>1 DEF KeysInPlace, KnowsItsKey
  <2> QED  BY <1>1, <1>2, <1>3, <1>4, <2>1, <2>2 DEF KnowsItsKey
<1> QED  BY <1>1, <1>2, <1>5, <1>6, SameViewKeeps

\* The upper half comes from the temporary arrays into the sibling.
LEMMA SplitFillProper ==
  ASSUME Inv, KeysInPlace, SplitFill
  PROVE  KeysInPlace' /\ AnswersRight'
<1>1. /\ Step("fill", "link", call) /\ pc = "fill" /\ pc' = "link"
      /\ call' = call /\ root_page_id' = root_page_id
  BY StepIs DEF SplitFill
<1>2. /\ call.sibling # root_page_id /\ \A q : q # call.sibling => Contents'[q] = Contents[q]
      /\ Contents'[call.sibling].entries = RightHalf(call.merged)
  BY SplitFillKeeps
<1>3. {"fill", "link"} \subseteq Splitting /\ "link" \in Halving
  BY DEF Splitting, Halving
<1>4. call.sibling \notin Reached
  BY <1>1, <1>3, SplittingHas DEF KeysInPlace, Separates
<1>5. SameRoot
  BY <1>1, <1>2 DEF SameRoot
<1>6. Upper' = Upper /\ Lower' = Lower
  BY <1>1, <1>2 DEF Upper, Lower, Rooting
<1> QED  BY <1>1, <1>2, <1>3, <1>4, <1>5, <1>6, HalvesGoOn

LEMMA RootWriteProper ==
  ASSUME Inv, KeysInPlace, RootWrite
  PROVE  KeysInPlace' /\ AnswersRight'
<1> DEFINE body == Internal(<<call.separator>>, <<root_page_id, call.sibling>>, 0)
<1>1. /\ Step("rootwrite", "rootdone", call) /\ pc = "rootwrite" /\ pc' = "rootdone"
      /\ call' = call /\ root_page_id' = root_page_id
  BY StepIs DEF RootWrite
<1>2. /\ Contents' = [Contents EXCEPT ![call.up] = body]
      /\ Contents[call.up] = ZeroBody /\ call.up \in PageIds
      /\ call.sibling \in LeafPages
  BY <1>1, RootWriteKeeps, InvIs, LocalsAre, RootingIs DEF KnowsItsCall, Rooting
<1>3. body.keys = <<call.separator>>
  BY DEF Internal
<1> HIDE DEF body
<1>4. /\ SameRoot /\ \A p \in Reached \cup {call.sibling} : Contents'[p] = Contents[p]
  BY <1>1, <1>2, BlankIsElsewhere
<1>5. Contents'[call.up].keys = <<call.separator>>
  BY <1>2, <1>3, ContentsIs
<1>6. Lower' = Lower
  BY <1>1 DEF Lower, Rooting
<1>7. {"rootwrite", "rootdone"} \subseteq Separated
  BY DEF Separated, Rooting
<1> QED  BY <1>1, <1>4, <1>5, <1>6, <1>7, SplitGoesOn

LEMMA ChildAdoptProper ==
  ASSUME Inv, KeysInPlace, ChildAdopt
  PROVE  KeysInPlace' /\ AnswersRight'
<1> DEFINE p    == call.page
           body == [Contents[p] EXCEPT !.parent = call.up]
<1>1. /\ Step("adopt", "adopted", call) /\ pc = "adopt" /\ pc' = "adopted"
      /\ call' = call /\ root_page_id' = root_page_id
  BY StepIs DEF ChildAdopt
<1>2. /\ Contents' = [Contents EXCEPT ![p] = body] /\ Inv'
      /\ p \in LeafPages /\ Contents[p] \in LeafBodies
      /\ root_page_id \in LeafPages /\ call.up \in PageIds
      /\ Contents[call.up] \in InternalBodies
      /\ Contents[call.up].keys = <<call.separator>>
  BY <1>1, ChildAdoptKeeps, InvIs, LeafOf, LocalsAre, RootingIs
     DEF KnowsItsCall, Rooting, KeysInPlace, KnowsItsKey
<1>3. body.entries = Contents[p].entries
  BY <1>2 DEF LeafBodies
<1> HIDE DEF body
<1>4. p \in PageIds
  BY <1>2 DEF LeafPages
<1>5. \A q : Contents'[q].entries = Contents[q].entries
  BY <1>2, <1>3, <1>4, ContentsIs
<1>6. SameRoot
  <2>1. (root_page_id \in LeafPages)'
    BY <1>1, <1>2, RootIsLeafNext DEF Rooting
  <2>2. Contents'[root_page_id] \in LeafBodies
    BY <1>1, <2>1 DEF LeafPages
  <2> QED  BY <1>1, <1>2, <2>2 DEF SameRoot
<1>7. Contents'[call.up].keys = <<call.separator>>
  <2>1. call.up # p
    BY <1>2, LeafParts, InternalParts
  <2> QED  BY <1>2, <2>1, ContentsIs
<1>8. Lower' = Lower
  BY <1>1 DEF Lower, Rooting
<1>9. {"adopt", "adopted"} \subseteq Separated
  BY DEF Separated, Rooting
<1> QED  BY <1>1, <1>5, <1>6, <1>7, <1>8, <1>9, SplitGoesOn

LEMMA FirstKey ==
  ASSUME NEW t \in Seq(EntryRecords), t # << >>
  PROVE  t[1].key \in KeysIn(t) /\ t[1].key \in Keys
<1>1. 1 \in 1 .. Len(t)
  BY EmptySeq, Elements
<1> QED  BY <1>1, KeysInIs, FirstEntry

LEMMA NoKeys == KeysIn(<< >>) = {}
BY DEF KeysIn, ToSet

\* A write to a leaf that a descent ends at.
LEMMA LeafRewritten ==
  ASSUME Inv, root_page_id' = root_page_id, NEW p \in Reached, NEW body,
         Contents' = [Contents EXCEPT ![p] = body], (p \in LeafPages)'
  PROVE  /\ SameRoot /\ Contents'[p] = body
         /\ \A q : q # p => Contents'[q] = Contents[q]
<1>1. p \in PageIds /\ p \in LeafPages
  BY ReachedIs DEF LeafPages
<1>2. Contents'[p] = body /\ \A q : q # p => Contents'[q] = Contents[q]
  BY <1>1, ContentsIs
<1>3. Contents'[p] \in LeafBodies
  BY DEF LeafPages
<1> QED  BY <1>1, <1>2, <1>3 DEF SameRoot

\* The keys of a leaf change, but not where descents end.
LEMMA SortsRewritten ==
  ASSUME Inv, RootSorts, SameRoot, NEW p \in Reached,
         \A q : q # p => Contents'[q] = Contents[q], Contents'[p].entries # << >>,
         \A k \in KeysAt(p)' : LeafFor(k) = p
  PROVE  RootSorts'
<1>1. /\ Reached' = Reached /\ \A k : LeafFor(k)' = LeafFor(k)
      /\ (root_page_id \in LeafPages)' <=> root_page_id \in LeafPages
      /\ root_page_id \notin LeafPages => Root' = Root
  BY SameRootIs
<1>2. \A q : q # p => KeysAt(q)' = KeysAt(q)
  BY DEF KeysAt
<1>3. \A q \in Reached : \A k \in KeysAt(q)' : LeafFor(k) = q
  BY <1>2 DEF RootSorts
<1>4. /\ root_page_id \notin LeafPages =>
          \A q \in Reached : Contents'[q].entries # << >>
  BY DEF RootSorts
<1> QED  BY <1>1, <1>3, <1>4 DEF RootSorts

LEMMA SplitLinkProper ==
  ASSUME Inv, KeysInPlace, SplitLink
  PROVE  KeysInPlace' /\ AnswersRight'
<1> DEFINE p    == call.page
           body == [Contents[p] EXCEPT !.next = call.sibling]
<1>1. /\ Step("link", "halved", call) /\ pc = "link" /\ pc' = "halved"
      /\ call' = call /\ root_page_id' = root_page_id
  BY StepIs DEF SplitLink
<1>2. /\ Contents' = [Contents EXCEPT ![p] = body] /\ (p \in LeafPages)'
      /\ Contents'[p].entries = Contents[p].entries
  BY <1>1, SplitLinkKeeps
<1> HIDE DEF body
<1>3. {"link", "halved"} \subseteq Splitting /\ "halved" \in Halving
  BY DEF Splitting, Halving
<1>4. p \in Reached
  <2>1. Pending /\ Lower = p
    BY <1>1, <1>3, SplittingHas DEF Lower, Rooting
  <2> QED  BY <2>1 DEF KeysInPlace, Separates
<1>5. SameRoot /\ \A q : q # p => Contents'[q] = Contents[q]
  BY <1>1, <1>2, <1>4, LeafRewritten
<1>6. \A q : Contents'[q].entries = Contents[q].entries
  BY <1>2, <1>5
<1>7. Upper' = Upper /\ Lower' = Lower
  BY <1>1, <1>6 DEF Upper, Lower, Rooting
<1> QED  BY <1>1, <1>3, <1>5, <1>6, <1>7, HalvesGoOn

LEMMA LeafTakesProper ==
  ASSUME Inv, KeysInPlace, LeafTakes
  PROVE  KeysInPlace' /\ AnswersRight'
<1> DEFINE p    == call.page
           t    == Contents[p].entries
           new  == LeafInsert(t, NewEntry)
           body == [Contents[p] EXCEPT !.entries = new]
<1>1. /\ Step("at", "inserted", call) /\ AtLeaf /\ call.op = "insert"
      /\ LeafAccepts(Entries(p), call.key)
      /\ pc = "at" /\ pc' = "inserted" /\ call' = call /\ root_page_id' = root_page_id
      /\ stored' = stored /\ answer' = answer
  BY StepIs DEF LeafTakes
<1>2. /\ p = LeafFor(call.key) /\ p \in Reached /\ p \in LeafPages /\ call.key \in Keys
      /\ call \in Locals /\ Entries(p) = t /\ ~ Pending /\ ~ Taken
  BY <1>1, AtLeafIs
<1>3. /\ t \in Seq(EntryRecords) /\ Ascending(t) /\ Contents[p] \in LeafBodies
      /\ call.rid \in PageIds
  BY <1>2, LeavesAre, LocalsAre DEF LeafPages
<1>4. KeysIn(new) = KeysIn(t) \cup {call.key} /\ new \in Seq(EntryRecords)
  <2>1. NewEntry \in EntryRecords /\ NewEntry.key = call.key
    BY <1>2, <1>3, MakeEntry DEF NewEntry
  <2>2. ToSet(new) = ToSet(t) \cup {NewEntry} /\ new \in Seq(EntryRecords)
    BY <1>1, <1>2, <1>3, <2>1, LeafInsertKeeps, KeysAreInts
  <2> QED  BY <2>1, <2>2 DEF KeysIn
<1>5. Contents' = [Contents EXCEPT ![p] = body] /\ (p \in LeafPages)'
  <2>1. Inv'
    BY LeafTakesKeeps
  <2>2. (call.page \in LeafPages)'
    BY <1>1, <2>1 DEF Inv, IndInv, KnowsItsCall
  <2> QED  BY <1>1, <2>2, LeafTakesKeeps
<1> HIDE DEF new
<1>6. body.entries = new
  BY <1>3 DEF LeafBodies
<1> HIDE DEF body
<1>7. /\ SameRoot /\ Contents'[p] = body /\ \A q : q # p => Contents'[q] = Contents[q]
  BY <1>1, <1>2, <1>5, LeafRewritten
<1>8. Reached' = Reached /\ \A k : LeafFor(k)' = LeafFor(k)
  BY <1>7, SameRootIs
<1>9. /\ KeysAt(p)' = KeysAt(p) \cup {call.key}
      /\ \A q : q # p => KeysAt(q)' = KeysAt(q)
  BY <1>1, <1>4, <1>6, <1>7 DEF KeysAt
<1>10. RootSorts'
  <2>1. new # << >>
    BY <1>4, NoKeys
  <2>2. \A k \in KeysAt(p)' : LeafFor(k) = p
    BY <1>2, <1>9 DEF KeysInPlace, RootSorts
  <2> QED  BY <1>1, <1>2, <1>6, <1>7, <2>1, <2>2, SortsRewritten DEF KeysInPlace
<1>11. ~ Pending' /\ Taken'
  BY <1>1 DEF Pending, Taken, Linking, Promoting, Rooting
<1>12. HoldsStored' /\ Separates'
  BY <1>1, <1>2, <1>8, <1>9, <1>11 DEF KeysInPlace, HoldsStored, Separates
<1>13. KnowsItsKey' /\ AnswersRight'
  BY <1>1, CallGoesOn DEF KnowsItsKey
<1> QED  BY <1>10, <1>12, <1>13 DEF KeysInPlace

LEMMA SplitCutProper ==
  ASSUME Inv, KeysInPlace, SplitCut
  PROVE  KeysInPlace' /\ AnswersRight'
<1> DEFINE p     == call.page
           t     == Contents[p].entries
           left  == LeftHalf(Merged(t, NewEntry))
           right == RightHalf(Merged(t, NewEntry))
           body  == [Contents[p] EXCEPT !.entries = left]
<1>1. /\ Step("cut", "fill", call) /\ pc = "cut" /\ pc' = "fill" /\ call' = call
      /\ root_page_id' = root_page_id /\ stored' = stored /\ answer' = answer
  BY StepIs DEF SplitCut
<1>2. /\ p = LeafFor(call.key) /\ p \in Reached /\ call.sibling \notin Reached
      /\ ~ Pending /\ ~ Taken
  BY <1>1, ReachedIs DEF KeysInPlace, KnowsItsKey, Pending, Taken, Linking, Promoting, Rooting
<1>3. /\ call.key \in Keys /\ call.op = "insert" /\ call.rid \in PageIds
      /\ t \in Seq(EntryRecords) /\ Ascending(t) /\ Len(t) <= LeafMax
      /\ ~ LeafAccepts(t, call.key) /\ call.key \in Int /\ Contents[p] \in LeafBodies
      /\ call.merged = Merged(t, NewEntry)
  BY <1>1, SplittingIs, HalvesWait, KeysAreInts DEF GoodLeaf, Halved
<1>4. call.key \notin KeysIn(t)
  <2>1. call.key \notin stored
    BY <1>3 DEF KeysInPlace, KnowsItsKey
  <2> QED  BY <1>2, <1>3, <2>1 DEF KeysInPlace, HoldsStored, KeysAt
<1>5. Len(t) \in 1 .. LeafMax
  <2>1. ~ (Len(t) < LeafMax)
    BY <1>3, <1>4, LookupFinds, KeysAreInts DEF LeafAccepts
  <2> QED  BY <1>3, <2>1, LeafMaxAssumption, Elements
<1>6. NewEntry \in EntryRecords /\ NewEntry.key = call.key
  BY <1>3, MakeEntry DEF NewEntry
<1>7. Halves(EntryRecords, t, NewEntry, left, right)
  BY <1>3, <1>5, <1>6, HalvesAre, KeysAreInts
<1>8. left = LeftHalf(call.merged) /\ right = RightHalf(call.merged)
  BY <1>3
<1> HIDE DEF left, right
<1>9. /\ left \in Seq(EntryRecords) /\ left # << >> /\ right \in Seq(EntryRecords)
      /\ right # << >>
      /\ KeysIn(left) \cup KeysIn(right) = KeysIn(t) \cup {call.key}
      /\ right[1].key \in KeysIn(right)
      /\ \A k \in KeysIn(right) : right[1].key <= k
      /\ \A k \in KeysIn(left) : k < right[1].key
  BY <1>4, <1>6, <1>7, LeafMaxAssumption DEF Halves
<1>10. Contents' = [Contents EXCEPT ![p] = body] /\ (p \in LeafPages)'
  <2>1. Inv' /\ Contents' = [Contents EXCEPT ![p] = body]
    BY <1>8, SplitCutKeeps
  <2>2. (call.page \in LeafPages)'
    BY <1>1, <2>1 DEF Inv, IndInv, KnowsItsCall, Halving
  <2> QED  BY <1>1, <2>1, <2>2
<1>11. body.entries = left
  BY <1>3 DEF LeafBodies
<1> HIDE DEF body
<1>12. /\ SameRoot /\ Contents'[p] = body /\ \A x : x # p => Contents'[x] = Contents[x]
  BY <1>1, <1>2, <1>10, LeafRewritten
<1>13. Reached' = Reached /\ \A k : LeafFor(k)' = LeafFor(k)
  BY <1>12, SameRootIs
<1>14. /\ KeysAt(p) = KeysIn(t) /\ KeysAt(p)' = KeysIn(left)
       /\ \A x : x # p => KeysAt(x)' = KeysAt(x)
  BY <1>1, <1>2, <1>11, <1>12 DEF KeysAt
<1>15. \A k \in KeysIn(left) \cup KeysIn(right) : LeafFor(k) = p
  BY <1>2, <1>9, <1>14 DEF KeysInPlace, RootSorts
<1>16. RootSorts'
  BY <1>1, <1>2, <1>9, <1>11, <1>12, <1>14, <1>15, SortsRewritten DEF KeysInPlace
<1>17. Pending' /\ Taken' /\ Lower' = p /\ Upper' = right
  BY <1>1, <1>8 DEF Pending, Taken, Lower, Upper, Linking, Promoting, Rooting
<1>18. HoldsStored'
  <2> SUFFICES ASSUME NEW k \in Keys
               PROVE  (\E x \in Reached : k \in KeysAt(x)') \/ k \in KeysIn(right)
                        <=> k \in stored \/ k = call.key
    BY <1>1, <1>13, <1>17 DEF HoldsStored
  <2>1. (\E x \in Reached : k \in KeysAt(x)) <=> k \in stored
    BY <1>2 DEF KeysInPlace, HoldsStored
  <2>2. k \in KeysAt(p) \/ k = call.key <=> k \in KeysAt(p)' \/ k \in KeysIn(right)
    BY <1>9, <1>14
  <2> QED  BY <1>1, <1>2, <1>14, <2>1, <2>2
<1>19. Separates'
  BY <1>1, <1>2, <1>9, <1>11, <1>12, <1>13, <1>14, <1>15, <1>17 DEF Separates, Halving
<1>20. KnowsItsKey' /\ AnswersRight'
  BY <1>1, CallGoesOn DEF KnowsItsKey
<1> QED  BY <1>16, <1>18, <1>19, <1>20 DEF KeysInPlace

\* What is known of the two halves until the upper one is linked in.
LEMMA HalvesAwait ==
  ASSUME Inv, KeysInPlace, pc \in Separated
  PROVE  /\ Pending /\ Taken /\ Upper = Contents[call.sibling].entries
         /\ call.sibling \notin Reached /\ Contents[call.sibling].entries # << >>
         /\ Lower \in Reached /\ Contents[Lower].entries # << >>
         /\ call.separator \in KeysAt(call.sibling) /\ call.separator \in Keys
         /\ \A k \in KeysAt(Lower) : k < call.separator
         /\ \A k \in KeysAt(call.sibling) : call.separator <= k /\ LeafFor(k) = Lower
<1>1. /\ Pending /\ Taken /\ Upper = Contents[call.sibling].entries
      /\ pc \notin Halving
  <2>1. pc \in Splitting \ {"fill"} /\ pc \notin Halving
    BY DEF Splitting, Separated, Halving, Linking, Promoting, Rooting
  <2> QED  BY <2>1, SplittingHas
<1>2. /\ call.sibling \notin Reached /\ Contents[call.sibling].entries # << >>
      /\ Lower \in Reached /\ Contents[Lower].entries # << >>
      /\ call.separator = Contents[call.sibling].entries[1].key
      /\ \A k \in KeysAt(Lower) : k < call.separator
      /\ \A k \in KeysAt(call.sibling) : call.separator <= k /\ LeafFor(k) = Lower
  BY <1>1 DEF KeysInPlace, Separates, KeysAt
<1>3. call.sibling \in LeafPages
  BY InvIs DEF KnowsItsCall, Separated, Inserting, Halving, Linking, Promoting, Rooting
<1>4. Contents[call.sibling].entries \in Seq(EntryRecords)
  BY <1>3, LeavesAre
<1>5. call.separator \in KeysAt(call.sibling) /\ call.separator \in Keys
  BY <1>2, <1>4, FirstKey DEF KeysAt
<1> QED  BY <1>1, <1>2, <1>5

\* What a separator and a new leaf, put into a root, do to the descents.
RootSends(root, m, q) ==
  LET new == InsertAfter(root, m, q)
  IN  /\ Increasing(new.keys) /\ IsInjective(new.children)
      /\ \A k \in Keys :
           InternalLookup(new, k) =
             IF InternalLookup(root, k) = InternalLookup(root, m) /\ m <= k
             THEN q ELSE InternalLookup(root, k)

LEMMA RootSendsAll ==
  ASSUME NEW root \in InternalBodies, Len(root.children) = Len(root.keys) + 1,
         Increasing(root.keys), IsInjective(root.children),
         NEW m \in Keys, NEW l \in Keys, l < m,
         InternalLookup(root, l) = InternalLookup(root, m),
         NEW q \in PageIds, q \notin ToSet(root.children)
  PROVE  RootSends(root, m, q)
<1>1. Keys \in SUBSET Nat
  BY KeysAssumption
<1>2. root \in InternalPageOf(Keys, PageIds, PageIds)
  BY DEF InternalBodies, InternalPageOf
<1>3. PICK new : new = InsertAfter(root, m, q)
  OBVIOUS
<1>4. Increasing(new.keys) /\ IsInjective(new.children)
  BY <1>1, <1>2, <1>3, SeparatorSends
<1>5. \A k \in Keys :
        InternalLookup(new, k) =
          IF InternalLookup(root, k) = InternalLookup(root, m) /\ m <= k
          THEN q ELSE InternalLookup(root, k)
  BY <1>1, <1>2, <1>3, SeparatorSends
<1> QED  BY <1>3, <1>4, <1>5 DEF RootSends

LEMMA ParentInsertProper ==
  ASSUME Inv, KeysInPlace, ParentInsert
  PROVE  KeysInPlace' /\ AnswersRight'
<1> DEFINE r   == root_page_id
           p   == call.page
           q   == call.sibling
           m   == call.separator
           new == InsertAfter(Root, m, q)
<1>1. /\ Step("insertafter", "parentdone", call)
      /\ pc = "insertafter" /\ pc' = "parentdone" /\ call' = call /\ root_page_id' = r
      /\ stored' = stored /\ answer' = answer
  BY StepIs DEF ParentInsert
<1>2. /\ Pending /\ Taken /\ Upper = Contents[q].entries
      /\ q \notin Reached /\ Contents[q].entries # << >>
      /\ p \in Reached /\ Contents[p].entries # << >>
      /\ m \in KeysAt(q) /\ m \in Keys /\ \A k \in KeysAt(p) : k < m
      /\ \A k \in KeysAt(q) : m <= k /\ LeafFor(k) = p
  <2>1. pc \in Separated /\ Lower = p
    BY <1>1 DEF Separated, Promoting, Lower, Rooting
  <2> QED  BY <2>1, HalvesAwait
<1>3. /\ r \notin LeafPages /\ r \in PageIds /\ Root \in InternalBodies
      /\ GoodInternal(Root) /\ q \in LeafPages /\ q \in PageIds
  BY <1>1, PromotingIs, InvIs DEF Promoting, LeafPages
<1>4. /\ Reached = ToSet(Root.children) /\ \A k : LeafFor(k) = InternalLookup(Root, k)
  BY <1>3 DEF Reached, LeafFor
<1>5. PICK l \in KeysAt(p) : l \in Keys /\ l < m /\ LeafFor(l) = p
  <2>1. Contents[p].entries \in Seq(EntryRecords)
    BY <1>2, ReachedIs, LeavesAre
  <2> QED  BY <1>2, <2>1, FirstKey DEF KeysAt, KeysInPlace, RootSorts
<1>6. /\ Increasing(new.keys) /\ IsInjective(new.children)
      /\ ToSet(new.children) = ToSet(Root.children) \cup {q}
      /\ \A k \in Keys :
           InternalLookup(new, k) =
             IF InternalLookup(Root, k) = InternalLookup(Root, m) /\ m <= k
             THEN q ELSE InternalLookup(Root, k)
  <2>1. Len(Root.children) = Len(Root.keys) + 1 /\ IsInjective(Root.children)
    BY <1>3 DEF GoodInternal, KeysInPlace, RootSorts
  <2>2. Increasing(Root.keys)
    <3>1. DOMAIN Root.keys = 1 .. Len(Root.keys)
      BY <1>3, InternalParts, Elements
    <3> QED  BY <1>3, <3>1 DEF KeysInPlace, RootSorts, Increasing
  <2>3. InternalLookup(Root, l) = InternalLookup(Root, m)
    BY <1>2, <1>4, <1>5
  <2>4. q \notin ToSet(Root.children)
    BY <1>2, <1>4
  <2>5. RootSends(Root, m, q)
    BY <1>2, <1>3, <1>5, <2>1, <2>2, <2>3, <2>4, RootSendsAll
  <2>6. ToSet(new.children) = ToSet(Root.children) \cup {q}
    BY <1>2, <1>3, ParentTakes
  <2> QED  BY <2>5, <2>6 DEF RootSends
<1>7. /\ Contents' = [Contents EXCEPT ![r] = new]
      /\ new \in InternalBodies
  <2>1. new \in InternalBodies
    BY <1>2, <1>3, ParentTakes
  <2> QED  BY <2>1, ParentInsertKeeps
<1> HIDE DEF new
<1>8. Contents'[r] = new /\ \A x : x # r => Contents'[x] = Contents[x]
  BY <1>3, <1>7, ContentsIs
<1>9. /\ (root_page_id \notin LeafPages)' /\ Root' = new
  BY <1>1, <1>7, <1>8, InternalParts DEF LeafPages, Root
<1>10. /\ Reached' = Reached \cup {q}
       /\ \A k \in Keys : LeafFor(k)' = IF LeafFor(k) = p /\ m <= k THEN q ELSE LeafFor(k)
  <2>1. Reached' = ToSet(new.children) /\ \A k : LeafFor(k)' = InternalLookup(new, k)
    BY <1>9 DEF Reached, LeafFor
  <2>2. InternalLookup(Root, m) = p
    BY <1>2, <1>4
  <2> QED  BY <1>4, <1>6, <2>1, <2>2
<1>11. \A x \in Reached \cup {q} : Contents'[x] = Contents[x] /\ KeysAt(x)' = KeysAt(x)
  <2>1. \A x \in Reached \cup {q} : x # r
    BY <1>3, ReachedIs
  <2> QED  BY <1>8, <2>1 DEF KeysAt
<1>12. RootSorts'
  <2>1. \A x \in Reached \cup {q} : \A k \in KeysAt(x) : LeafFor(k)' = x
    <3> SUFFICES ASSUME NEW x \in Reached \cup {q}, NEW k \in KeysAt(x)
                 PROVE  LeafFor(k)' = x
      OBVIOUS
    <3>1. k \in Keys /\ k \in Nat /\ m \in Nat
      BY <1>2, <1>3, ReachedIs, LeavesAre, KeysAssumption
    <3>2. CASE x = q
      BY <1>2, <1>10, <3>1, <3>2
    <3>3. CASE x # q
      <4>1. LeafFor(k) = x
        BY <3>3 DEF KeysInPlace, RootSorts
      <4>2. x = p => ~ (m <= k)
        BY <1>2, <3>1
      <4> QED  BY <1>10, <3>1, <4>1, <4>2
    <3> QED  BY <3>2, <3>3
  <2>2. \A x \in Reached \cup {q} : Contents[x].entries # << >>
    BY <1>2, <1>3 DEF KeysInPlace, RootSorts
  <2>3. \A i, j \in DOMAIN new.keys : i < j => new.keys[i] < new.keys[j]
    <3>1. DOMAIN new.keys = 1 .. Len(new.keys)
      BY <1>7, InternalParts, Elements
    <3> QED  BY <1>6, <3>1 DEF Increasing
  <2> QED  BY <1>6, <1>9, <1>10, <1>11, <2>1, <2>2, <2>3 DEF RootSorts
<1>13. ~ Pending' /\ Taken'
  BY <1>1 DEF Pending, Taken, Linking, Promoting, Rooting
<1>14. HoldsStored' /\ Separates'
  BY <1>1, <1>2, <1>10, <1>11, <1>13 DEF KeysInPlace, HoldsStored, Separates, KeysAt
<1>15. KnowsItsKey' /\ AnswersRight'
  BY <1>1, CallGoesOn DEF KnowsItsKey
<1> QED  BY <1>12, <1>14, <1>15 DEF KeysInPlace

\* The first root above two leaves.
LEMMA TwoChildren ==
  ASSUME NEW m \in Nat, NEW left, NEW right, NEW page, page.keys = <<m>>,
         page.children = <<left, right>>, NEW k \in Nat
  PROVE  InternalLookup(page, k) = IF k < m THEN left ELSE right
<1> DEFINE keys == page.keys
           i    == ChildPlace(keys, k)
<1>1. keys \in Seq(Nat) /\ Len(keys) = 1 /\ keys[1] = m
  OBVIOUS
<1>2. i = ChildPlace(keys, k)
  OBVIOUS
<1> HIDE DEF keys, i
<1>3. /\ i \in 1 .. Len(keys) + 1
      /\ \A j \in 1 .. i - 1 : j \in 1 .. Len(keys) /\ ~ (k < keys[j])
      /\ i \in 1 .. Len(keys) => k < keys[i]
  BY <1>1, <1>2, PlaceOfChild
<1>4. i \in {1, 2} /\ (i = 1 => k < m)
  BY <1>1, <1>3
<1>5. i = 2 => ~ (k < m)
  <2>1. i = 2 => 1 \in 1 .. i - 1
    OBVIOUS
  <2> QED  BY <1>1, <1>3, <2>1
<1>6. i = IF k < m THEN 1 ELSE 2
  BY <1>4, <1>5
<1>7. InternalLookup(page, k) = <<left, right>>[i]
  BY DEF InternalLookup, i, keys
<1> QED  BY <1>6, <1>7

LEMMA RightDoneProper ==
  ASSUME Inv, KeysInPlace, RightDone
  PROVE  KeysInPlace' /\ AnswersRight'
<1> DEFINE r == root_page_id
           q == call.sibling
           m == call.separator
           n == call.up
<1>1. /\ pc = "adopted" /\ pc' = "idle" /\ call' = NoCall
      /\ stored' = stored \cup {call.key} /\ root_page_id' = n /\ answer' = answer
  BY DEF RightDone, Goto
<1>2. /\ Pending /\ Taken /\ Upper = Contents[q].entries
      /\ q \notin Reached /\ Contents[q].entries # << >>
      /\ r \in Reached /\ Contents[r].entries # << >>
      /\ m \in KeysAt(q) /\ m \in Keys /\ \A k \in KeysAt(r) : k < m
      /\ \A k \in KeysAt(q) : m <= k
  <2>1. pc \in Separated /\ Lower = r
    BY <1>1 DEF Separated, Rooting, Lower
  <2> QED  BY <2>1, HalvesAwait
<1>3. /\ r \in LeafPages /\ q \in LeafPages /\ Contents[n] \in InternalBodies
      /\ Contents[n].children = <<r, q>> /\ Contents[n].keys = <<m>> /\ r # q
  BY <1>1, AdoptedIs, RootingIs DEF Rooting, KeysInPlace, KnowsItsKey
<1>4. Contents' = Contents
  BY RightDoneKeeps
<1>5. (root_page_id \notin LeafPages)' /\ Root' = Contents[n]
  BY <1>1, <1>3, <1>4, InternalParts DEF LeafPages, Root
<1>6. ToSet(<<r, q>>) = {r, q} /\ IsInjective(<<r, q>>)
  BY <1>3 DEF ToSet, IsInjective
<1>7. /\ Reached = {r} /\ Reached' = {r, q}
      /\ \A k \in Keys : LeafFor(k)' = IF k < m THEN r ELSE q
  <2>1. Reached = {r} /\ Reached' = {r, q}
    BY <1>3, <1>5, <1>6 DEF Reached
  <2>2. \A k : LeafFor(k)' = InternalLookup(Contents[n], k)
    BY <1>5 DEF LeafFor
  <2>3. \A k \in Keys : k \in Nat
    BY KeysAssumption
  <2>4. \A k \in Keys : InternalLookup(Contents[n], k) = IF k < m THEN r ELSE q
    BY <1>2, <1>3, <2>3, TwoChildren
  <2> QED  BY <2>1, <2>2, <2>4
<1>8. \A x : KeysAt(x)' = KeysAt(x)
  BY <1>4 DEF KeysAt
<1>9. RootSorts'
  <2>1. \A i, j \in DOMAIN <<m>> : i < j => <<m>>[i] < <<m>>[j]
    OBVIOUS
  <2>2. \A x \in {r, q} : \A k \in KeysAt(x) : LeafFor(k)' = x
    <3> SUFFICES ASSUME NEW x \in {r, q}, NEW k \in KeysAt(x)
                 PROVE  LeafFor(k)' = x
      OBVIOUS
    <3>1. k \in Keys /\ k \in Nat /\ m \in Nat
      BY <1>2, <1>3, LeavesAre, KeysAssumption
    <3>2. CASE x = r
      BY <1>2, <1>7, <3>1, <3>2
    <3>3. CASE x = q
      BY <1>2, <1>7, <3>1, <3>3
    <3> QED  BY <3>2, <3>3
  <2> QED  BY <1>2, <1>3, <1>4, <1>5, <1>6, <1>7, <1>8, <2>1, <2>2 DEF RootSorts
<1>10. ~ Pending' /\ ~ Taken'
  BY <1>1 DEF Pending, Taken, Linking, Promoting, Rooting
<1>11. HoldsStored' /\ Separates'
  BY <1>1, <1>2, <1>7, <1>8, <1>10 DEF KeysInPlace, HoldsStored, Separates, KeysAt
<1>12. KnowsItsKey' /\ AnswersRight'
  BY <1>1, NoCallIs DEF KnowsItsKey, KeysInPlace, AnswersRight
<1> QED  BY <1>9, <1>11, <1>12 DEF KeysInPlace

\* The first session.
LEMMA InitProper ==
  ASSUME Init, EmptyFile = FALSE
  PROVE  KeysInPlace /\ AnswersRight
<1>1. /\ pc = "open" /\ call = NoCall /\ root_page_id = 0 /\ stored = {}
      /\ answer = NoAnswer
  BY DEF Init
<1>2. Contents[0] = Leaf(<< >>, 0, NoNext) /\ 0 \in LeafPages
  BY <1>1, InitInv, InitStep, InvIs, PageZero DEF TreeStands
<1>3. Reached = {0} /\ KeysAt(0) = {}
  <2>1. Leaf(<< >>, 0, NoNext).entries = << >>
    BY DEF Leaf
  <2> QED  BY <1>1, <1>2, <2>1, NoKeys DEF Reached, KeysAt
<1>4. ~ Pending /\ ~ Taken
  BY <1>1 DEF Pending, Taken, Linking, Promoting, Rooting
<1>5. RootSorts
  BY <1>1, <1>2, <1>3 DEF RootSorts
<1>6. HoldsStored /\ Separates
  BY <1>1, <1>3, <1>4 DEF HoldsStored, Separates
<1>7. KnowsItsKey
  BY <1>1, NoCallIs DEF KnowsItsKey
<1> QED  BY <1>1, <1>5, <1>6, <1>7 DEF KeysInPlace, AnswersRight

LEMMA StutterProper ==
  ASSUME Inv, KeysInPlace, AnswersRight, UNCHANGED vars
  PROVE  KeysInPlace' /\ AnswersRight'
<1>1. /\ root_page_id' = root_page_id /\ stored' = stored /\ pc' = pc /\ call' = call
      /\ answer' = answer
  BY DEF vars, dataVars
<1>2. Contents' = Contents
  BY StutterKeeps
<1>3. /\ SameRoot /\ Reached' = Reached /\ \A k : LeafFor(k)' = LeafFor(k)
  BY <1>1, <1>2, UnmovedIs
<1>4. /\ Pending' <=> Pending
      /\ Taken' <=> Taken
      /\ Lower' = Lower /\ Upper' = Upper
  BY <1>1, <1>2 DEF Pending, Lower, Upper, Taken
<1>5. LeafFor(call.key)' = LeafFor(call.key)
  BY <1>1, <1>3
<1>6. KnowsItsKey'
  BY <1>1, <1>2, <1>3, <1>4, <1>5 DEF KeysInPlace, KnowsItsKey
<1>7. Pending => (pc' \notin Halving => call'.separator = Upper[1].key)
  BY <1>1 DEF KeysInPlace, Separates
<1>8. KeysInPlace'
  BY <1>1, <1>2, <1>3, <1>4, <1>6, <1>7, SameViewKeeps
<1> QED  BY <1>1, <1>8 DEF AnswersRight

LEMMA NextProper ==
  ASSUME Inv, KeysInPlace, AnswersRight, Next, ~ ParentFull, ~ Duplicates, ~ MovedRootToo
  PROVE  KeysInPlace' /\ AnswersRight'
<1>1. CASE Calls
  BY <1>1, InsertProper, LookupProper, CloseProper DEF Calls
<1>2. CASE Work
  <2>1. ~ CreateNew /\ ~ CreateFormat /\ ~ CreateDone
    BY NoCreation DEF CreateNew, CreateFormat, CreateDone, Step
  <2>2. CASE OpenFetch \/ OpenProbe \/ WalkFetch \/ WalkDown
    BY <2>2, OpenFetchProper, OpenProbeProper, WalkFetchProper, WalkDownProper
  <2>3. CASE StoreNew \/ StoreRecord \/ StoreThrows \/ StoreDone
    BY <2>3, StoreNewProper, StoreRecordProper, StoreThrowsProper, StoreDoneProper
  <2>4. CASE GetValueMisses \/ GetValueHits \/ RetrieveFetch \/ RetrieveCopy
    BY <2>4, GetValueMissesProper, GetValueHitsProper, RetrieveFetchProper,
       RetrieveCopyProper
  <2>5. CASE LeafTakes \/ LeafTakesDone
    BY <2>5, LeafTakesProper, LeafTakesDoneProper
  <2>6. CASE SplitNew \/ SplitInit \/ SplitCut \/ SplitFill \/ SplitLink
             \/ SplitUnpinSibling \/ SplitUnpinLeaf
    BY <2>6, SplitNewProper, SplitInitProper, SplitCutProper, SplitFillProper,
       SplitLinkProper, SplitUnpinSiblingProper, SplitUnpinLeafProper
  <2>7. CASE ParentFetchLeft \/ ParentReadLeft \/ ParentFetch \/ ParentInsert \/ ParentDone
    BY <2>7, ParentFetchLeftProper, ParentReadLeftProper, ParentFetchProper,
       ParentInsertProper, ParentDoneProper
  <2>8. CASE RootNew \/ RootWrite \/ RootUnpin \/ ChildFetch \/ ChildAdopt
             \/ LeftDone \/ RightDone
    BY <2>8, RootNewProper, RootWriteProper, RootUnpinProper, ChildFetchProper,
       ChildAdoptProper, LeftDoneProper, RightDoneProper
  <2> QED  BY <1>2, <2>1, <2>2, <2>3, <2>4, <2>5, <2>6, <2>7, <2>8 DEF Work
<1> QED  BY <1>1, <1>2 DEF Next

\* A file of so few pages has no room for a full root: next to the root there
\* are InternalMax + 1 leaves, the new one, and one record at least for each.
LEMMA ParentHasRoom ==
  ASSUME Inv, KeysInPlace, pc = "insertafter", MaxPages <= 2 * InternalMax + 4
  PROVE  TakesKey(Node(call.up))
<1> DEFINE c == Root.children
           q == call.sibling
           N == InternalMax + 2
<1>1. /\ Root \in InternalBodies /\ GoodInternal(Root) /\ call.up = root_page_id
      /\ root_page_id \notin LeafPages /\ root_page_id \in PageIds /\ q \in LeafPages
      /\ HeldAt = {root_page_id}
  BY PromotingIs, InvIs DEF Promoting, HeldAt
<1>2. Node(call.up) = Root
  BY <1>1, HeldPage, InternalParts, InvIs DEF Root
<1>3. /\ c \in Seq(PageIds) /\ Len(c) = Len(Root.keys) + 1 /\ Len(Root.keys) \in Nat
      /\ DOMAIN c = 1 .. Len(c) /\ Root.keys # << >>
      /\ Reached = ToSet(c) /\ ToSet(c) = {c[n] : n \in 1 .. Len(c)}
  BY <1>1, InternalParts, Elements DEF GoodInternal, Reached
<1> SUFFICES ASSUME Len(Root.keys) >= InternalMax PROVE FALSE
  BY <1>2, <1>3, InternalMaxAssumption DEF TakesKey, HasRoom
<1>4. N \in Nat /\ N - 1 <= Len(c) /\ N >= 3
  BY <1>3, InternalMaxAssumption
<1> DEFINE leaf == [n \in 1 .. N |-> IF n < N THEN c[n] ELSE q]
           first(n) == Contents[leaf[n]].entries[1]
           page == [n \in 1 .. 2 * N + 1 |->
                      IF n <= N THEN leaf[n]
                      ELSE IF n <= 2 * N THEN first(n - N).value ELSE root_page_id]
<1>5. /\ q \notin Reached /\ Contents[q].entries # << >>
      /\ \A k \in KeysAt(Lower) : k < call.separator
      /\ \A k \in KeysAt(q) : call.separator <= k /\ LeafFor(k) = Lower
      /\ call.separator \in Keys
  BY HalvesAwait DEF Separated, Promoting
<1>6. /\ \A n \in 1 .. N : leaf[n] \in LeafPages /\ Contents[leaf[n]].entries # << >>
      /\ \A n \in 1 .. N : leaf[n] \in Reached <=> n < N
      /\ \A n, o \in 1 .. N : leaf[n] = leaf[o] => n = o
  <2>1. \A n \in 1 .. N : n < N => c[n] \in Reached /\ c[n] # q /\ n \in DOMAIN c
    BY <1>3, <1>4, <1>5
  <2>2. \A p \in Reached : p \in LeafPages /\ Contents[p].entries # << >>
    BY <1>1, ReachedIs DEF KeysInPlace, RootSorts
  <2>3. \A n, o \in DOMAIN c : c[n] = c[o] => n = o
    BY <1>1 DEF KeysInPlace, RootSorts, IsInjective
  <2>4. \A n \in 1 .. N : leaf[n] = IF n < N THEN c[n] ELSE q
    OBVIOUS
  <2> HIDE DEF leaf
  <2>5. \A n \in 1 .. N : n < N \/ n = N
    BY <1>4
  <2>6. \A n \in 1 .. N : leaf[n] \in LeafPages /\ Contents[leaf[n]].entries # << >>
    BY <1>1, <1>5, <2>1, <2>2, <2>4, <2>5
  <2>7. \A n \in 1 .. N : leaf[n] \in Reached <=> n < N
    BY <1>5, <2>1, <2>4, <2>5
  <2>8. \A n, o \in 1 .. N : leaf[n] = leaf[o] => n = o
    BY <2>1, <2>3, <2>4, <2>5, <2>7
  <2> QED  BY <2>6, <2>7, <2>8
<1> HIDE DEF leaf
<1>7. \A n \in 1 .. N :
        /\ first(n).key \in KeysAt(leaf[n]) /\ first(n).key \in Keys
        /\ first(n).value \in PageIds /\ Contents[first(n).value] = Record(first(n).key)
  <2> SUFFICES ASSUME NEW n \in 1 .. N
               PROVE  /\ first(n).key \in KeysAt(leaf[n]) /\ first(n).key \in Keys
                      /\ first(n).value \in PageIds
                      /\ Contents[first(n).value] = Record(first(n).key)
    OBVIOUS
  <2>1. /\ Contents[leaf[n]].entries \in Seq(EntryRecords)
        /\ GoodLeaf(Contents[leaf[n]].entries) /\ Contents[leaf[n]].entries # << >>
    BY <1>6, LeavesAre
  <2>2. first(n).key \in KeysAt(leaf[n]) /\ first(n).key \in Keys
    BY <2>1, FirstKey DEF KeysAt
  <2>3. first(n) \in ToSet(Contents[leaf[n]].entries) /\ first(n) \in EntryRecords
    BY <2>1, EmptySeq, Elements, ElementOfSeq
  <2>4. Contents[first(n).value] = Record(first(n).key)
    BY <2>1, <2>3 DEF GoodLeaf, NamesObjects
  <2> QED  BY <2>2, <2>3, <2>4 DEF EntryRecords
<1>8. \A n, o \in 1 .. N : first(n).key = first(o).key => n = o
  <2> SUFFICES ASSUME NEW n \in 1 .. N, NEW o \in 1 .. N,
                      first(n).key = first(o).key, n # o
               PROVE  FALSE
    OBVIOUS
  <2> DEFINE k == first(n).key
  <2>1. k \in KeysAt(leaf[n]) /\ k \in KeysAt(leaf[o]) /\ k \in Keys
    BY <1>7
  <2> HIDE DEF k
  <2>2. leaf[n] # leaf[o]
    BY <1>6
  <2>3. \A p \in Reached : k \in KeysAt(p) => k \notin KeysAt(q)
    <3> SUFFICES ASSUME NEW p \in Reached, k \in KeysAt(p), k \in KeysAt(q)
                 PROVE  FALSE
      OBVIOUS
    <3>1. p = Lower
      BY <1>5 DEF KeysInPlace, RootSorts
    <3>2. k < call.separator /\ call.separator <= k
      BY <1>5, <3>1
    <3>3. k \in Nat /\ call.separator \in Nat
      BY <1>5, <2>1, KeysAssumption
    <3> QED  BY <3>2, <3>3
  <2>4. CASE n < N /\ o < N
    BY <1>6, <2>1, <2>2, <2>4 DEF KeysInPlace, RootSorts
  <2>5. CASE n = N \/ o = N
    <3>1. leaf[N] = q
      BY <1>4 DEF leaf
    <3> QED  BY <1>4, <1>6, <2>1, <2>2, <2>3, <2>5, <3>1
  <2> QED  BY <1>4, <2>4, <2>5
<1> HIDE DEF first
<1>9. /\ page \in [1 .. 2 * N + 1 -> PageIds]
      /\ \A n \in 1 .. N : page[n] = leaf[n]
      /\ \A n \in 1 .. N : page[n + N] = first(n).value
      /\ page[2 * N + 1] = root_page_id
  <2>1. \A n \in 1 .. N : leaf[n] \in PageIds
    BY <1>6 DEF LeafPages
  <2>2. \A n \in 1 .. 2 * N + 1 : /\ n > N /\ n <= 2 * N => n - N \in 1 .. N
                                  /\ n <= N => n \in 1 .. N
    BY <1>4
  <2> DEFINE at(n) == IF n <= N THEN leaf[n]
                      ELSE IF n <= 2 * N THEN first(n - N).value ELSE root_page_id
  <2>3. \A n \in 1 .. 2 * N + 1 : at(n) \in PageIds
    <3> SUFFICES ASSUME NEW n \in 1 .. 2 * N + 1 PROVE at(n) \in PageIds
      OBVIOUS
    <3>1. CASE n <= N
      BY <2>1, <2>2, <3>1
    <3>2. CASE ~ (n <= N) /\ n <= 2 * N
      <4>1. n - N \in 1 .. N
        BY <1>4, <3>2
      <4> QED  BY <1>7, <3>2, <4>1
    <3>3. CASE ~ (n <= N) /\ ~ (n <= 2 * N)
      BY <1>1, <3>3
    <3> QED  BY <3>1, <3>2, <3>3
  <2>4. \A n \in 1 .. N : /\ n + N \in 1 .. 2 * N + 1 /\ n \in 1 .. 2 * N + 1
                          /\ ~ (n + N <= N) /\ n + N <= 2 * N /\ (n + N) - N = n /\ n <= N
    BY <1>4
  <2>5. /\ 2 * N + 1 \in 1 .. 2 * N + 1 /\ ~ (2 * N + 1 <= N) /\ ~ (2 * N + 1 <= 2 * N)
    BY <1>4
  <2>6. page = [n \in 1 .. 2 * N + 1 |-> at(n)]
    OBVIOUS
  <2>7. \A n \in 1 .. N : at(n) = leaf[n] /\ at(n + N) = first(n).value
    <3> SUFFICES ASSUME NEW n \in 1 .. N
                 PROVE  at(n) = leaf[n] /\ at(n + N) = first(n).value
      OBVIOUS
    <3>1. ~ (n + N <= N) /\ n + N <= 2 * N /\ (n + N) - N = n /\ n <= N
      BY <2>4
    <3>2. at(n + N) = first((n + N) - N).value
      BY <3>1
    <3>3. first((n + N) - N) = first(n)
      BY ONLY <3>1, Zenon
    <3> QED  BY <3>1, <3>2, <3>3
  <2>8. at(2 * N + 1) = root_page_id
    BY <2>5
  <2> HIDE DEF at, page
  <2>9. page \in [1 .. 2 * N + 1 -> PageIds] /\ \A n \in 1 .. 2 * N + 1 : page[n] = at(n)
    BY <2>3, <2>6
  <2>10. \A n \in 1 .. N : page[n] = at(n) /\ page[n + N] = at(n + N)
    BY <2>4, <2>9
  <2>11. page[2 * N + 1] = at(2 * N + 1)
    BY <2>5, <2>9
  <2> QED  BY <2>7, <2>8, <2>9, <2>10, <2>11
<1> HIDE DEF page
<1>10. \A n \in 1 .. 2 * N + 1 :
         n \in 1 .. N \/ (n - N \in 1 .. N /\ n = n - N + N) \/ n = 2 * N + 1
  BY <1>4
<1> DEFINE kind(p) == IF p \in LeafPages THEN 1 ELSE IF p = root_page_id THEN 3 ELSE 2
<1>11. /\ \A n \in 1 .. N : kind(page[n]) = 1
       /\ \A n \in 1 .. N : kind(page[n + N]) = 2
       /\ kind(page[2 * N + 1]) = 3
  <2>1. \A n \in 1 .. N : first(n).value \notin LeafPages /\ first(n).value # root_page_id
    BY <1>1, <1>7, RecordParts DEF LeafPages, Root
  <2> QED  BY <1>1, <1>6, <1>9, <2>1
<1>12. \A n, o \in 1 .. 2 * N + 1 : page[n] = page[o] => n = o
  <2> SUFFICES ASSUME NEW n \in 1 .. 2 * N + 1, NEW o \in 1 .. 2 * N + 1,
                      page[n] = page[o]
               PROVE  n = o
    OBVIOUS
  <2>1. kind(page[n]) = kind(page[o])
    OBVIOUS
  <2> HIDE DEF kind
  <2>2. CASE n \in 1 .. N
    <3>1. o \in 1 .. N
      BY <1>10, <1>11, <2>1, <2>2
    <3> QED  BY <1>6, <1>9, <2>2, <3>1
  <2>3. CASE n - N \in 1 .. N /\ n = n - N + N
    <3>1. o - N \in 1 .. N /\ o = o - N + N
      BY <1>10, <1>11, <2>1, <2>3
    <3>2. first(n - N).value = first(o - N).value
      BY <1>9, <2>3, <3>1
    <3>3. first(n - N).key = first(o - N).key
      <4>1. Record(first(n - N).key) = Record(first(o - N).key)
        BY <1>7, <2>3, <3>1, <3>2
      <4>2. \A k : Record(k).record = k
        BY DEF Record
      <4> QED  BY <4>1, <4>2, Zenon
    <3>4. n - N = o - N
      BY <1>8, <2>3, <3>1, <3>3
    <3> QED  BY <1>4, <3>4
  <2>4. CASE n = 2 * N + 1
    BY <1>10, <1>11, <2>1, <2>4
  <2> QED  BY <1>10, <2>2, <2>3, <2>4
<1>13. /\ IsFiniteSet(1 .. 2 * N + 1) /\ Cardinality(1 .. 2 * N + 1) = 2 * N + 1
       /\ IsFiniteSet(PageIds) /\ Cardinality(PageIds) = MaxPages
  <2>1. PageIds = 0 .. MaxPages - 1 /\ MaxPages \in Nat \ {0}
    BY MaxPagesAssumption DEF PageIds
  <2>2. /\ N \in Nat /\ 2 * N + 1 \in Int /\ 2 * N + 1 >= 1
        /\ MaxPages - 1 \in Int /\ MaxPages - 1 >= 0
    BY <1>4, <2>1
  <2> HIDE DEF N
  <2>3. \A i \in Int, j \in Int :
          i <= j => IsFiniteSet(i .. j) /\ Cardinality(i .. j) = j - i + 1
    <3> SUFFICES ASSUME NEW i \in Int, NEW j \in Int, i <= j
                 PROVE  IsFiniteSet(i .. j) /\ Cardinality(i .. j) = j - i + 1
      OBVIOUS
    <3>1. /\ IsFiniteSet(i .. j)
          /\ Cardinality(i .. j) = IF i > j THEN 0 ELSE j - i + 1
      BY FS_Interval
    <3> QED  BY <3>1
  <2>4. /\ IsFiniteSet(1 .. 2 * N + 1)
        /\ Cardinality(1 .. 2 * N + 1) = ((2 * N + 1) - 1) + 1
    <3> DEFINE M == 2 * N + 1
    <3>1. M \in Int /\ 1 <= M
      BY <2>2
    <3> HIDE DEF M
    <3>2. IsFiniteSet(1 .. M) /\ Cardinality(1 .. M) = (M - 1) + 1
      BY <2>3, <3>1
    <3> QED  BY <3>2 DEF M
  <2>5. /\ IsFiniteSet(0 .. MaxPages - 1)
        /\ Cardinality(0 .. MaxPages - 1) = MaxPages - 1 - 0 + 1
    BY <2>2, <2>3
  <2>6. ((2 * N + 1) - 1) + 1 = 2 * N + 1 /\ MaxPages - 1 - 0 + 1 = MaxPages
    BY <2>1, <2>2
  <2> QED  BY <2>1, <2>4, <2>5, <2>6
<1>14. Cardinality(PageIds) < Cardinality(1 .. 2 * N + 1)
  BY <1>13, InternalMaxAssumption, MaxPagesAssumption
<1>15. \E n, o \in 1 .. 2 * N + 1 : n # o /\ page[n] = page[o]
  <2> DEFINE S == 1 .. 2 * N + 1
  <2>1. page \in [S -> PageIds]
    BY <1>9
  <2>2. /\ IsFiniteSet(S) /\ IsFiniteSet(PageIds)
        /\ Cardinality(PageIds) < Cardinality(S)
    BY <1>13, <1>14
  <2> HIDE DEF S
  <2>3. \E n, o \in S : n # o /\ page[n] = page[o]
    BY ONLY <2>1, <2>2, FS_PigeonHole, Zenon
  <2> QED  BY <2>3 DEF S
<1> QED  BY <1>12, <1>15

-----------------------------------------------------------------------------
(***************************************************************************)
(* What follows from the invariant.                                        *)
(***************************************************************************)
\* A thread between two calls holds nothing, and the pool's counts are its pins.
LEMMA NothingIsPinned == Inv => NothingPinned
<1>1. SUFFICES ASSUME Inv, pc = "idle", NEW f \in Frames
               PROVE  pin_count[f] = 0
  BY DEF NothingPinned
<1>2. P!FramesAccounted /\ P!PinsMatch /\ P!TypeOK
  BY <1>1, InvIs, P!Basics, PoolAssumptions DEF PoolInv
<1>3. DOMAIN held = {}
  BY <1>1, InvIs DEF HeldAt
<1>4. CASE f \in ToSet(free_list)
  BY <1>1, <1>4, InvIs DEF FreeUnpinned
<1>5. CASE f \notin ToSet(free_list)
  <2>1. P!Mapped(f)
    BY <1>1, <1>2, <1>5, SameSets DEF P!FramesAccounted, P!ToSet, ToSet
  <2>2. frames[f] \in P!Page
    BY <1>1, <1>2, SameSets DEF P!TypeOK
  <2>3. PICK q \in PageIds : q = frames[f].page_id
    BY <2>2, SameSets DEF P!Page
  <2>4. page_table[q] = f /\ P!Resident(q)
    BY <1>1, <2>1, <2>3, NoFrameAssumption DEF P!Mapped, P!Resident, Frames
  <2>5. Holds[q] = 0
    BY <1>3 DEF Holds
  <2> QED  BY <1>2, <2>4, <2>5, SameSets DEF P!PinsMatch, Holds
<1> QED  BY <1>4, <1>5

\* A thread that needs a frame holds one page at most.
LEMMA FramesSuffice == PoolSize > 1 /\ Inv => NoNullUsed
<1>1. SUFFICES ASSUME PoolSize > 1, Inv, NeedsFrame
               PROVE  CanClaim
  BY DEF NoNullUsed
<1>2. pc \in {"open", "store", "newroot", "at", "walk", "propagate", "child", "retrieve",
              "parent"}
  BY <1>1, NoCreation DEF NeedsFrame, FetchTarget, LeafRefuses, AtLeaf
<1>3. HeldAt \subseteq {call.page}
  BY <1>2 DEF HeldAt
<1> QED  BY <1>1, <1>3, InvIs, FrameLeft

-----------------------------------------------------------------------------
(***************************************************************************)
(* The engine is a user of the pool.  BufferPool tells the bodies users    *)
(* write not apart, so this pool is the one above with all bodies alike.   *)
(***************************************************************************)
PlainFrames == [f \in Frames |-> Plain(frames[f])]
PlainDisk   == [p \in PageIds |-> Plain(disk[p])]

LEMMA PlainPage ==
  ASSUME NEW page \in P!Page
  PROVE  /\ Plain(page) = [page_id |-> page.page_id,
                           body |-> IF page.body = ZeroBody THEN ZeroBody ELSE "written"]
         /\ Plain(page).page_id = page.page_id
BY DEF P!Page, Plain

LEMMA PlainZero ==
  ASSUME NEW p \in PageIds
  PROVE  Plain([page_id |-> p, body |-> ZeroBody]) = [page_id |-> p, body |-> ZeroBody]
BY DEF Plain

LEMMA PlainSets ==
  /\ Pool!PageIds = PageIds /\ Pool!Frames = Frames /\ Pool!ZeroPage = ZeroPage
  /\ Pool!NoTable = P!NoTable /\ Pool!NoPages = P!NoPages /\ Pool!AllFree = P!AllFree
  /\ Pool!AllUnused = P!AllUnused /\ Pool!AllClean = P!AllClean
BY DEF Pool!PageIds, PageIds, Pool!Frames, Frames, Pool!ZeroPage, ZeroPage, Pool!NoTable,
   Pool!NoPages, Pool!AllFree, Pool!AllUnused, Pool!AllClean, P!NoTable, P!NoPages,
   P!AllFree, P!AllUnused, P!AllClean, P!PageIds, P!Frames, P!ZeroPage

LEMMA PlainLru ==
  ASSUME NEW lru, NEW f, NEW n
  PROVE  /\ Pool!LruPin(lru, f) = P!LruPin(lru, f)
         /\ Pool!LruUnpin(lru, f, n) = P!LruUnpin(lru, f, n)
         /\ Pool!LruVictim(lru) = P!LruVictim(lru)
         /\ Pool!LruAfterVictim(lru) = P!LruAfterVictim(lru)
         /\ Pool!LruHasVictim(lru) <=> P!LruHasVictim(lru)
<1>1. ASSUME NEW i PROVE Pool!RemoveAt(lru, i) = P!RemoveAt(lru, i)
  BY DEF Pool!RemoveAt, P!RemoveAt
<1>2. ASSUME NEW S PROVE Pool!Min(S) = P!Min(S)
  BY DEF Pool!Min, P!Min
<1>3. Pool!SelectInSeq(lru, LAMBDA v : v = f) = P!SelectInSeq(lru, LAMBDA v : v = f)
  BY <1>2, ZenonT(30) DEF Pool!SelectInSeq, P!SelectInSeq
<1>4. Pool!LruPin(lru, f) = P!LruPin(lru, f)
  BY <1>1, <1>3, Zenon DEF P!LruPin, Pool!LruPin, P!RemoveFirst, Pool!RemoveFirst
<1>5. Pool!LruUnpin(lru, f, n) = P!LruUnpin(lru, f, n)
  BY DEF Pool!LruUnpin, P!LruUnpin, Pool!ToSet, P!ToSet
<1> QED  BY <1>4, <1>5 DEF Pool!LruVictim, P!LruVictim, Pool!LruAfterVictim,
            P!LruAfterVictim, Pool!LruHasVictim, P!LruHasVictim

LEMMA PlainResident == ASSUME NEW p PROVE Pool!Resident(p) <=> P!Resident(p)
BY DEF Pool!Resident, P!Resident

\* Types of what is in RAM and in the file.
LEMMA PlainIs ==
  ASSUME PoolInv
  PROVE  /\ \A f \in Frames : frames[f] \in P!Page /\ PlainFrames[f] = Plain(frames[f])
                              /\ PlainFrames[f].page_id = frames[f].page_id
         /\ \A p \in PageIds : disk[p] \in P!Page /\ PlainDisk[p] = Plain(disk[p])
         /\ frames \in [Frames -> P!Page] /\ disk \in [PageIds -> P!Page]
         /\ DOMAIN PlainFrames = Frames /\ DOMAIN PlainDisk = PageIds
<1>1. frames \in [Frames -> P!Page] /\ disk \in [PageIds -> P!Page]
  BY P!Basics, PoolAssumptions, SameSets DEF PoolInv, P!TypeOK
<1> QED  BY <1>1, PlainPage DEF PlainFrames, PlainDisk

LEMMA PlainUntouched ==
  /\ frames' = frames => PlainFrames' = PlainFrames
  /\ disk' = disk => PlainDisk' = PlainDisk
BY DEF PlainFrames, PlainDisk

LEMMA PlainClaimed ==
  ASSUME PoolInv, P!Claim
  PROVE  /\ P!ClaimedFrame \in Frames
         /\ Pool!CanClaim
         /\ Pool!ClaimedFrame = P!ClaimedFrame
         /\ Pool!LruAfterClaim = P!LruAfterClaim
         /\ Pool!TableAfterClaim = P!TableAfterClaim
<1>1. P!SessionInv /\ P!ClaimedFrame \in Frames
  BY P!Basics, P!ClaimedFrameIsFree, PoolAssumptions, SameSets DEF PoolInv
<1>0. P!CanClaim
  BY DEF P!Claim
<1>2. /\ Pool!CanClaim /\ Pool!ClaimedFrame = P!ClaimedFrame
      /\ Pool!LruAfterClaim = P!LruAfterClaim
  BY <1>0, PlainLru DEF Pool!CanClaim, P!CanClaim, Pool!ClaimedFrame, P!ClaimedFrame,
     Pool!LruAfterClaim, P!LruAfterClaim
<1>3. Pool!TableAfterClaim = P!TableAfterClaim
  <2>1. CASE free_list # << >>
    BY <2>1 DEF Pool!TableAfterClaim, P!TableAfterClaim
  <2>2. CASE free_list = << >>
    <3> DEFINE f == P!LruVictim(lru_list)
    <3>1. f \in Frames
      BY <1>1, <2>2 DEF P!ClaimedFrame
    <3>2. PlainFrames[f].page_id = frames[f].page_id
      BY <3>1, PlainIs
    <3>3. Pool!LruVictim(lru_list) = f
      BY PlainLru
    <3>4. P!TableAfterClaim = [page_table EXCEPT ![frames[f].page_id] = NoFrame]
      BY <2>2 DEF P!TableAfterClaim
    <3> HIDE DEF f
    <3>5. Pool!TableAfterClaim = [page_table EXCEPT ![PlainFrames[f].page_id] = NoFrame]
      BY <2>2, <3>3, Zenon DEF Pool!TableAfterClaim, PlainFrames
    <3> QED  BY <3>2, <3>4, <3>5
  <2> QED  BY <2>1, <2>2
<1> QED  BY <1>1, <1>2, <1>3

LEMMA PlainWritePage ==
  ASSUME PoolInv, NEW p \in PageIds, NEW page, P!WritePage(p, page)
  PROVE  Pool!WritePage(p, Plain(page))
<1>1. disk' = [disk EXCEPT ![p] = page] /\ DOMAIN disk = PageIds
  BY PlainIs DEF P!WritePage
<1>2. PlainDisk' = [PlainDisk EXCEPT ![p] = Plain(page)]
  BY <1>1 DEF PlainDisk
<1> QED  BY <1>2 DEF P!WritePage, Pool!WritePage, PlainDisk

LEMMA PlainClaim ==
  ASSUME PoolInv, P!Claim
  PROVE  Pool!Claim
<1>1. P!CanClaim /\ Pool!CanClaim
  BY PlainClaimed DEF P!Claim
<1>2. CASE free_list # << >>
  BY <1>1, <1>2, PlainUntouched DEF P!Claim, Pool!Claim, P!diskVars, Pool!diskVars, PlainDisk
<1>3. CASE free_list = << >>
  <2> DEFINE f == P!LruVictim(lru_list)
  <2>1. f \in Frames
    BY <1>1, <1>3, PlainClaimed DEF P!ClaimedFrame
  <2>2. /\ frames[f].page_id \in PageIds /\ PlainFrames[f].page_id = frames[f].page_id
        /\ PlainFrames[f] = Plain(frames[f])
    BY <2>1, PlainIs, SameSets DEF P!Page
  <2>3. Pool!LruVictim(lru_list) = f
    BY PlainLru
  <2>4. /\ IF is_dirty[f] THEN P!WritePage(frames[f].page_id, frames[f])
           ELSE UNCHANGED P!diskVars
        /\ free_list' = free_list
    BY <1>3 DEF P!Claim
  <2> HIDE DEF f
  <2>5. IF is_dirty[f] THEN Pool!WritePage(PlainFrames[f].page_id, PlainFrames[f])
        ELSE UNCHANGED Pool!diskVars
    <3>1. CASE is_dirty[f]
      BY <2>2, <2>4, <3>1, PlainWritePage
    <3>2. CASE ~ is_dirty[f]
      BY <2>4, <3>2, PlainUntouched DEF P!diskVars, Pool!diskVars, PlainDisk
    <3> QED  BY <3>1, <3>2
  <2> QED  BY <1>1, <1>3, <2>3, <2>4, <2>5, Zenon DEF Pool!Claim, PlainFrames
<1> QED  BY <1>2, <1>3

LEMMA PlainInstall ==
  ASSUME PoolInv, P!Claim, NEW p, NEW page, P!Install(p, page)
  PROVE  Pool!Install(p, Plain(page))
<1> DEFINE f == P!ClaimedFrame
<1>1. /\ f \in Frames /\ Pool!ClaimedFrame = f
      /\ Pool!TableAfterClaim = P!TableAfterClaim
  BY PlainClaimed
<1>2. /\ page_table' = [P!TableAfterClaim EXCEPT ![p] = f]
      /\ frames' = [frames EXCEPT ![f] = page]
      /\ pin_count' = [pin_count EXCEPT ![f] = 1]
      /\ is_dirty' = [is_dirty EXCEPT ![f] = FALSE]
  BY DEF P!Install
<1>3. DOMAIN frames = Frames
  BY PlainIs
<1> HIDE DEF f
<1>4. PlainFrames' = [PlainFrames EXCEPT ![f] = Plain(page)]
  BY <1>1, <1>2, <1>3 DEF PlainFrames
<1> QED  BY <1>1, <1>2, <1>4 DEF Pool!Install, PlainFrames

LEMMA PlainFetch ==
  ASSUME PoolInv, NEW p \in PageIds, P!Fetch(p)
  PROVE  Pool!Fetch(p)
<1>1. /\ p \in P!Fetchable /\ Holds[p] < 1
      /\ P!FetchHit(p) \/ P!FetchMiss(p)
      /\ Holds' = [Holds EXCEPT ![p] = @ + 1]
      /\ Handle' = [Handle EXCEPT ![p] = page_table'[p]]
      /\ changed' = changed /\ Written' = Written
  BY DEF P!Fetch, Holds, Handle
<1>2. p \in Pool!Fetchable
  BY <1>1 DEF P!Fetchable, Pool!Fetchable
<1>3. CASE P!FetchHit(p)
  <2>1. Pool!FetchHit(p)
    BY <1>3, PlainResident, PlainLru, PlainUntouched
       DEF P!FetchHit, Pool!FetchHit, P!diskVars, Pool!diskVars, PlainFrames, PlainDisk
  <2> QED  BY <1>1, <1>2, <2>1 DEF Pool!Fetch, Holds, Handle
<1>4. CASE P!FetchMiss(p)
  <2>1. /\ ~ P!Resident(p) /\ P!Claim /\ P!Install(p, disk'[p])
        /\ lru_list' = P!LruPin(P!LruAfterClaim, P!ClaimedFrame)
        /\ next_page_id' = next_page_id
    BY <1>4 DEF P!FetchMiss
  <2>2. PlainDisk'[p] = Plain(disk'[p])
    BY DEF PlainDisk, Plain
  <2>3. Pool!Claim /\ Pool!Install(p, PlainDisk'[p])
    BY <2>1, <2>2, PlainClaim, PlainInstall
  <2>4. lru_list' = Pool!LruPin(Pool!LruAfterClaim, Pool!ClaimedFrame)
    BY <2>1, PlainClaimed, PlainLru
  <2>5. Pool!FetchMiss(p)
    BY <2>1, <2>3, <2>4, PlainResident DEF Pool!FetchMiss, PlainDisk
  <2> QED  BY <1>1, <1>2, <2>5 DEF Pool!Fetch, Holds, Handle
<1> QED  BY <1>1, <1>3, <1>4

LEMMA PlainNew ==
  ASSUME PoolInv, P!New
  PROVE  Pool!New
<1>1. /\ P!NewPage
      /\ Holds' = [Holds EXCEPT ![next_page_id] = 1]
      /\ Handle' = [Handle EXCEPT ![next_page_id] = P!ClaimedFrame]
      /\ changed' = changed /\ Written' = Written
  BY DEF P!New, Holds, Handle
<1> DEFINE page == [page_id |-> next_page_id, body |-> ZeroBody]
<1>2. /\ next_page_id < MaxPages /\ P!Claim /\ P!Install(next_page_id, page)
      /\ lru_list' = P!LruAfterClaim /\ next_page_id' = next_page_id + 1
  BY <1>1 DEF P!NewPage
<1>3. next_page_id \in PageIds
  BY <1>1, P!NewKeepsContents, PoolAssumptions, SameSets DEF PoolInv
<1>4. Pool!Claim /\ Pool!Install(next_page_id, page)
  <2>1. Plain(page) = page
    BY <1>3, PlainZero
  <2> QED  BY <1>2, <2>1, PlainClaim, PlainInstall
<1>5. Pool!ClaimedFrame = P!ClaimedFrame /\ Pool!LruAfterClaim = P!LruAfterClaim
  BY <1>2, PlainClaimed
<1>6. Pool!NewPage
  BY <1>2, <1>4, <1>5 DEF Pool!NewPage
<1> QED  BY <1>1, <1>5, <1>6 DEF Pool!New, Holds, Handle

LEMMA PlainWrite ==
  ASSUME PoolInv, NEW p \in PageIds, NEW body \in Bodies, P!Write(p, body)
  PROVE  Pool!Write(p, "written")
<1>1. /\ Holds[p] > 0 /\ p < next_page_id
      /\ frames' = [frames EXCEPT ![Handle[p]].body = body]
      /\ changed' = changed \cup {p} /\ Written' = Written \cup {p}
      /\ page_table' = page_table /\ free_list' = free_list /\ lru_list' = lru_list
      /\ pin_count' = pin_count /\ is_dirty' = is_dirty
      /\ next_page_id' = next_page_id /\ disk' = disk /\ file_pages' = file_pages
      /\ Holds' = Holds /\ Handle' = Handle
  BY DEF P!Write, P!diskVars, Holds, Handle
<1> DEFINE f == Handle[p]
<1>2. f \in Frames
  <2>1. P!PinnedStay /\ P!TypeOK
    BY P!Basics, PoolAssumptions DEF PoolInv
  <2>2. P!Resident(p) /\ page_table[p] = f
    BY <1>1, <2>1, SameSets DEF P!PinnedStay, Holds, Handle
  <2>3. page_table[p] \in Frames \cup {NoFrame}
    BY <2>1, SameSets DEF P!TypeOK
  <2> QED  BY <2>2, <2>3 DEF P!Resident
<1>3. frames' = [frames EXCEPT ![f].body = body]
  BY <1>1
<1> HIDE DEF f
<1>4. /\ \A g \in Frames \ {f} : Plain(frames'[g]) = Plain(frames[g])
      /\ Plain(frames'[f]) = [Plain(frames[f]) EXCEPT !.body = "written"]
  <2>1. frames[f] \in P!Page /\ frames \in [Frames -> P!Page]
    BY <1>2, PlainIs
  <2>2. frames'[f] = [frames[f] EXCEPT !.body = body] /\ body # ZeroBody
    BY <1>2, <1>3, <2>1, ZeroBodyAssumption
  <2>3. \A g \in Frames \ {f} : frames'[g] = frames[g]
    BY <1>2, <1>3, <2>1
  <2>4. Plain(frames'[f]) = [Plain(frames[f]) EXCEPT !.body = "written"]
    BY <2>1, <2>2 DEF Plain, P!Page
  <2> QED  BY <2>3, <2>4
<1>5. PlainFrames' = [PlainFrames EXCEPT ![f].body = "written"]
  <2>1. PlainFrames' = [g \in Frames |-> Plain(frames'[g])]
    BY DEF PlainFrames, Plain
  <2> HIDE DEF PlainFrames
  <2>2. \A g \in Frames : PlainFrames[g] = Plain(frames[g])
    BY PlainIs
  <2>3. DOMAIN PlainFrames = Frames
    BY PlainIs
  <2>4. \A g \in Frames :
          PlainFrames'[g] = [PlainFrames EXCEPT ![f].body = "written"][g]
    BY <1>2, <1>4, <2>1, <2>2, <2>3
  <2> QED  BY <2>1, <2>3, <2>4
<1>6. PlainDisk' = PlainDisk
  BY <1>1, PlainUntouched
<1> QED  BY <1>1, <1>5, <1>6 DEF Pool!Write, Pool!diskVars, PlainFrames, PlainDisk, Holds,
            Handle, f

LEMMA PlainRelease ==
  ASSUME PoolInv, NEW p \in PageIds, NEW dirty \in BOOLEAN, P!Release(p, dirty)
  PROVE  Pool!Release(p, dirty)
<1>1. /\ Holds[p] > 0
      /\ IF dirty THEN p \in Written ELSE p \notin changed \/ Holds[p] > 1
      /\ P!UnpinPage(p, dirty)
      /\ Holds' = [Holds EXCEPT ![p] = @ - 1]
      /\ Handle' = [Handle EXCEPT ![p] = IF Holds[p] = 1 THEN NoFrame ELSE @]
      /\ changed' = (IF dirty THEN changed \ {p} ELSE changed) /\ Written' = Written
  BY DEF P!Release, Holds, Handle
<1>2. /\ frames' = frames /\ disk' = disk /\ file_pages' = file_pages
      /\ PlainFrames' = PlainFrames /\ PlainDisk' = PlainDisk
  <2>1. frames' = frames /\ disk' = disk /\ file_pages' = file_pages
    BY <1>1 DEF P!UnpinPage, P!UnpinAbsent, P!UnpinIdle, P!UnpinPinned, P!poolVars,
       P!metaVars, P!diskVars
  <2> QED  BY <2>1, PlainUntouched
<1>3. Pool!UnpinPage(p, dirty)
  <2>1. CASE P!UnpinAbsent(p, dirty)
    BY <1>2, <2>1, PlainResident DEF P!UnpinAbsent, Pool!UnpinAbsent, Pool!UnpinPage,
       P!poolVars, P!metaVars, P!diskVars, Pool!poolVars, Pool!metaVars, Pool!diskVars,
       PlainFrames, PlainDisk
  <2>2. CASE P!UnpinIdle(p, dirty)
    BY <1>2, <2>2, PlainResident DEF P!UnpinIdle, Pool!UnpinIdle, Pool!UnpinPage,
       P!MarkDirty, Pool!MarkDirty, P!diskVars, Pool!diskVars, PlainFrames, PlainDisk
  <2>3. CASE P!UnpinPinned(p, dirty)
    BY <1>2, <2>3, PlainResident, PlainLru DEF P!UnpinPinned, Pool!UnpinPinned,
       Pool!UnpinPage, P!MarkDirty, Pool!MarkDirty, P!diskVars, Pool!diskVars,
       PlainFrames, PlainDisk
  <2> QED  BY <1>1, <2>1, <2>2, <2>3 DEF P!UnpinPage
<1> QED  BY <1>1, <1>3 DEF Pool!Release, Holds, Handle

LEMMA PlainRestart ==
  ASSUME PoolInv, P!Restart
  PROVE  Pool!Restart
<1>1. /\ \A p \in PageIds : Holds[p] = 0
      /\ P!WriteAllDirty /\ P!PoolRestart
      /\ Holds' = Holds /\ Handle' = Handle /\ changed' = changed /\ Written' = Written
  BY SameSets DEF P!Restart, P!clientVars, Holds, Handle
<1> DEFINE written == {p \in PageIds : P!DirtyFramesOf(p) # {}}
           last(p) == P!Max(P!DirtyFramesOf(p))
<1>2. ASSUME NEW p PROVE Pool!DirtyFramesOf(p) = P!DirtyFramesOf(p)
  <2>1. \A f \in Frames : PlainFrames[f].page_id = frames[f].page_id
    BY PlainIs
  <2> QED  BY <2>1, PlainSets, SameSets, Zenon
           DEF Pool!DirtyFramesOf, P!DirtyFramesOf, PlainFrames
<1>3. ASSUME NEW p \in written PROVE last(p) \in Frames
  <2>1. PoolSize - 1 \in Nat /\ Frames = 0 .. PoolSize - 1
    BY PoolSizeAssumption DEF Frames
  <2>2. P!DirtyFramesOf(p) \in SUBSET (0 .. PoolSize - 1) /\ P!DirtyFramesOf(p) # {}
    BY <1>3, <2>1, SameSets DEF P!DirtyFramesOf
  <2>3. last(p) \in P!DirtyFramesOf(p)
    BY <2>1, <2>2, P!MaxIsGreatest, PoolAssumptions
  <2> QED  BY <2>1, <2>2, <2>3
<1>4. ASSUME NEW S PROVE Pool!Max(S) = P!Max(S)
  BY DEF Pool!Max, P!Max
<1>5. /\ disk' = [p \in PageIds |-> IF p \in written THEN frames[last(p)] ELSE disk[p]]
      /\ file_pages' = P!Max({file_pages} \cup {p + 1 : p \in written})
  BY <1>1, SameSets DEF P!WriteAllDirty
<1> HIDE DEF last
<1>6. PlainDisk' = [p \in PageIds |-> IF p \in written THEN PlainFrames[last(p)]
                                      ELSE PlainDisk[p]]
  <2>1. PlainDisk' = [p \in PageIds |-> Plain(disk'[p])]
    BY DEF PlainDisk, Plain
  <2>2. ASSUME NEW p \in PageIds
        PROVE  Plain(disk'[p]) = IF p \in written THEN PlainFrames[last(p)]
                                 ELSE PlainDisk[p]
    BY <1>3, <1>5, PlainIs
  <2> QED  BY <2>1, <2>2, Zenon
<1>7. Pool!WriteAllDirty
  <2>1. {p \in PageIds : Pool!DirtyFramesOf(p) # {}} = written
    BY <1>2
  <2>2. \A p : Pool!Max(Pool!DirtyFramesOf(p)) = last(p)
    BY <1>2, <1>4 DEF last
  <2>3. file_pages' = Pool!Max({file_pages} \cup {p + 1 : p \in written})
    BY <1>4, <1>5
  <2> HIDE DEF written
  <2>4. PlainDisk' = [p \in PageIds |-> IF p \in written
                                       THEN PlainFrames[Pool!Max(Pool!DirtyFramesOf(p))]
                                       ELSE PlainDisk[p]]
    BY <1>6, <2>2
  <2> QED  BY <2>1, <2>3, <2>4, PlainSets DEF Pool!WriteAllDirty, PlainFrames, PlainDisk
<1>8. Pool!PoolRestart
  <2>1. PlainFrames' = P!NoPages
    <3>1. frames' = P!NoPages
      BY <1>1 DEF P!PoolRestart
    <3>2. Plain(ZeroPage) = ZeroPage
      BY PageZero, PlainZero DEF ZeroPage
    <3>3. PlainFrames' = [f \in Frames |-> Plain(frames'[f])]
      BY DEF PlainFrames, Plain
    <3> QED  BY <3>1, <3>2, <3>3, SameSets, Zenon DEF P!NoPages
  <2> QED  BY <1>1, <2>1, PlainSets DEF P!PoolRestart, Pool!PoolRestart, PlainFrames
<1> QED  BY <1>1, <1>7, <1>8, PlainSets DEF Pool!Restart, Pool!clientVars, Holds, Handle

LEMMA PlainStutter ==
  ASSUME UNCHANGED P!vars
  PROVE  UNCHANGED Pool!vars
<1>1. PlainFrames' = PlainFrames /\ PlainDisk' = PlainDisk
  BY PlainUntouched DEF P!vars, P!poolVars, P!metaVars, P!diskVars
<1> QED  BY <1>1 DEF P!vars, P!poolVars, P!metaVars, P!diskVars, P!clientVars, Pool!vars,
            Pool!poolVars, Pool!metaVars, Pool!diskVars, Pool!clientVars, PlainFrames,
            PlainDisk

\* A step of a user of the pool above is one of BufferPool with plain bodies.
LEMMA PoolUseIsStep ==
  ASSUME PoolInv, PoolUse
  PROVE  [P!Next]_(P!vars) /\ [Pool!Next]_(Pool!vars)
<1>1. [P!Next]_(P!vars)
  BY SameSets DEF PoolUse, P!Next
<1> SUFFICES [Pool!Next]_(Pool!vars)
  BY <1>1
<1>2. CASE \E p \in PageIds : P!Fetch(p)
  BY <1>2, PlainFetch, PlainSets DEF Pool!Next
<1>3. CASE P!New
  BY <1>3, PlainNew DEF Pool!Next
<1>4. CASE \E p \in PageIds, body \in Bodies : P!Write(p, body)
  <2>1. PICK p \in PageIds : Pool!Write(p, "written")
    BY <1>4, PlainWrite
  <2> QED  BY <2>1, PlainSets DEF Pool!Next
<1>5. CASE \E p \in PageIds, dirty \in BOOLEAN : P!Release(p, dirty)
  BY <1>5, PlainRelease, PlainSets DEF Pool!Next
<1>6. CASE P!Restart
  BY <1>6, PlainRestart DEF Pool!Next
<1>7. CASE UNCHANGED P!vars
  BY <1>7, PlainStutter
<1> QED  BY <1>2, <1>3, <1>4, <1>5, <1>6, <1>7 DEF PoolUse

LEMMA PlainInit ==
  ASSUME PoolInv, P!Init
  PROVE  Pool!Init
<1>1. /\ file_pages \in 0 .. MaxPages
      /\ Written \in SUBSET (0 .. file_pages - 1)
      /\ P!PoolInit /\ changed = {}
      /\ Holds = [p \in PageIds |-> 0] /\ Handle = [p \in PageIds |-> NoFrame]
  BY SameSets DEF P!Init, Holds, Handle
<1>2. PICK b \in [PageIds -> Bodies] :
        disk = [p \in PageIds |-> IF p \in Written THEN [page_id |-> p, body |-> b[p]]
                                  ELSE ZeroPage]
  BY SameSets DEF P!Init
<1>3. PlainDisk = [p \in PageIds |-> IF p \in Written
                                     THEN [page_id |-> p, body |-> "written"]
                                     ELSE ZeroPage]
  <2>1. ASSUME NEW p \in PageIds
        PROVE  Plain(disk[p]) = IF p \in Written THEN [page_id |-> p, body |-> "written"]
                                ELSE ZeroPage
    <3>1. CASE p \in Written
      <4>1. disk[p] = [page_id |-> p, body |-> b[p]] /\ b[p] # ZeroBody
        BY <1>2, <3>1, ZeroBodyAssumption
      <4> QED  BY <3>1, <4>1 DEF Plain
    <3>2. CASE p \notin Written
      <4>1. disk[p] = ZeroPage /\ Plain(ZeroPage) = ZeroPage
        BY <1>2, <3>2, PageZero, PlainZero DEF ZeroPage
      <4> QED  BY <3>2, <4>1
    <3> QED  BY <3>1, <3>2
  <2> QED  BY <2>1, Zenon DEF PlainDisk
<1>4. \E c \in [PageIds -> {"written"}] :
        PlainDisk = [p \in PageIds |-> IF p \in Written THEN [page_id |-> p, body |-> c[p]]
                                       ELSE ZeroPage]
  <2> DEFINE c == [p \in PageIds |-> "written"]
  <2>1. c \in [PageIds -> {"written"}] /\ \A p \in PageIds : c[p] = "written"
    OBVIOUS
  <2> HIDE DEF c
  <2>2. PlainDisk = [p \in PageIds |-> IF p \in Written THEN [page_id |-> p, body |-> c[p]]
                                       ELSE ZeroPage]
    BY <1>3, <2>1
  <2> QED  BY <2>1, <2>2
<1>5. Pool!PoolInit
  <2>1. frames = P!NoPages /\ Plain(ZeroPage) = ZeroPage
    BY <1>1, PageZero, PlainZero DEF P!PoolInit, ZeroPage
  <2>2. PlainFrames = P!NoPages
    BY <2>1, SameSets, Zenon DEF PlainFrames, P!NoPages
  <2> QED  BY <1>1, <2>2, PlainSets DEF P!PoolInit, Pool!PoolInit, PlainFrames
<1> QED  BY <1>1, <1>4, <1>5, PlainSets DEF Pool!Init, PlainDisk, Holds, Handle

-----------------------------------------------------------------------------
(***************************************************************************)
(* The theorems, for an existing file.                                     *)
(***************************************************************************)
\* What the thread knows at each of its labels, what is in the pages, and that
\* the two fit together: the invariant of constructor, facade and tree.
THEOREM EngineInvariant ==
  ASSUME EmptyFile = FALSE
  PROVE  Spec => []Inv
<1>1. Init => Inv
  BY InitInv
<1>2. Inv /\ [Next]_vars => Inv'
  BY NextKeeps, StutterKeeps
<1> QED  BY <1>1, <1>2, PTL DEF Spec

\* The part of it that TLC checks.
THEOREM EngineKnowsItsPages ==
  ASSUME EmptyFile = FALSE
  PROVE  Spec => []IndInv
<1>1. Inv => IndInv
  BY DEF Inv
<1> QED  BY <1>1, EngineInvariant, PTL

\* No call leaves a page pinned, on any of its paths.
THEOREM NothingStaysPinned ==
  ASSUME EmptyFile = FALSE
  PROVE  Spec => []NothingPinned
<1>1. Inv => NothingPinned
  BY NothingIsPinned
<1> QED  BY <1>1, EngineInvariant, PTL

\* With two frames no fetchPage and no newPage returns nullptr.
THEOREM NullIsNeverUsed ==
  ASSUME EmptyFile = FALSE, PoolSize > 1
  PROVE  Spec => []NoNullUsed
<1>1. Inv => NoNullUsed
  BY FramesSuffice
<1> QED  BY <1>1, EngineInvariant, PTL

\* find never returns another key's object, whatever callers do.
THEOREM AnswersAreSound ==
  ASSUME EmptyFile = FALSE
  PROVE  Spec => []AnswersSound
<1>1. Inv => AnswersSound
  BY DEF Inv
<1> QED  BY <1>1, EngineInvariant, PTL

LEMMA InitIsPoolInit ==
  ASSUME Init, EmptyFile = FALSE
  PROVE  P!Init /\ Pool!Init
BY InitStep, PlainInit

\* Every step of the engine is one BufferPool allows its users, so the theorems
\* about the pool hold of the pool in this program.
THEOREM EngineUsesPoolWell ==
  ASSUME EmptyFile = FALSE
  PROVE  Spec => UsesPoolWell
<1>1. Init => Pool!Init
  BY InitIsPoolInit
<1>2. Inv /\ [Next]_vars => [Pool!Next]_(Pool!vars)
  <2>1. Inv /\ [Next]_vars => PoolInv /\ PoolUse
    BY NextKeeps, StutterKeeps, InvIs
  <2> QED  BY <2>1, PoolUseIsStep
<1> QED  BY <1>1, <1>2, EngineInvariant, PTL DEF Spec, UsesPoolWell, Pool!Spec

\* Under the engine the pool is a page store for what is really in the pages:
\* nodes of the tree and records keep their contents through evictions and
\* sessions, and only the page being written changes.
EnginePages == P!ImplementsPageStore

THEOREM EnginePagesAreStored ==
  ASSUME EmptyFile = FALSE
  PROVE  Spec => EnginePages
<1>1. Init => P!Init
  BY InitIsPoolInit
<1>2. Inv /\ [Next]_vars => [P!Next]_(P!vars)
  <2>1. Inv /\ [Next]_vars => PoolInv /\ PoolUse
    BY NextKeeps, StutterKeeps, InvIs
  <2> QED  BY <2>1, PoolUseIsStep
<1>3. Spec => P!Spec
  BY <1>1, <1>2, EngineInvariant, PTL DEF Spec, P!Spec
<1>4. P!Spec => P!ImplementsPageStore
  BY P!PoolIsPageStore, PoolAssumptions
<1> QED  BY <1>3, <1>4, PTL DEF EnginePages

-----------------------------------------------------------------------------
(***************************************************************************)
(* Proper use: callers insert a key once, no session begins after the root *)
(* moved, and no leaf is split under a full root.  The other uses lose     *)
(* keys: duplicates and full roots in BPlusTree, moved roots in Demo.      *)
(***************************************************************************)
\* No split comes to the branch of insertIntoParent that is left to do.
RootNeverFull == [][~ ParentFull]_vars

ProperInv == Inv /\ KeysInPlace /\ AnswersRight

LEMMA ProperInit ==
  ASSUME Init, EmptyFile = FALSE
  PROVE  ProperInv
BY InitInv, InitProper DEF ProperInv

LEMMA ProperNext ==
  ASSUME ProperInv, Next, ~ ParentFull, ~ Duplicates, ~ MovedRootToo
  PROVE  ProperInv'
BY NextKeeps, NextProper DEF ProperInv

LEMMA ProperStutter ==
  ASSUME ProperInv, UNCHANGED vars
  PROVE  ProperInv'
BY StutterKeeps, StutterProper DEF ProperInv

\* find and exists answer what insert stored, and nothing else: through
\* evictions, splits, failed inserts and sessions, with any pool, in any file.
THEOREM ProperUseAnswersRight ==
  ASSUME EmptyFile = FALSE, ~ Duplicates, ~ MovedRootToo
  PROVE  Spec /\ RootNeverFull => [](KeysInPlace /\ AnswersRight)
<1>1. Init => ProperInv
  BY ProperInit
<1>2. ProperInv /\ [Next]_vars /\ [~ ParentFull]_vars => ProperInv'
  BY ProperNext, ProperStutter
<1>3. ProperInv => KeysInPlace /\ AnswersRight
  BY DEF ProperInv
<1> QED  BY <1>1, <1>2, <1>3, PTL DEF Spec, RootNeverFull

\* In files of up to 2 * InternalMax + 4 pages (504 with the code's 250) callers
\* need not look at the root: it cannot be full.
THEOREM SmallFileStaysProper ==
  ASSUME EmptyFile = FALSE, ~ Duplicates, ~ MovedRootToo,
         MaxPages <= 2 * InternalMax + 4
  PROVE  Spec => []KeysInPlace
<1>1. Init => ProperInv
  BY ProperInit
<1>2. ProperInv => ~ ParentFull
  BY ParentHasRoom DEF ProperInv, ParentFull, InsertReturns
<1>3. ProperInv /\ [Next]_vars => ProperInv'
  BY <1>2, ProperNext, ProperStutter
<1>4. ProperInv => KeysInPlace
  BY DEF ProperInv
<1> QED  BY <1>1, <1>3, <1>4, PTL DEF Spec

THEOREM SmallFileAnswersRight ==
  ASSUME EmptyFile = FALSE, ~ Duplicates, ~ MovedRootToo,
         MaxPages <= 2 * InternalMax + 4
  PROVE  Spec => []AnswersRight
<1>1. Init => ProperInv
  BY ProperInit
<1>2. ProperInv => ~ ParentFull
  BY ParentHasRoom DEF ProperInv, ParentFull, InsertReturns
<1>3. ProperInv /\ [Next]_vars => ProperInv'
  BY <1>2, ProperNext, ProperStutter
<1>4. ProperInv => AnswersRight
  BY DEF ProperInv
<1> QED  BY <1>1, <1>3, <1>4, PTL DEF Spec

=============================================================================
