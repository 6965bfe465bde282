------------------------------ MODULE BufferPool ------------------------------
(***************************************************************************)
(* The buffer pool and its users.  A user fetches or creates a page, works *)
(* through the pointer it got, and unpins the page; several users may pin  *)
(* a page at once.  All the code of the repository keeps the contract      *)
(* written into the guards below:                                          *)
(*   - a page is fetched only if somebody wrote it (it is live),           *)
(*   - whoever wrote to a page unpins it with is_dirty_flag = true, and    *)
(*     a page nobody wrote is never unpinned so;                           *)
(*   - a page is written only while pinned, and only after newPage gave    *)
(*     out its id;                                                         *)
(* with one exception: on an empty file the constructor of BPlusTree       *)
(* fetches page 0 to see whether it holds a root.  ProbeEmptyFile switches *)
(* that call on.                                                           *)
(***************************************************************************)
EXTENDS BufferPoolManager

CONSTANTS
  Body,           \* what users write into a page
  Absent,         \* contents of a page nobody wrote
  MaxPins,        \* bound: pins of one page at a time
  ProbeEmptyFile  \* may page 0 be fetched while the file is empty?

ASSUME BodyAssumption == ZeroBody \notin Body /\ Absent \notin Body
ASSUME MaxPinsAssumption == MaxPins \in Nat \ {0}
ASSUME ProbeAssumption == ProbeEmptyFile \in BOOLEAN

VARIABLES
  holds,    \* page id -> how many users have it pinned
  handle,   \* page id -> the frame their pointer leads to
  unsaved,  \* pages written to since they were last unpinned as dirty
  live      \* pages somebody wrote

clientVars == <<holds, handle, unsaved, live>>
vars == <<poolVars, clientVars>>

Page == [page_id : PageIds, body : Body \cup {ZeroBody}]

TypeOK ==
  /\ page_table \in [PageIds -> Frames \cup {NoFrame}]
  /\ frames \in [Frames -> Page]
  /\ free_list \in Seq(Frames) /\ lru_list \in Seq(Frames)
  /\ pin_count \in [Frames -> Nat] /\ is_dirty \in [Frames -> BOOLEAN]
  /\ next_page_id \in 0 .. MaxPages /\ file_pages \in 0 .. MaxPages
  /\ disk \in [PageIds -> Page]
  /\ holds \in [PageIds -> Nat]
  /\ handle \in [PageIds -> Frames \cup {NoFrame}]
  /\ unsaved \in SUBSET PageIds /\ live \in SUBSET PageIds

(***************************************************************************)
(* A file an earlier session left: written pages, and pages that were      *)
(* given out and never written.                                            *)
(***************************************************************************)
Init ==
  /\ file_pages \in 0 .. MaxPages
  /\ live \in SUBSET (0 .. file_pages - 1)
  /\ \E b \in [PageIds -> Body] :
       disk = [p \in PageIds |->
                 IF p \in live THEN [page_id |-> p, body |-> b[p]]
                 ELSE ZeroPage]
  /\ PoolInit
  /\ holds = [p \in PageIds |-> 0]
  /\ handle = [p \in PageIds |-> NoFrame]
  /\ unsaved = {}

Fetchable == live \cup {p \in PageIds : ProbeEmptyFile /\ p = 0
                                        /\ next_page_id = 0}

Fetch(p) ==
  /\ p \in Fetchable
  /\ holds[p] < MaxPins
  /\ FetchHit(p) \/ FetchMiss(p)
  /\ holds' = [holds EXCEPT ![p] = @ + 1]
  /\ handle' = [handle EXCEPT ![p] = page_table'[p]]
  /\ UNCHANGED <<unsaved, live>>

FetchNull(p) ==
  /\ p \in Fetchable
  /\ FetchFails(p)
  /\ UNCHANGED clientVars

New ==
  /\ NewPage
  /\ holds' = [holds EXCEPT ![next_page_id] = 1]
  /\ handle' = [handle EXCEPT ![next_page_id] = ClaimedFrame]
  /\ UNCHANGED <<unsaved, live>>

NewNull == NewFails /\ UNCHANGED clientVars

\* Through the pointer: whatever page the frame holds by now.
Write(p, b) ==
  /\ holds[p] > 0 /\ p < next_page_id
  /\ frames' = [frames EXCEPT ![handle[p]].body = b]
  /\ unsaved' = unsaved \cup {p}
  /\ live' = live \cup {p}
  /\ UNCHANGED <<page_table, free_list, lru_list, pin_count, is_dirty,
                 next_page_id, diskVars, holds, handle>>

\* The flag is up only on a page somebody wrote, and down only if nothing is
\* unsaved or another user still holds the page.
Release(p, dirty) ==
  /\ holds[p] > 0
  /\ IF dirty THEN p \in live ELSE p \notin unsaved \/ holds[p] > 1
  /\ UnpinPage(p, dirty)
  /\ holds' = [holds EXCEPT ![p] = @ - 1]
  /\ handle' = [handle EXCEPT ![p] = IF holds[p] = 1 THEN NoFrame ELSE @]
  /\ unsaved' = IF dirty THEN unsaved \ {p} ELSE unsaved
  /\ UNCHANGED live

\* An unpinPage too many, when nobody holds the page.
ReleaseUnheld(p, dirty) ==
  /\ holds[p] = 0
  /\ dirty => p \in live
  /\ UnpinPage(p, dirty)
  /\ UNCHANGED clientVars

Flush(p) == FlushPage(p) /\ UNCHANGED clientVars

DeleteNull(p) == DeleteRefused(p) /\ UNCHANGED clientVars

Delete(p) ==
  /\ p < next_page_id
  /\ DeleteResident(p) \/ DeleteAbsent(p)
  /\ live' = live \ {p}
  /\ UNCHANGED <<holds, handle, unsaved>>

\* The database is closed and opened again, with no call in progress.
Restart ==
  /\ \A p \in PageIds : holds[p] = 0
  /\ WriteAllDirty
  /\ PoolRestart
  /\ UNCHANGED clientVars

\* The process ends in the middle of a call or between two, and the database is
\* opened again.  Of what was in RAM nothing is left; users know of the pages
\* whose contents the file has.
Crash ==
  /\ UNCHANGED diskVars
  /\ PoolRestart
  /\ live' = {p \in live : disk[p].body # ZeroBody}
  /\ holds' = [p \in PageIds |-> 0]
  /\ handle' = [p \in PageIds |-> NoFrame]
  /\ unsaved' = {}

Next ==
  \/ \E p \in PageIds : \/ Fetch(p) \/ FetchNull(p) \/ Flush(p)
                        \/ Delete(p) \/ DeleteNull(p)
  \/ \E p \in PageIds, b \in Body : Write(p, b)
  \/ \E p \in PageIds, dirty \in BOOLEAN :
        Release(p, dirty) \/ ReleaseUnheld(p, dirty)
  \/ New \/ NewNull \/ Restart \/ Crash

Spec == Init /\ [][Next]_vars
-----------------------------------------------------------------------------
Mapped(f) == page_table[frames[f].page_id] = f

\* Pointers stay good: while a page is pinned it stays in the frame its users
\* point to, under its own id, and the pool counts exactly their pins.  A
\* wrong eviction or a miscounted pin (fetchPage, unpinPage, newPage) breaks it.
PinnedStay ==
  \A p \in PageIds : holds[p] > 0 =>
     /\ Resident(p)
     /\ page_table[p] = handle[p]
     /\ frames[handle[p]].page_id = p
     /\ pin_count[handle[p]] = holds[p]

\* No frame is lost and none is offered twice: a frame is free, evictable or
\* pinned, exactly one of the three, and each list names it once.  So fetchPage
\* and newPage return nullptr only if every frame is pinned.
FramesAccounted ==
  /\ IsInjective(free_list) /\ IsInjective(lru_list)
  /\ \A f \in Frames :
       IF f \in ToSet(free_list)
       THEN f \notin ToSet(lru_list) /\ \A p \in PageIds : page_table[p] # f
       ELSE Mapped(f) /\ (f \in ToSet(lru_list) <=> pin_count[f] = 0)

\* "Brings a page into RAM. If it's already there, just increase the
\* pin_count": changes that are only in RAM are in the frame fetchPage finds.
DirtyIsFound == \A f \in Frames : is_dirty[f] => Mapped(f)

\* What a page needs for its contents to survive: out of RAM it is in the file
\* under its own id; in RAM it is marked dirty, or a user who will mark it
\* still holds it, or the file has the same contents.
Safe(p) ==
  IF Resident(p)
  THEN \/ is_dirty[page_table[p]]
       \/ p \in unsaved
       \/ p < file_pages /\ disk[p] = frames[page_table[p]]
  ELSE p < file_pages /\ disk[p].page_id = p

\* No change is lost by an eviction, a flush or the destructor, and the id of
\* a written page is never given out again, in this session or the next one.
LivePagesSafe == \A p \in live : p < next_page_id /\ Safe(p)

\* What a crash leaves can be opened: a page of the file is under its own id, so
\* that evictions find its header right, and inside the file, so that newPage
\* does not give its id out again.
FileHonest ==
  \A p \in PageIds : disk[p].body # ZeroBody => /\ disk[p].page_id = p
                                               /\ p < file_pages

(***************************************************************************)
(* The inductive invariant: the properties above and what they rest on.    *)
(***************************************************************************)
\* page_table and the headers agree, so no two pages share a frame.
HeadersMatch ==
  \A p \in PageIds : Resident(p) => frames[page_table[p]].page_id = p

\* The pool's counts are the users' pins, page by page.
PinsMatch ==
  \A p \in PageIds :
     IF Resident(p) THEN pin_count[page_table[p]] = holds[p] ELSE holds[p] = 0

\* Unsaved changes have a holder who will mark them.
UnsavedHeld == \A p \in unsaved : holds[p] > 0 /\ p \in live

\* Pages in RAM or in the file have ids that newPage will not give out.
IdsGivenOut ==
  /\ \A p \in PageIds : Resident(p) => p < next_page_id
  /\ file_pages <= next_page_id

\* What holds through a session as long as page 0 of an empty file is not fetched.
SessionInv ==
  /\ TypeOK
  /\ HeadersMatch /\ PinsMatch /\ UnsavedHeld /\ IdsGivenOut
  /\ PinnedStay /\ FramesAccounted /\ DirtyIsFound /\ LivePagesSafe

\* With what the session after a crash starts from.
IndInv == SessionInv /\ FileHonest
-----------------------------------------------------------------------------
\* The contents fetchPage would deliver.
Visible(p) ==
  IF p \notin live THEN Absent
  ELSE IF Resident(p) THEN frames[page_table[p]].body ELSE disk[p].body

\* The contents the next session would deliver after a crash.
InFile(p) == IF p \in live /\ disk[p].body # ZeroBody THEN disk[p].body ELSE Absent

Pins(p) == IF Resident(p) THEN pin_count[page_table[p]] ELSE 0

Blank(p) == frames[page_table[p]].body = ZeroBody /\ disk[p].body = ZeroBody

\* A page somebody wrote is delivered with what somebody wrote, never blank; a page
\* that was given out and not written is blank in RAM and in the file, where what
\* an earlier owner of the id left would come back after a crash.
WrittenOrBlank ==
  \A p \in PageIds :
     IF p \in live THEN Visible(p) \in Body ELSE Resident(p) => Blank(p)

\* The invariant the refinement rests on.
StoreInv == IndInv /\ WrittenOrBlank

\* The pool implements the page store: eviction, write-back, reading a page
\* back, flushing, closing and reopening never change a page's contents, and
\* the file never has contents under an id that the page did not have.
Store == INSTANCE PageStore WITH
  PageId  <- PageIds,
  Content <- Body,
  store   <- [p \in PageIds |-> Visible(p)],
  pins    <- [p \in PageIds |-> Pins(p)],
  created <- 0 .. next_page_id - 1,
  durable <- [p \in PageIds |-> InFile(p)]

\* Each step of the pool is a step of the page store or leaves it unchanged.
ImplementsPageStore == Store!StoreSpec
=============================================================================
