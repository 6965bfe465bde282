-------------------------- MODULE BufferPoolManager --------------------------
(***************************************************************************)
(* BufferPoolManager with the LRUReplacer and the DiskManager it drives.   *)
(*                                                                         *)
(* This module has the pool's state and one operator per call, each with   *)
(* every effect of the C++ method; it has no client and no Next.  A frame  *)
(* or a page of the file is the pair of the page_id in its header and its  *)
(* body, the rest of its 4096 bytes.  The body is opaque here: users of    *)
(* the pool decide what a body is.                                         *)
(*                                                                         *)
(* The file is what readPage would return for every page id: readPage      *)
(* zero-fills its buffer first, so a page past the end of the file, or one *)
(* the file skipped, reads as ZeroPage - whose header says page 0.         *)
(***************************************************************************)
EXTENDS Integers, Sequences, LRUReplacer

CONSTANTS
  PoolSize,  \* pool_size, the number of frames
  MaxPages,  \* bound: page ids run over 0 .. MaxPages - 1
  NoFrame,   \* "not in page_table"
  ZeroBody   \* the body of a page nobody wrote: zero bytes, or as init leaves it

ASSUME PoolSizeAssumption == PoolSize \in Nat \ {0}
ASSUME MaxPagesAssumption == MaxPages \in Nat \ {0}
ASSUME NoFrameAssumption  == NoFrame \notin 0 .. PoolSize - 1

VARIABLES
  page_table,    \* page id -> frame, NoFrame when the page is not in RAM
  frames,        \* pages[]: what each frame holds
  free_list,     \* frames never used or freed by deletePage
  lru_list,      \* the replacer's list
  pin_count,
  is_dirty,
  next_page_id,
  disk,          \* the page readPage returns, for every page id
  file_pages     \* file size in pages

metaVars == <<page_table, frames, free_list, lru_list, pin_count, is_dirty,
              next_page_id>>
diskVars == <<disk, file_pages>>
poolVars == <<metaVars, diskVars>>

Frames   == 0 .. PoolSize - 1
PageIds  == 0 .. MaxPages - 1
ZeroPage == [page_id |-> 0, body |-> ZeroBody]

Resident(p) == page_table[p] # NoFrame

(***************************************************************************)
(* DiskManager.                                                            *)
(***************************************************************************)
\* A file whose length stays what it was when it was opened.
WritePage_LengthKept(p, page) ==
  disk' = [disk EXCEPT ![p] = page] /\ UNCHANGED file_pages

\* writePage: seek, write, flush; writing past the end grows the file.
WritePage(p, page) ==
  /\ disk' = [disk EXCEPT ![p] = page]
  /\ file_pages' = IF p < file_pages THEN file_pages ELSE p + 1

(***************************************************************************)
(* Constructor: next_page_id is recovered from the size of the file, every *)
(* frame is free.  The memory of the frames is not initialised by the code *)
(* and not read before a page is loaded.                                   *)
(***************************************************************************)
NoTable    == [p \in PageIds |-> NoFrame]
NoPages    == [f \in Frames |-> ZeroPage]
AllFree    == [i \in 1 .. PoolSize |-> i - 1]
AllUnused  == [f \in Frames |-> 0]
AllClean   == [f \in Frames |-> FALSE]

PoolInit ==
  /\ page_table = NoTable /\ frames = NoPages
  /\ free_list = AllFree /\ lru_list = << >>
  /\ pin_count = AllUnused /\ is_dirty = AllClean
  /\ next_page_id = file_pages

\* The constructor of the next session, on the file the destructor left.
PoolRestart ==
  /\ page_table' = NoTable /\ frames' = NoPages
  /\ free_list' = AllFree /\ lru_list' = << >>
  /\ pin_count' = AllUnused /\ is_dirty' = AllClean
  /\ next_page_id' = file_pages'

(***************************************************************************)
(* A free frame is taken first, else the replacer's victim; a dirty victim *)
(* is written under the page id of its header, and the mapping of that id  *)
(* is erased.  fetchPage and newPage share this text.                      *)
(***************************************************************************)
CanClaim == free_list # << >> \/ LruHasVictim(lru_list)

ClaimedFrame ==
  IF free_list # << >> THEN Head(free_list) ELSE LruVictim(lru_list)

LruAfterClaim ==
  IF free_list # << >> THEN lru_list ELSE LruAfterVictim(lru_list)

\* A pool that forgets to erase the victim from page_table.
TableAfterClaim_VictimKept == page_table

TableAfterClaim ==
  IF free_list # << >> THEN page_table
  ELSE [page_table EXCEPT ![frames[LruVictim(lru_list)].page_id] = NoFrame]

Claim ==
  /\ CanClaim
  /\ IF free_list # << >>
     THEN /\ free_list' = Tail(free_list)
          /\ UNCHANGED diskVars
     ELSE LET f == LruVictim(lru_list)
          IN  /\ IF is_dirty[f]
                 THEN WritePage(frames[f].page_id, frames[f])
                 ELSE UNCHANGED diskVars
              /\ UNCHANGED free_list

\* Page p, with contents page, becomes the one in the claimed frame.
Install(p, page) ==
  /\ page_table' = [TableAfterClaim EXCEPT ![p] = ClaimedFrame]
  /\ frames' = [frames EXCEPT ![ClaimedFrame] = page]
  /\ pin_count' = [pin_count EXCEPT ![ClaimedFrame] = 1]
  /\ is_dirty' = [is_dirty EXCEPT ![ClaimedFrame] = FALSE]

(***************************************************************************)
(* fetchPage.                                                              *)
(***************************************************************************)
\* Case A: the page is in RAM.
FetchHit(p) ==
  /\ Resident(p)
  /\ pin_count' = [pin_count EXCEPT ![page_table[p]] = @ + 1]
  /\ lru_list' = LruPin(lru_list, page_table[p])
  /\ UNCHANGED <<page_table, frames, free_list, is_dirty, next_page_id,
                 diskVars>>

\* Case B: it is read from the file, after the victim was written.
FetchMiss(p) ==
  /\ ~ Resident(p)
  /\ Claim
  /\ Install(p, disk'[p])
  /\ lru_list' = LruPin(LruAfterClaim, ClaimedFrame)
  /\ UNCHANGED next_page_id

\* Case B without any frame: nullptr.
FetchFails(p) ==
  /\ ~ Resident(p)
  /\ ~ CanClaim
  /\ UNCHANGED poolVars

(***************************************************************************)
(* unpinPage.  The dirty flag is recorded before the pin count is looked   *)
(* at.                                                                     *)
(***************************************************************************)
\* The page is not in RAM: FALSE.
UnpinAbsent(p, dirty) ==
  /\ ~ Resident(p)
  /\ UNCHANGED poolVars

\* An unpinPage that forgets the flags of earlier users.
MarkDirty_FlagOverwritten(f, dirty) ==
  is_dirty' = [is_dirty EXCEPT ![f] = dirty]

MarkDirty(f, dirty) == is_dirty' = [is_dirty EXCEPT ![f] = @ \/ dirty]

\* An unpinPage that counts down without looking for zero.
UnpinIdle_CountsDown(p, dirty) ==
  /\ Resident(p)
  /\ pin_count[page_table[p]] = 0
  /\ MarkDirty(page_table[p], dirty)
  /\ pin_count' = [pin_count EXCEPT ![page_table[p]] = @ - 1]
  /\ UNCHANGED <<page_table, frames, free_list, lru_list, next_page_id,
                 diskVars>>

\* Nobody uses it: FALSE, but the flag sticks.
UnpinIdle(p, dirty) ==
  /\ Resident(p)
  /\ pin_count[page_table[p]] = 0
  /\ MarkDirty(page_table[p], dirty)
  /\ UNCHANGED <<page_table, frames, free_list, lru_list, pin_count,
                 next_page_id, diskVars>>

\* The last user to release the page makes its frame a candidate for eviction.
UnpinPinned(p, dirty) ==
  LET f == page_table[p]
  IN  /\ Resident(p)
      /\ pin_count[f] > 0
      /\ MarkDirty(f, dirty)
      /\ pin_count' = [pin_count EXCEPT ![f] = @ - 1]
      /\ lru_list' = IF pin_count[f] = 1
                     THEN LruUnpin(lru_list, f, PoolSize) ELSE lru_list
      /\ UNCHANGED <<page_table, frames, free_list, next_page_id, diskVars>>

UnpinPage(p, dirty) ==
  UnpinAbsent(p, dirty) \/ UnpinIdle(p, dirty) \/ UnpinPinned(p, dirty)

(***************************************************************************)
(* newPage: the next id, a formatted and clean page, pinned once.          *)
(***************************************************************************)
NewPage ==
  /\ next_page_id < MaxPages
  /\ Claim
  /\ Install(next_page_id, [page_id |-> next_page_id, body |-> ZeroBody])
  /\ lru_list' = LruAfterClaim
  /\ next_page_id' = next_page_id + 1

NewFails ==
  /\ ~ CanClaim
  /\ UNCHANGED poolVars

(***************************************************************************)
(* flushPage and deletePage.                                               *)
(***************************************************************************)
FlushPage(p) ==
  /\ Resident(p)
  /\ WritePage(p, frames[page_table[p]])
  /\ is_dirty' = [is_dirty EXCEPT ![page_table[p]] = FALSE]
  /\ UNCHANGED <<page_table, frames, free_list, lru_list, pin_count,
                 next_page_id>>

\* A page in use cannot be deleted: FALSE.
DeleteRefused(p) ==
  /\ Resident(p)
  /\ pin_count[page_table[p]] > 0
  /\ UNCHANGED poolVars

\* A deletePage that leaves the frame marked dirty.
FreeFrame_StaysDirty(f) ==
  /\ lru_list' = LruPin(lru_list, f)
  /\ free_list' = Append(free_list, f)
  /\ UNCHANGED is_dirty

FreeFrame(f) ==
  /\ lru_list' = LruPin(lru_list, f)
  /\ is_dirty' = [is_dirty EXCEPT ![f] = FALSE]
  /\ free_list' = Append(free_list, f)

DeleteResident(p) ==
  /\ Resident(p)
  /\ pin_count[page_table[p]] = 0
  /\ page_table' = [page_table EXCEPT ![p] = NoFrame]
  /\ FreeFrame(page_table[p])
  /\ UNCHANGED <<frames, pin_count, next_page_id, diskVars>>

DeleteAbsent(p) ==
  /\ ~ Resident(p)
  /\ UNCHANGED poolVars

(***************************************************************************)
(* Destructor: the dirty frames are written in the order of their numbers, *)
(* so of two frames with one header id the higher one is what stays.       *)
(***************************************************************************)
\* A loop over the frames that stops one early.
DirtyFramesOf_LastMissed(p) ==
  {f \in 0 .. PoolSize - 2 : is_dirty[f] /\ frames[f].page_id = p}

DirtyFramesOf(p) == {f \in Frames : is_dirty[f] /\ frames[f].page_id = p}

WriteAllDirty ==
  LET written == {p \in PageIds : DirtyFramesOf(p) # {}}
  IN  /\ disk' = [p \in PageIds |-> IF p \in written
                                   THEN frames[Max(DirtyFramesOf(p))]
                                   ELSE disk[p]]
      /\ file_pages' = Max({file_pages} \cup {p + 1 : p \in written})
=============================================================================
