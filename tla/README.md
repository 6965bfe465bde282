# LuminaDB-Core in TLA+

LuminaDB-Core is an embedded storage engine: a slotted-page file, a buffer pool
with LRU replacement, and a B+ tree from 32-bit keys to record ids. This
directory holds its formal model, the TLC runs that check the model on small
instances, and TLAPS proofs for instances of every size.

## 1. The system

| component | state | operations | used by |
|---|---|---|---|
| `DiskManager` | the file | `writePage`, `readPage` (zero-fills first), `getExistingPageCount` | the pool |
| `LRUReplacer` | list of evictable frames, oldest first | `victim`, `pin`, `unpin` | the pool |
| `BufferPoolManager` | `page_table`, the frames with their headers, `free_list`, `pin_count`, `is_dirty`, `next_page_id` | `fetchPage`, `unpinPage`, `newPage`, `flushPage`, `deletePage`, constructor, destructor | tree, `Database` |
| `BPlusTreePage` (leaf, internal) | header and the arrays of keys and values | `lookup`, `insert`, `split`, `insertAfter` | the tree |
| `BPlusTree` | `root_page_id`, in RAM only | constructor, `getValue`, `insert` (`findLeafPage`, `insertIntoParent`, `createNewRoot`) | `Database` |
| `Page` | header, slot directory, records | `init`, `getFreeSpace`, `insertRecord`, `getRecord` | pool, `Database` |
| `Database` | `next_data_page_id`, owns the others | `insert`, `find`, `exists`, constructor, destructor | the program |
| `User`, `SensorData`, `Course`, `ModelFactory` | none | `getSerializedSize`, `serializeToBuffer`, `deserializeFromBuffer` | `Database` |
| the demo (`main.cpp`) | none | a fixed sequence of calls of `Database` | - |

`Database` stores each object in a page of its own (`newPage`, `insertRecord`,
`unpinPage`) and then puts the key and the page id into the tree. The tree works
on pages through pointers into the pool's frames: `fetchPage` pins, `unpinPage`
releases and says whether the page was changed. The pool talks to the file when
it evicts, when it misses, and in its destructor. All calls are synchronous, and
the program has one thread. The pool has a latch for others, which every method
but `unpinPage` takes.

What is hard here, and what makes each part correct:

- **Buffer pool.** Frames, headers, `page_table`, the two lists, pin counts and
  dirty flags must agree after any sequence of calls; one of them off shows much
  later, as a page that is read from the wrong place. Correct means: a pinned
  page stays where its users point to; no frame is lost; no change is lost, over
  evictions and restarts.
- **Threads.** `unpinPage` changes what the other methods guard with the latch. Whether
  the pool is thread-safe, as its header says, is decided there.
- **Ids.** `next_page_id` is derived from the size of the file, so ids whose pages
  were never written are given out again. This must never hit a page in use.
- **The tree.** Splits move half of a leaf to a new page and have to keep three
  things in step: the linked list of leaves, the separators in the parent, and
  the parent pointers. Correct means that the tree is a table.
- **Slotted pages.** Directory and records grow towards each other, and the
  arithmetic between them is 16 bits wide and wraps.
- **Objects.** Their size is cut to 16 bits on the way into a page, and so is the length
  of every text and list. Correct means that find returns what insert was given.
- **Arrays.** Keys and values of a leaf lie behind each other in one array and are moved
  by `memmove`; a count or an index off by one mixes them.
- **Failure.** `fetchPage` and `newPage` may return `nullptr`; a crash leaves in the
  file what evictions happened to write; the page of the root is not recorded.

`PROJECT.json` lists these hazards one by one with the line where each bites.

## 2. The modules

| module | models | lines of the code |
|---|---|---|
| `LRUReplacer` | the replacer's list, one operator per method | `src/buffer/LRUReplacer.cpp` |
| `BufferPoolManager` | the pool with replacer and file, one operator per path through a method; no client | `src/buffer/BufferPoolManager.cpp`, `src/storage/DiskManager.cpp` |
| `BufferPool` | the pool and any users who keep its contract, restarts and crashes; the properties; the inductive invariant | the callers in `BPlusTree.cpp`, `Database.cpp` |
| `PageStore` | abstract: what the pool promises | - |
| `PoolThreads` | threads that share the pool, `unpinPage` one word at a time | `src/buffer/BufferPoolManager.cpp` |
| `BPlusTreePage` | leaf and internal pages as operators from page to page | `src/index/BPlusTreePage.cpp` |
| `LeafPage` | the leaf with its array and its loops, one step per round | `src/index/BPlusTreePage.cpp` |
| `LeafTable` | abstract: what the tree takes a leaf for | - |
| `BPlusTree` | the tree, one step per call | `src/index/BPlusTree.cpp` |
| `KeyIndex` | abstract: what the tree promises | - |
| `Database` | the whole engine: facade, tree and pool together, one step per call of the pool | `src/database/Database.cpp`, `src/index/BPlusTree.cpp`, `src/index/BPlusTreePage.cpp` |
| `Demo` | `main` over `Database`, run after run | `src/main.cpp` |
| `SlottedPage` | `Page`, with who wrote each byte | `src/storage/Page.cpp` |
| `ObjectStore` | objects, their bytes, and the page that takes them | `src/model/*.cpp`, `src/database/Database.cpp`, `Database.hpp` |
| `BufferPool_proofs`, `PageStore_proofs`, `LeafPage_proofs`, `BPlusTreePage_proofs`, `BPlusTree_proofs`, `Database_proofs`, `ObjectStore_proofs` | theorems and lemmas | - |
| `IntervalInduction` | induction over the natural numbers, and over folds, in the form the provers can use | - |

They build on each other so: `BufferPool`, `PoolThreads` and `Database` extend
`BufferPoolManager`, which extends `LRUReplacer`; `LeafPage`, `BPlusTree` and `Database`
extend `BPlusTreePage`; `Demo` extends `Database`, `ObjectStore` extends `SlottedPage`.
`BufferPool` implements `PageStore`, `BPlusTree` implements `KeyIndex`, `LeafPage`
implements `LeafTable`, and `Database` implements `BufferPool`. `Database_proofs` takes the
lemmas about the pool as an instance of `PageStore_proofs`, `BPlusTree_proofs` and
`LeafPage_proofs` extend `BPlusTreePage_proofs`.

**The pool.** The variables of `BufferPoolManager` are the fields of the class,
plus the file: `disk` is what `readPage` would return for each id, `file_pages` the
file's size. `page_table` is a function to frames, `NoFrame` where the map has no
entry. A page is the `page_id` in its header and an opaque body; the header
matters because an eviction writes and erases under the id *in the frame*, not
under the id it was fetched for. `readPage` of a page that was never written gives
`ZeroPage`, whose header says page 0, as the zero-filled buffer does. `Claim` and
`Install` are the text `fetchPage` and `newPage` share: find a frame, write the
victim, erase its mapping; then enter the new page. Every early return has an
action of its own (`FetchFails`, `UnpinAbsent`, `UnpinIdle`, `NewFails`,
`DeleteRefused`).

`BufferPool` adds users. They hold pins (`holds`), have a pointer (`handle`: the
frame, as a `Page *` does) and write *through the pointer*, so that a page evicted
under its user would be seen as somebody else's page changing. The contract they
keep is in the guards: fetch pages somebody wrote, write only while holding a
pin, and unpin as dirty what was written. All the code of the repository keeps it,
with one exception, switched on by `ProbeEmptyFile`: the constructor of `BPlusTree`
fetches page 0 of an empty file. `Restart` is the destructor and the next
constructor. `Crash` is the next constructor alone, at any moment: pool and users
are gone, and of the pages somebody wrote those are left that an eviction or a flush
got into the file. `PageStore` has `durable` for that: each page in the file has
contents it once had, how old these are is open. `deletePage` and `flushPage` have no
caller in the program and are modelled as public operations anyway.

**Threads.** In `PoolThreads`, `fetchPage` is one step, because it holds the latch from
its first line to its last. `unpinPage` is split where it reads or writes a shared
word, and the decrement into its load and its store, because nothing makes it one.
The language gives such a race no meaning at all; taking its reads and writes to
happen in some order is the mildest reading of it.

**The tree.** A page of the tree is a record, its arrays are sequences; lookup by
halving is "the first place whose key is not below", which is what halving finds
because the keys ascend (`LeavesSorted`, and `LookupRight` in `LeafPage`). `split` is modelled as it is written:
merge, cut in the middle, and refill both halves with `insert`, which refuses the
second of two equal keys. A call of the tree is one step, because the program has
one thread and the calls of the pool are taken to succeed. `Insert` has four
alternatives: the leaf takes the entry; the root leaf splits; a leaf splits under a
parent with room; a leaf splits under a full parent, where the code says TODO and
drops the separator. `Duplicates` and `Reopens` say how the callers use the tree;
`given` is a history variable. `ArraysInsert` looks at the arrays of the internal pages
the runs reach: keys and children are moved in one array of cells, with the counts and
places of `insertAfter`, and the result must be the two sequences with one more each.

**The leaf.** `LeafPage` has one array of cells, keys in front and values behind, with
whatever earlier contents left behind the last entry, and an index for each loop. A
step is one round of a loop. `lookup` is the search by halving, `insert` the search and
then two `memmove`, `split` the merge of old entries and the new one into temporary
arrays and then one `insert` after the other into either half. After a split the run
goes on with either half. `LeafTable` says the same without arrays and loops, in the
operators that `BPlusTree` and `Database` use, so that the run justifies these.

**The engine.** `Database` extends `BufferPoolManager` and `BPlusTreePage` and adds the
facade and the tree once more, this time as the sequence of calls of the pool they
are. `pc` is the place in the code, `call` holds the local variables of the call in
progress, `held` the pointers the thread has and has not given back (`Page *` in
the code). Each step reads or writes through such a pointer, or makes one call of
the pool, so evictions fall exactly where they fall in the program. Labels follow
the functions: `open` ... `formatted` the constructor of `BPlusTree`, `store` ...
`recorded` `storeObject`, `walk` and `at` `findLeafPage`, `retrieve` and `copy`
`retrieveObjectBuffer`, `init` ... `split` the split of a leaf, `propagate` ...
`parentdone` `insertIntoParent`, `newroot` ... `adopted` `createNewRoot`. The steps of a
split come in the order of the code: merge into temporary arrays (`call.merged`) and
`newPage`, format the sibling, cut the leaf, fill the sibling, link the two, unpin the
sibling, and only then read the key to promote, through the pointer just given back. A null
pointer that `storeObject` or `retrieveObjectBuffer` gets becomes an exception
(`Throws`), as it does there, and the thread is back at `idle`. The tree does not
look at the pointers it gets: where it would use a null pointer, `Database` has no next
step, the call never returns, and `NoNullUsed` names the state. An object
is named by its key, which is what it takes to see that find returns the right
one. `fits` says whether it fits into a page; where the limit is, `SlottedPage`
says. `UsesPoolWell` is the link to `BufferPool`: it maps `held` to the pins and
pointers of its users and `changed` to their unsaved changes, and claims that this
program is one of the users described there. What is proved of `BufferPool` for
every user then holds for this one. `IndInv` says what the thread knows at each
label: which pages it holds and which of these it changed (`HoldsItsPages`), that free frames have
no pins (`FreeUnpinned`), that the pages hold a tree (`TreeStands`), and how far the
call has come with it (`KnowsItsCall`). The last two speak of `Contents`, the bodies
`fetchPage` would deliver, wherever they are at the moment. `KeysInPlace` says for callers
who lose no keys where each key is at every label, in the middle of a split too.

**The demo.** `Script` is the calls of `main` in their order, on the keys it uses. What
`main` does with an answer matters in two places: it calls `find` only if `exists` said
TRUE, and an exception nobody catches ends the run early. `RunAgain` closes the
database, as the destructor does in either case, and opens it.

**The slotted page.** `bytes` says who wrote each byte: nobody, record i or slot i.
Contents of records are not needed to say that they survive. All arithmetic on
`uint16_t` is modulo `Word`.

**Objects.** In `ObjectStore` the bytes of an object are pieces: where a field begins,
how long it is, what it says. A field is read rightly if such a piece lies exactly
where the reader looks, and whole inside the buffer. Texts and lists of students are
told apart by their lengths alone; the field in front of them has 16 bits and
`serializeToBuffer` writes as much of the text as that field says. `StoreObject` then
puts `getSerializedSize` bytes, cut to 16 bits, into a new page, and other records may
follow. `Found` reads back what the page has.

## 3. The runs

| run | question | result |
|---|---|---|
| `BufferPool` | does the pool keep pages, pins and frames straight, with restarts and crashes, and does it implement `PageStore`? | holds |
| `PoolThreads` | do pointers stay good with two threads? | **violated** |
| `LeafPage` | do arrays and loops of the leaf do what `LeafTable` says, and end? | holds |
| `BPlusTree` | is the tree a table, for distinct keys that fit under one root? | holds |
| `BPlusTreeAnyUse` | what is left of it with duplicates, a full root and reopening? | holds |
| `BPlusTreeDuplicates` | is a duplicate refused? | **violated** |
| `BPlusTreeRootFull` | do keys survive a split under a full root? | **violated** |
| `Database` | do facade, tree and pool together answer rightly, return, and leave nothing pinned? | holds |
| `DatabaseAnyUse` | is an answer ever another key's object, whatever the callers do? | never |
| `DatabaseEmptyFile` | does every call return on a database that was just created? | **violated** |
| `Demo` | does the demo find what its earlier runs stored? | **violated** |
| `ObjectStore` | are records and directory safe, is the free space exact, does an object come back as it was? | holds |

**Bounds.** `BufferPool`: 2 frames, 3 pages, 2 bodies, 2 pins per page. Two frames
are the fewest with which one page can be pinned while another is evicted, three
pages the fewest that do not fit; two pins show the difference between a page
somebody released and one everybody released; two bodies tell a change from the old
contents. The first state is any file an earlier session can have left, with holes.
`PoolThreads`: one frame, two pages and two threads are the fewest with which a page
can be evicted under its user; the pages were all written in an earlier session.

`LeafPage`: a leaf of 4 and 5 keys, so that a full leaf is split with the new entry at
every place and halved; a refused duplicate is split as well, in a leaf of any number
of entries, so that even and odd numbers and a half of one entry occur; two values tell entries of the same key apart.
`BPlusTree`: leaves of 2, an internal page of 4 and 6 keys give trees of up to five
leaves, with splits of the root, of leaves in the middle and at both ends. The six
pages are as many as one root can have with its leaves, `InternalMax` + 2.
Leaves of 2 are split into 1 and 2, the uneven cut the code makes for every even
`max_size`, 250 among them. `BPlusTreeAnyUse`: a root that is full with its second
child, so that separators are dropped early.

`Database`: two frames are the fewest a split needs, and make every other fetch an
eviction; leaves of 1, 3 keys and 8 pages give a split of the root and one under
the root, in every order of keys, with objects that do not fit and lookups between
them. `DatabaseAnyUse` has an internal page of 1 key, so that the second split meets
a full root, and 3 frames: with 2 the changed root itself is evicted and written
before the frame of the probe is, and the hang of `DatabaseEmptyFile` does not occur.
`Demo` has the sizes of the program: 20 frames, pages of 250 keys, and 60 pages, more
than three runs write.

`ObjectStore`: a page of 44 bytes has room for 28 bytes of record behind its first
slot. The sizes of records hit that limit from both sides, also with two and three
records, and 65530 is a size whose sum with the slot does not fit into 16 bits. The
lengths of texts and lists make objects that just fit and just do not, objects just
below and at 65536 bytes, and objects whose size modulo 2^16 fits into the page again
(a name of 65556, a course of 16384 students).

`CHECK_DEADLOCK FALSE` stands in the runs of `BPlusTree` alone, where the system
really ends: the keys or the bounded pages of the tree are used up.

**Fairness.** `Database` and `LeafPage` assume weak fairness of `Work`: the only thread
goes on with a call it is in. Nothing is assumed of `Calls`: nobody has to make
another call. `Work` is enabled all through a call and no other step is, so weak
fairness is enough. The other specifications are about safety and assume none.

**What the violations show.**
- *Empty file.* `fetchPage(0)` maps page 0 to a frame, `newPage` gives out id 0 again
  and maps it to another. When the first frame is evicted, `page_table` loses the
  root, whose changes are only in RAM. `fetchPage(0)` then reads zero bytes, which
  look like an internal page whose only child is page 0, and `findLeafPage` does not
  return. With the default pool of 10 frames this is the ninth insert into a new
  database.
- *Duplicates.* `BPlusTreeLeafPage::insert` returns `false` for a stored key and for a
  full leaf; the caller splits in both cases.
- *Full root.* The separator is dropped; the header of `BPlusTree` admits that the
  method is incomplete, the README of the repository promises internal splits.
- *Threads.* The header of the pool promises thread safety. One thread loads the pin
  count 1 in `unpinPage`, another fetches the page and makes it 2, the first stores 0
  and gives the frame to the replacer. The next fetch of another page takes the frame
  while the second thread works on it.
- *The demo.* The README of the repository says that the demo resumes the tree from
  its persisted root. The root moves with the first split, but page 0 is taken for the
  root of every file. The second run inserts its keys again, and one of them splits
  page 0 (see *Duplicates*). The third run does not find what the first two stored.
  The file grows over five runs to 8, 22, 32, 41 and 50 pages, in the model as in the
  program.

Two more things came up that contradict nothing the repository says of the program's
results, and have no run:
- `newPage` takes its id by reference and overwrites the one that `allocateDataPage`
  gave (`Database.cpp` lines 47 and 48). The comment in line 7 expects data pages to start
  at 1000; they lie between the pages of the tree. The record id stored is the right one.
- The size of an object is cut to 16 bits before `insertRecord` compares it with the free
  space, so an object of 65536 bytes or more may be accepted with a part of its bytes:
  a user with a name of 65556 characters is stored in 28 bytes and comes back with a
  name of 20. `RoundTrip` is therefore stated for smaller objects, and no run shows this.

## 4. The proofs

For every number of frames, pages, pins and bodies, and with `ProbeEmptyFile =
FALSE`, `BufferPool_proofs` proves

- `PoolInvariant`: `Spec => []IndInv`, and from it
- `TypeCorrect`, `PinnedPagesStay`, `NoFrameLost`, `ChangesAreFound`, `NoPageLost`,
  `CrashLeavesPages`.

`PinnedStay`, `FramesAccounted`, `DirtyIsFound` and `LivePagesSafe` are not inductive by
themselves. `SessionInv` adds that page table and headers agree (`HeadersMatch`: else an
eviction erases the wrong mapping), that pin counts are the users' pins page by
page (`PinsMatch`: else the count of another page reaches zero), that unsaved changes
have a holder (`UnsavedHeld`: else an eviction loses them), and that pages in RAM or
in the file have ids below `next_page_id` (`IdsGivenOut`: else `newPage` hits a page in
use). `IndInv` is `SessionInv` and `FileHonest`: for a crash it has to be known at any moment
what the file alone says, without the frames. A crash turns `FileHonest` of the old
session into `LivePagesSafe` of the new one, and every operation that writes to the file
writes a frame under the id in its header. The argument has one lemma per operation of the pool; the lemmas about the
claim of a frame are shared by `fetchPage` and `newPage`, and those about the
replacer's list stand in front of them. A pigeonhole argument
(`RoomLeft`) shows that the capacity test of `unpin` never drops a frame. The assumption
`ProbeEmptyFile = FALSE` is needed: with `TRUE`, one fetch and two `newPage` violate
`DirtyIsFound`, and `DatabaseEmptyFile` shows what becomes of it.

`PageStore_proofs` proves under the same assumption

- `PoolIsPageStore`: `Spec => ImplementsPageStore`, the refinement, and
- `WrittenPagesAreNeverBlank` (`WrittenOrBlank`), which it needs on the way.

`IndInv` says where a page is, and for the refinement it has to be known what is in
it, too: `StoreInv` is `IndInv` and `WrittenOrBlank`. Without its second half, a user's
first change to a new page would bring back, for the eyes of a crash, what a former
page left in the file under that id. One lemma per operation says for each page by
itself what becomes of its contents, its place in the file and its pins (`FetchIsPin`
and so on, with the eviction in `InstallKeepsOthers`), and another one puts these
together into the step of `PageStore`.

`ObjectStore_proofs` proves, for every page size below 2^16, any record sizes, and
objects of any lengths,

- of the page: `PageInvariant` (`Spec => []IndInv`), `RecordsStayIntact`,
  `DirectoryStaysIntact` and `FreeSpaceIsExact`;
- of objects in it: `ObjectPagesInvariant` (`ObjectSpec => []IndInv`), `ObjectsRoundTrip`
  and `ObjectsSerializeInBuffer`.

The strengthening for the page is `Layout`: directory, gap and records in this order, so
that the 16-bit differences do not wrap. The free space is stated by a fold over the
records; the lemma in front of the theorem says what one record more does to it.
For `RoundTrip` it is enough to know of later records that they leave the slot of the
object as it was; the rest is where its fields begin and end.

`LeafPage_proofs` proves, for leaves of every size and any keys and values,

- `LeafInvariant`: `Spec => []IndInv`, and from it
- `LeafTypes` (`TypeOK`), `KeysAscend` (`Sorted`), `HalvingFindsThePlace` (`LookupRight`),
  `InsertIsLeafInsert` (`InsertsEntry`);
- `LeafSplits` (`Splits`), and with it
- `LeafIsATable`: `Spec => ImplementsLeafTable`, the refinement.

`Sorted` is not inductive: that `insert` puts a key in order depends on where `lookup`
stopped, and so on what each round of its loop keeps, `Narrows`: everything before
`low` is below the key, everything from `index` on is not, and `high + 1 = index`.
`Merges` bounds the loops of `split` by the size of its temporary arrays. One lemma
(`InsertShifts`) says cell by cell what the two `memmove` of `insert` leave; `Sorted`
follows from it for the keys, and `InsertsEntry` for keys and values together, by
comparing element by element with `InsertAt` on the sequence of entries. `Splits` says of every
moment of a split which of the merged entries have been dealt to which half, and the
refinement reads the leaf from it once the last one is.

`BPlusTreePage_proofs` has the lemmas about the operators on pages: where a lookup ends,
what an insert does to an ascending leaf (`LeafInsertKeeps`), that merge and halves of a
split have the old entries and the new one, half of them on either side
(`HalvesAre`), and what `insertAfter` does to keys, children and their array of cells.
A leaf is refilled by a fold of `LeafInsert`; `IntervalInduction` makes an induction over
such a fold available to the provers, which cannot instantiate the library's
theorems: a set of numbers that contains 0 and with each number the next contains
them all, from the well-foundedness of the numbers, and a fold is the function that it is
defined by.

`BPlusTree_proofs` proves, for pages of any size and any number of keys,

- for any use, with duplicates, full roots and reopening: `TreeInvariant` (`Spec =>
  []IndInv`), `TreeTypes`, `LeavesStaySorted`, `DescentsEnd` (`TwoLevels`), `NoKeyVanishes`
  (`NothingVanishes`), `AnswersAreSound` (`SoundLookup`), `ArraysAreShifted` (`ArraysInsert`);
- for `~ Duplicates` and `~ Reopens`: `TreeProperUse` (`ProperUse`), and if the pages are no
  more than fit under one root, `MaxPages <= InternalMax + 2`: `TreeFinds` (`Finds`),
  `TreeInOrder` (`InOrder`) and `TreeIsATable`, the refinement of `KeyIndex`.

`IndInv` says that the leaves, those too that no lookup reaches any more, are one list
(`OneList`), that there are at most two levels (`TwoLevelsDeep`), and that the
leaves hold what callers gave (`HoldsGiven`). `ProperUse` adds that every leaf is a child of the
root and has the keys between two separators, in the order of the list. All
three hypotheses are needed: `BPlusTreeDuplicates` and `BPlusTreeRootFull` show what happens
without the first and the last, and the `Demo` without the second.

`Database_proofs` proves, for pools, pages and keys of every number and any use by the
callers, and for `EmptyFile = FALSE`,

- `EngineKnowsItsPages`: `Spec => []IndInv`, and from it
- `NothingStaysPinned` (`NothingPinned`), `AnswersAreSound` (`AnswersSound`), and for a pool
  of two frames or more `NullIsNeverUsed` (`NoNullUsed`);
- `EngineUsesPoolWell`: `Spec => UsesPoolWell`, so the engine is one of the users of the pool
  in `BufferPool`, and
- `EnginePagesAreStored`: the same with the real bodies of pages, so that what is
  proved of the contents of pages holds of the engine's pages.

The argument for these has three layers. The pool: as long as the thread keeps the contract, the
invariant of `BufferPool` holds of its frames, and each call of the pool changes the
contents of no page (`P!FetchIsPin` and its like, taken from `PageStore_proofs`). The
tree: therefore a step of the engine changes `Contents` only where it writes through a
pointer, and what it writes keeps `TreeStands` and `KnowsItsCall`. The contract: these in
turn say that every page fetched is one somebody wrote, because ids come from the
root, its children and the entries of leaves. The three are proved together as one
invariant, `Inv`, step by step. `EmptyFile = FALSE` is needed, as the run
`DatabaseEmptyFile` shows.

About callers who use the engine properly, `EmptyFile = FALSE`, `~ Duplicates` and
`~ MovedRootToo`, it proves

- `ProperUseAnswersRight`: `Spec /\ RootNeverFull => [](KeysInPlace /\ AnswersRight)`, and
- `SmallFileStaysProper` (`KeysInPlace`) and `SmallFileAnswersRight` (`AnswersRight`): the same
  without `RootNeverFull` if `MaxPages <= 2 * InternalMax + 4`, which is 504 pages with the
  sizes of the code.

`TreeStands` leaves open whether a lookup goes to the leaf that has the key, and between
the steps of a split some keys are in a page nothing refers to, or in no page at all.
`KeysInPlace` says where they are: at every label, the leaves where descents end and the
upper half a split still has to hang in (`Pending`) have the stored keys and the one being
inserted (`HoldsStored`). That half (`Upper`) is in the temporary arrays alone from the
cut of the leaf until the sibling is filled, and in the sibling from then on. Each key of a
leaf is one whose descent ends there (`RootSorts`), and the separator is between the lower
half and the pending one, descents for whose keys still end at the lower (`Separates`). So
the last step of a split,
`insertAfter` or the new root, sends them where they are (`RootSends`, `TwoChildren`), and in all
other steps neither leaves nor root change. Each hypothesis is needed: the
runs `BPlusTreeDuplicates`, `BPlusTreeRootFull`, `Demo` and `DatabaseEmptyFile` show what happens
without it. `RootNeverFull` is a condition on the behaviour, that the TODO branch of
`insertIntoParent` is not taken; for small files a pigeonhole argument (`ParentHasRoom`)
discharges it, since every leaf of the tree, the new one included, has a key and every
key a data page of its own.

Assumptions are those on the constants, named in the modules, no others.

Only model-checked: the engine on an empty file (`AnswersSound` in `DatabaseAnyUse`, which
`AnswersAreSound` proves for existing files); that the loops of a leaf end (`LoopsEnd`) and that
calls of the engine return (`CallsReturn`), because liveness and `ENABLED` are out of the prover's reach; and what the
runs refute. Every other property of a passing run is a theorem.

## 5. Not modelled

- `Database::remove`: it returns false and does nothing. Setters, `LRUReplacer::Size` and
  `ModelFactory::create` have no caller.
- `find` with another type than the object was inserted with: nothing in the engine
  reads `object_type`, and a caller who mixes types up reads bytes as other fields.
- What a crash does to the tree: pages of the file are each as old as they are, so a
  parent may name a leaf the file does not have. The README of the repository promises
  nothing after a crash, so there is nothing to check beyond `FileHonest`.
- Writes that fail or reach the file in part, and the cache of the operating system:
  no call of `DiskManager` reports an error, and none syncs.
- Random values of the demo, and its output.
- More than one thread above the pool: `Database` and `BPlusTree` have no latch and
  promise nothing to threads.

## 6. Plan

`AnswersSound` on an empty file, as a theorem: there two frames may say page 0, so the
invariant of the pool does not hold, and the argument has to say which of the two the
table finds.
