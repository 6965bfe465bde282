------------------------------- MODULE Database -------------------------------
(***************************************************************************)
(* Database: the whole engine.  The facade stores an object in a page of   *)
(* its own and puts the page's id into the B+ tree; both work on pages     *)
(* through the buffer pool.                                                *)
(*                                                                         *)
(* The program has one thread.  pc is where it stands; between two calls   *)
(* of the pool it does one step, and each call of the pool is one step, so *)
(* that evictions fall where they fall in the code.  What a step writes it *)
(* writes through the pointer an earlier step got.                         *)
(*                                                                         *)
(* The body of a page is a node of the tree, a record, or ZeroBody.        *)
(***************************************************************************)
EXTENDS BufferPoolManager, BPlusTreePage

CONSTANTS
  Keys,           \* the keys callers use
  Nothing,        \* "key not found", or no answer at all
  EmptyFile,      \* does the first session find an empty file?
  Duplicates,     \* do callers insert keys they inserted before?
  MovedRootToo    \* is the database closed when the root has left page 0?

ASSUME KeysAssumption    == Keys \subseteq Nat
ASSUME NothingAssumption == Nothing \notin Keys
ASSUME UseAssumption     == {EmptyFile, Duplicates, MovedRootToo} \subseteq BOOLEAN

FirstDataPage == 1000

VARIABLES
  root_page_id,
  next_data_page_id,
  pc,       \* where the thread stands
  call,     \* the call in progress, with its local variables
  held,     \* page id -> pointer, for the pages the thread holds a pointer to
  answer,   \* what the last lookup returned, until the next call
  stored,   \* history: the keys for which insert returned TRUE
  changed   \* history: pages written to and not yet unpinned as dirty

dataVars == <<root_page_id, next_data_page_id, stored>>
vars == <<poolVars, dataVars, pc, call, held, answer, changed>>

\* Local variables: fits says whether the object fits into a page, rid is the
\* RecordID (its slot is always the first), page the page of the tree the call
\* works on, up its parent.  merged are the temporary arrays of a split.
NoCall == [op |-> "none", key |-> Nothing, fits |-> TRUE, rid |-> 0, page |-> 0,
           merged |-> << >>, sibling |-> 0, separator |-> Nothing, up |-> 0]

NoAnswer == [key |-> Nothing, object |-> Nothing]
Answer(object) == [key |-> call.key, object |-> object]
NoneHeld == [p \in {} |-> NoFrame]

\* The object stored under a key is named by the key.
Record(key) == [record |-> key]

\* What a page can hold.
EntryRecords == [key : Keys, value : PageIds]

LeafBodies ==
  [is_leaf : {TRUE}, entries : Seq(EntryRecords), parent : PageIds, next : PageIds]

InternalBodies ==
  [is_leaf : {FALSE}, keys : Seq(Keys), children : Seq(PageIds), parent : PageIds]

Bodies == LeafBodies \cup InternalBodies \cup [record : Keys]

ASSUME ZeroBodyAssumption == ZeroBody \notin Bodies

\* Zero bytes read as an internal page without keys, whose only child is page 0.
AsNode(body) == IF body = ZeroBody THEN Internal(<< >>, <<0>>, 0) ELSE body

\* Such a page has max_size 0, so it takes no key.
TakesKey(node) == node.keys # << >> /\ HasRoom(node)

Header(p)  == frames[held[p]].page_id
Node(p)    == AsNode(frames[held[p]].body)
Entries(p) == Node(p).entries

(***************************************************************************)
(* What the thread does with the pool, and where it goes from there.       *)
(***************************************************************************)
Goto(label, c) == pc' = label /\ call' = c

\* The call returns, or throws.
Finish(from, a) ==
  pc = from /\ Goto("idle", NoCall) /\ answer' = a /\ UNCHANGED dataVars

\* insert returns TRUE.
InsertReturns(from) ==
  /\ pc = from /\ Goto("idle", NoCall)
  /\ stored' = stored \cup {call.key}
  /\ UNCHANGED <<root_page_id, next_data_page_id, answer>>

\* Most steps: on to the next label, with local variables c.
Step(from, to, c) == pc = from /\ Goto(to, c) /\ UNCHANGED <<dataVars, answer>>

Holding(p, frame) ==
  [q \in DOMAIN held \cup {p} |-> IF q = p THEN frame ELSE held[q]]

Fetch(p) ==
  /\ FetchHit(p) \/ FetchMiss(p)
  /\ held' = Holding(p, page_table'[p])
  /\ UNCHANGED changed

New ==
  /\ NewPage
  /\ held' = Holding(next_page_id, ClaimedFrame)
  /\ UNCHANGED changed

Write(p, body) ==
  /\ frames' = [frames EXCEPT ![held[p]].body = body]
  /\ changed' = changed \cup {p}
  /\ UNCHANGED <<page_table, free_list, lru_list, pin_count, is_dirty,
                 next_page_id, diskVars, held>>

Unpin(p, dirty) ==
  /\ UnpinPage(p, dirty)
  /\ held' = Restrict(held, DOMAIN held \ {p})
  /\ changed' = IF dirty THEN changed \ {p} ELSE changed

(***************************************************************************)
(* Constructor: is there a root in page 0?                                 *)
(***************************************************************************)
Init ==
  /\ file_pages = IF EmptyFile THEN 0 ELSE 1
  /\ disk = [p \in PageIds |->
               IF p < file_pages
               THEN [page_id |-> p, body |-> Leaf(<< >>, 0, NoNext)]
               ELSE ZeroPage]
  /\ PoolInit
  /\ root_page_id = 0 /\ next_data_page_id = FirstDataPage
  /\ pc = "open" /\ call = NoCall /\ held = NoneHeld
  /\ answer = NoAnswer /\ stored = {} /\ changed = {}

OpenFetch == Step("open", "probe", call) /\ Fetch(0)

\* max_size is not 0 in the header of a page the tree has written.
ValidRoot == Header(0) = 0 /\ (Node(0).is_leaf \/ Node(0).keys # << >>)

OpenProbe ==
  /\ Step("probe", IF ValidRoot THEN "idle" ELSE "create", call)
  /\ Unpin(0, FALSE)

CreateNew ==
  /\ pc = "create"
  /\ New
  /\ Goto("format", call)
  /\ root_page_id' = next_page_id
  /\ UNCHANGED <<next_data_page_id, stored, answer>>

CreateFormat ==
  /\ Step("format", "formatted", call)
  /\ Write(root_page_id, Leaf(<< >>, 0, NoNext))

CreateDone == Step("formatted", "idle", NoCall) /\ Unpin(root_page_id, TRUE)

(***************************************************************************)
(* storeObject: the object gets a page of its own.  The id that            *)
(* allocateDataPage gives is overwritten by newPage.                       *)
(***************************************************************************)
\* An insert takes three pages at most: for the object, a leaf and a root.
PagesLeft == next_page_id + 3 <= MaxPages

Insert(key, fits) ==
  /\ pc = "idle" /\ PagesLeft
  /\ Duplicates \/ key \notin stored
  /\ Goto("store", [NoCall EXCEPT !.op = "insert", !.key = key, !.fits = fits])
  /\ next_data_page_id' = next_data_page_id + 1
  /\ answer' = NoAnswer
  /\ UNCHANGED <<poolVars, root_page_id, stored, held, changed>>

\* The call throws, and has done nothing to the pool.
Throws(from) == Finish(from, NoAnswer) /\ UNCHANGED <<poolVars, held, changed>>

\* A RecordID with the id that allocateDataPage gave.
StoreNew_AllocatedId ==
  Step("store", "record", [call EXCEPT !.rid = next_data_page_id - 1]) /\ New

StoreNew ==
  IF CanClaim
  THEN Step("store", "record", [call EXCEPT !.rid = next_page_id]) /\ New
  ELSE Throws("store")

\* insertRecord.
StoreRecord ==
  /\ call.fits
  /\ Step("record", "recorded", call)
  /\ Write(call.rid, Record(call.key))

\* An exception that leaves the page pinned.
StoreThrows_PinKept == ~ call.fits /\ Throws("record")

\* The object is too large: storeObject throws, insert returns FALSE.  The page
\* is given up.
StoreThrows ==
  /\ ~ call.fits
  /\ Finish("record", NoAnswer)
  /\ Unpin(call.rid, FALSE)

StoreDone ==
  /\ Step("recorded", "walk", [call EXCEPT !.page = root_page_id])
  /\ Unpin(call.rid, TRUE)

(***************************************************************************)
(* findLeafPage.                                                           *)
(***************************************************************************)
Lookup(op, key) ==
  /\ pc = "idle"
  /\ Goto("walk", [NoCall EXCEPT !.op = op, !.key = key, !.page = root_page_id])
  /\ answer' = NoAnswer
  /\ UNCHANGED <<poolVars, dataVars, held, changed>>

WalkFetch == Step("walk", "at", call) /\ Fetch(call.page)

AtLeaf == pc = "at" /\ Node(call.page).is_leaf

\* A descent that forgets to go on to the child.
WalkDown_PageKept ==
  /\ ~ AtLeaf
  /\ Step("at", "walk", call)
  /\ Unpin(call.page, FALSE)

WalkDown ==
  /\ ~ AtLeaf
  /\ Step("at", "walk",
          [call EXCEPT !.page = InternalLookup(Node(call.page), call.key)])
  /\ Unpin(call.page, FALSE)

(***************************************************************************)
(* getValue, and what find does with the RecordID it gets.                 *)
(***************************************************************************)
HasKey == LeafHas(Entries(call.page), call.key)
Found  == Entries(call.page)[LeafLookup(Entries(call.page), call.key)].value

GetValueMisses ==
  /\ AtLeaf /\ call.op # "insert" /\ ~ HasKey
  /\ Finish("at", Answer(Nothing))
  /\ Unpin(Header(call.page), FALSE)

GetValueHits ==
  /\ AtLeaf /\ call.op # "insert" /\ HasKey
  /\ IF call.op = "exists" THEN Finish("at", Answer(call.key))
     ELSE Step("at", "retrieve", [call EXCEPT !.rid = Found])
  /\ Unpin(Header(call.page), FALSE)

RetrieveFetch ==
  IF Resident(call.rid) \/ CanClaim
  THEN Step("retrieve", "copy", call) /\ Fetch(call.rid)
  ELSE Throws("retrieve")

\* A page without a record has no slot: find throws.
RecordOf(body) == IF body = ZeroBody THEN Nothing ELSE body.record

RetrieveCopy ==
  /\ Finish("copy", Answer(RecordOf(frames[held[call.rid]].body)))
  /\ Unpin(call.rid, FALSE)

(***************************************************************************)
(* insert: the leaf takes the entry, or is split.                          *)
(***************************************************************************)
NewEntry == Entry(call.key, call.rid)

LeafTakes ==
  /\ AtLeaf /\ call.op = "insert" /\ LeafAccepts(Entries(call.page), call.key)
  /\ Step("at", "inserted", call)
  /\ Write(call.page, [Node(call.page) EXCEPT !.entries = LeafInsert(@, NewEntry)])

\* A leaf that is changed, but not unpinned as dirty.
LeafTakesDone_NotDirty == InsertReturns("inserted") /\ Unpin(Header(call.page), FALSE)

LeafTakesDone == InsertReturns("inserted") /\ Unpin(Header(call.page), TRUE)

LeafRefuses ==
  AtLeaf /\ call.op = "insert" /\ ~ LeafAccepts(Entries(call.page), call.key)

\* split, steps 1 to 4: the entries are merged before the sibling is there.
SplitNew ==
  /\ LeafRefuses
  /\ Step("at", "init", [call EXCEPT !.merged  = Merged(Entries(call.page), NewEntry),
                                     !.sibling = next_page_id])
  /\ New

SplitInit ==
  /\ Step("init", "cut", call)
  /\ Write(call.sibling, Leaf(<< >>, Node(call.page).parent, NoNext))

\* step 5: from here until the sibling is filled, the upper half is in the
\* temporary arrays alone;
SplitCut ==
  /\ Step("cut", "fill", call)
  /\ Write(call.page, [Node(call.page) EXCEPT !.entries = LeftHalf(call.merged)])

\* and step 6, the links.
SplitFill ==
  /\ Step("fill", "link", call)
  /\ Write(call.sibling, [Node(call.sibling) EXCEPT !.entries = RightHalf(call.merged),
                                                   !.next = Node(call.page).next])

SplitLink ==
  /\ Step("link", "halved", call)
  /\ Write(call.page, [Node(call.page) EXCEPT !.next = call.sibling])

\* The key to promote is read when the sibling is unpinned already, through the
\* pointer there was: no call of the pool comes between.
SplitUnpinSibling ==
  /\ Unpin(call.sibling, TRUE)
  /\ LET sibling == frames'[held[call.sibling]].body
     IN  Step("halved", "split", [call EXCEPT !.separator = sibling.entries[1].key])

SplitUnpinLeaf ==
  /\ Step("split", "propagate", call)
  /\ Unpin(Header(call.page), TRUE)

(***************************************************************************)
(* insertIntoParent.                                                       *)
(***************************************************************************)
ParentFetchLeft == Step("propagate", "left", call) /\ Fetch(call.page)

\* A left leaf that stays pinned while its parent is worked on.
ParentReadLeft_PinKept ==
  /\ Step("left", IF call.page = root_page_id THEN "newroot" ELSE "parent",
          [call EXCEPT !.up = Node(call.page).parent])
  /\ UNCHANGED <<poolVars, held, changed>>

ParentReadLeft ==
  /\ Step("left", IF call.page = root_page_id THEN "newroot" ELSE "parent",
          [call EXCEPT !.up = Node(call.page).parent])
  /\ Unpin(call.page, FALSE)

ParentFetch == Step("parent", "insertafter", call) /\ Fetch(call.up)

ParentInsert ==
  /\ Step("insertafter", "parentdone", call)
  /\ TakesKey(Node(call.up))
  /\ Write(call.up, InsertAfter(Node(call.up), call.separator, call.sibling))

ParentDone == InsertReturns("parentdone") /\ Unpin(call.up, TRUE)

\* The parent is full: nothing is done with the separator.
ParentFull ==
  /\ InsertReturns("insertafter")
  /\ ~ TakesKey(Node(call.up))
  /\ Unpin(call.up, FALSE)

(***************************************************************************)
(* createNewRoot.  The children are told of the new root one after the     *)
(* other; call.page runs over both.                                        *)
(***************************************************************************)
RootNew ==
  /\ Step("newroot", "rootwrite", [call EXCEPT !.up = next_page_id])
  /\ New

RootWrite ==
  /\ Step("rootwrite", "rootdone", call)
  /\ Write(call.up, Internal(<<call.separator>>, <<call.page, call.sibling>>, 0))

RootUnpin == Step("rootdone", "child", call) /\ Unpin(call.up, TRUE)

ChildFetch == Step("child", "adopt", call) /\ Fetch(call.page)

ChildAdopt ==
  /\ Step("adopt", "adopted", call)
  /\ Write(call.page, [Node(call.page) EXCEPT !.parent = call.up])

LeftDone ==
  /\ call.page # call.sibling
  /\ Step("adopted", "child", [call EXCEPT !.page = call.sibling])
  /\ Unpin(call.page, TRUE)

\* A new root that the tree does not start from.
RightDone_RootKept ==
  /\ pc = "adopted" /\ call.page = call.sibling
  /\ InsertReturns("adopted")
  /\ Unpin(call.page, TRUE)

RightDone ==
  /\ pc = "adopted" /\ call.page = call.sibling
  /\ Goto("idle", NoCall)
  /\ Unpin(call.page, TRUE)
  /\ stored' = stored \cup {call.key}
  /\ root_page_id' = call.up
  /\ UNCHANGED <<next_data_page_id, answer>>

(***************************************************************************)
(* The calls of the pool the next step makes.  Where it returns nullptr,   *)
(* storeObject and retrieveObjectBuffer throw; the tree uses the pointer,  *)
(* and the program has no next step.                                       *)
(***************************************************************************)
FetchTarget ==
  CASE pc \in {"open", "walk", "propagate", "child"} -> {call.page}
    [] pc = "retrieve" -> {call.rid}
    [] pc = "parent"   -> {call.up}
    [] OTHER           -> {}

NeedsFrame == \/ pc \in {"create", "store", "newroot"} \/ LeafRefuses
              \/ \E p \in FetchTarget : ~ Resident(p)

\* The destructor, and the constructors of the next session.
CloseAndOpen ==
  /\ pc = "idle" /\ (MovedRootToo \/ root_page_id = 0)
  /\ WriteAllDirty
  /\ PoolRestart
  /\ root_page_id' = 0 /\ next_data_page_id' = FirstDataPage
  /\ Goto("open", NoCall)
  /\ held' = NoneHeld /\ answer' = NoAnswer
  /\ UNCHANGED <<stored, changed>>

Calls ==
  \/ \E key \in Keys, fits \in BOOLEAN : Insert(key, fits)
  \/ \E key \in Keys, op \in {"find", "exists"} : Lookup(op, key)
  \/ CloseAndOpen

Work ==
  \/ OpenFetch \/ OpenProbe \/ CreateNew \/ CreateFormat \/ CreateDone
  \/ StoreNew \/ StoreRecord \/ StoreThrows \/ StoreDone
  \/ WalkFetch \/ WalkDown
  \/ GetValueMisses \/ GetValueHits \/ RetrieveFetch \/ RetrieveCopy
  \/ LeafTakes \/ LeafTakesDone
  \/ SplitNew \/ SplitInit \/ SplitCut \/ SplitFill \/ SplitLink
  \/ SplitUnpinSibling \/ SplitUnpinLeaf
  \/ ParentFetchLeft \/ ParentReadLeft \/ ParentFetch \/ ParentInsert
  \/ ParentDone \/ ParentFull
  \/ RootNew \/ RootWrite \/ RootUnpin \/ ChildFetch \/ ChildAdopt
  \/ LeftDone \/ RightDone

Next == Calls \/ Work

\* The only thread keeps working on a call; nobody has to make another one.
Spec == Init /\ [][Next]_vars /\ WF_vars(Work)
-----------------------------------------------------------------------------
\* The local variables of a call.
Locals ==
  [op : {"none", "insert", "find", "exists"}, key : Keys \cup {Nothing},
   fits : BOOLEAN, rid : PageIds, page : PageIds,
   merged : Seq(EntryRecords), sibling : PageIds,
   separator : Keys \cup {Nothing}, up : PageIds]

TypeOK ==
  /\ root_page_id \in PageIds /\ next_data_page_id \in Nat
  /\ call \in Locals
  /\ DOMAIN held \subseteq PageIds /\ \A p \in DOMAIN held : held[p] \in Frames
  /\ changed \subseteq DOMAIN held
  /\ stored \subseteq Keys
  /\ answer \in [key : Keys \cup {Nothing}, object : Keys \cup {Nothing}]

(***************************************************************************)
(* The inductive invariant, for a database whose file has a root.  What    *)
(* the thread knows at each label:                                         *)
(***************************************************************************)
\* which pages it holds, and which of these it has changed;
HeldAt ==
  CASE pc \in {"probe", "at", "inserted", "split", "left", "adopt", "adopted"}
         -> {call.page}
    [] pc \in {"record", "recorded", "copy"}   -> {call.rid}
    [] pc \in {"init", "cut", "fill", "link", "halved"} -> {call.page, call.sibling}
    [] pc \in {"insertafter", "parentdone", "rootwrite", "rootdone"} -> {call.up}
    [] OTHER                                   -> {}

ChangedAt ==
  CASE pc = "recorded"                          -> {call.rid}
    [] pc \in {"inserted", "split", "adopted"}  -> {call.page}
    [] pc = "cut"                               -> {call.sibling}
    [] pc \in {"fill", "link", "halved"}        -> {call.page, call.sibling}
    [] pc \in {"parentdone", "rootdone"}        -> {call.up}
    [] OTHER                                    -> {}

HoldsItsPages == DOMAIN held = HeldAt /\ changed = ChangedAt

\* and that frames that were not taken have no pins;
FreeUnpinned == \A f \in Frames : f \in ToSet(free_list) => pin_count[f] = 0

\* what is in them: a page fetchPage would deliver, in RAM or in the file;
Current(p) == IF Resident(p) THEN frames[page_table[p]] ELSE disk[p]
Contents  == [p \in PageIds |-> Current(p).body]

LeafPages == {p \in PageIds : Contents[p] \in LeafBodies}

\* What the entries of a leaf have to be.
NamesObjects(entries) == \A e \in ToSet(entries) : Contents[e.value] = Record(e.key)
GoodLeaf(entries) ==
  Ascending(entries) /\ Len(entries) <= LeafMax /\ NamesObjects(entries)

Root      == Contents[root_page_id]

\* that the tree is one: its root is page 0 or a page whose children are leaves
\* that know it; what its leaves name are the objects of the keys;
TreeStands ==
  /\ \A p \in PageIds : Contents[p] \in Bodies \cup {ZeroBody}
  /\ 0 \in LeafPages
  /\ root_page_id \in LeafPages => root_page_id = 0
  /\ root_page_id \notin LeafPages =>
       /\ Root \in InternalBodies
       /\ \A p \in ToSet(Root.children) : Contents[p].parent = root_page_id
  /\ \A p \in PageIds : Contents[p] \in InternalBodies =>
       /\ Contents[p].keys # << >>
       /\ Len(Contents[p].children) = Len(Contents[p].keys) + 1
       /\ ToSet(Contents[p].children) \subseteq LeafPages
  /\ \A p \in LeafPages : GoodLeaf(Contents[p].entries)

OnPath(p) ==
  \/ p = root_page_id
  \/ root_page_id \notin LeafPages /\ p \in ToSet(Root.children)

\* and where its call has come to.
Halving   == {"init", "cut", "fill", "link", "halved"}
Linking   == {"split", "propagate", "left"}
Promoting == {"parent", "insertafter", "parentdone"}
Rooting   == {"newroot", "rootwrite", "rootdone", "child", "adopt", "adopted"}
Inserting == {"inserted"} \cup Halving \cup Linking \cup Promoting \cup Rooting

KnowsItsCall ==
  /\ pc \in {"open", "probe", "idle", "store", "record", "recorded", "walk", "at",
             "retrieve", "copy"} \cup Inserting
  /\ IF pc \in {"open", "probe", "idle"} THEN call = NoCall
     ELSE /\ call.key \in Keys
          /\ pc \in {"store", "record", "recorded"} \cup Inserting => call.op = "insert"
  /\ pc = "record" => Contents[call.rid] = ZeroBody
  /\ \/ pc \in {"recorded", "retrieve", "copy"} \cup Inserting
     \/ pc \in {"walk", "at"} /\ call.op = "insert"
     => Contents[call.rid] = Record(call.key)
  /\ pc \in {"walk", "at"} \cup Halving \cup Linking => OnPath(call.page)
  /\ pc \in {"inserted"} \cup Halving \cup Linking => call.page \in LeafPages
  /\ pc \in {"init", "cut"} =>
       /\ ~ LeafAccepts(Contents[call.page].entries, call.key)
       /\ call.merged = Merged(Contents[call.page].entries, NewEntry)
  /\ pc = "init" => Contents[call.sibling] = ZeroBody
  /\ pc = "fill" => LET upper == RightHalf(call.merged)
                    IN  upper \in Seq(EntryRecords) /\ upper # << >> /\ GoodLeaf(upper)
  /\ pc \in {"link", "halved"} => Contents[call.sibling].entries # << >>
  /\ pc \in Inserting \ {"inserted", "init"} =>
       call.sibling \in LeafPages /\ call.sibling \notin {0, root_page_id}
  /\ pc \in Linking \cup Promoting \cup Rooting => call.separator \in Keys
  /\ pc \in (Halving \ {"init"}) \cup Linking =>
       /\ call.sibling # call.page
       /\ Contents[call.sibling].parent = Contents[call.page].parent
  /\ pc \in Promoting =>
       /\ call.up = root_page_id /\ root_page_id \notin LeafPages
       /\ Contents[call.sibling].parent = root_page_id
  /\ pc \in Rooting =>
       /\ root_page_id \in LeafPages /\ call.page \in {root_page_id, call.sibling}
       /\ pc \in {"newroot", "rootwrite", "rootdone"} => call.page = root_page_id
  /\ pc = "rootwrite" => Contents[call.up] = ZeroBody
  /\ pc \in {"rootdone", "child", "adopt", "adopted"} =>
       /\ Contents[call.up] \in InternalBodies
       /\ Contents[call.up].children = <<root_page_id, call.sibling>>
       /\ call.page = call.sibling => Contents[root_page_id].parent = call.up
  /\ pc = "adopted" => Contents[call.page].parent = call.up

IndInv == TypeOK /\ HoldsItsPages /\ FreeUnpinned /\ TreeStands /\ KnowsItsCall

(***************************************************************************)
(* The inductive invariant of proper use: keys are distinct, no session    *)
(* begins after the root moved, and no leaf is split under a full root.    *)
(***************************************************************************)
\* The leaf where the descent for a key ends, and all leaves where one does.
LeafFor(k) ==
  IF root_page_id \in LeafPages THEN root_page_id ELSE InternalLookup(Root, k)
Reached ==
  IF root_page_id \in LeafPages THEN {root_page_id} ELSE ToSet(Root.children)

KeysAt(p) == KeysIn(Contents[p].entries)

\* A key is in no other leaf than the one its descent ends at.
RootSorts ==
  /\ root_page_id \notin LeafPages =>
       /\ \A i, j \in DOMAIN Root.keys : i < j => Root.keys[i] < Root.keys[j]
       /\ IsInjective(Root.children)
       /\ \A p \in Reached : Contents[p].entries # << >>
  /\ \A p \in Reached : \A k \in KeysAt(p) : LeafFor(k) = p

\* The leaves have the keys callers stored.  insert puts the new key in before
\* it returns.  The upper half of a leaf that is split is pending until descents
\* end there too; first it is in the temporary arrays, then in the sibling.
Taken ==
  pc \in {"inserted", "fill", "link", "halved"} \cup Linking \cup Promoting \cup Rooting

Pending == Taken /\ pc \notin {"inserted", "parentdone"}
Upper   == IF pc = "fill" THEN RightHalf(call.merged)
           ELSE Contents[call.sibling].entries

HoldsStored ==
  \A k \in Keys : (\E p \in Reached : k \in KeysAt(p)) \/ (Pending /\ k \in KeysIn(Upper))
                    <=> k \in stored \/ (Taken /\ k = call.key)

\* Descents for these keys still end at the lower half, and the separator is
\* between the two.
Lower == IF pc \in Rooting THEN root_page_id ELSE call.page

Separates ==
  Pending =>
    /\ call.sibling \notin Reached /\ Upper # << >>
    /\ Lower \in Reached /\ Contents[Lower].entries # << >>
    /\ pc \notin Halving => call.separator = Upper[1].key
    /\ \A k \in KeysAt(Lower) : k < Upper[1].key
    /\ \A k \in KeysIn(Upper) : Upper[1].key <= k /\ LeafFor(k) = Lower

\* What the call knows of its key.
KnowsItsKey ==
  /\ pc # "idle" => answer = NoAnswer
  /\ call.op = "insert" => call.key \notin stored
  /\ pc \in {"retrieve", "copy"} => call.key \in stored
  /\ pc \in {"walk", "at"} => call.page \in {root_page_id, LeafFor(call.key)}
  /\ pc \in {"init", "cut"} => call.page = LeafFor(call.key)
  /\ pc = "cut" => call.sibling \notin Reached
  /\ pc \in {"rootdone", "child", "adopt", "adopted"} =>
       Contents[call.up].keys = <<call.separator>>

KeysInPlace == RootSorts /\ HoldsStored /\ Separates /\ KnowsItsKey

\* Every path through a call, the one that throws included, unpins what it
\* pinned: a pin left over would take a frame out of the pool for ever.
NothingPinned == pc = "idle" => \A f \in Frames : pin_count[f] = 0

\* fetchPage and newPage never return nullptr, which the tree would use: two
\* frames are enough for every path, because each gives its pages back in time.
NoNullUsed == NeedsFrame => CanClaim

\* find and exists answer what insert stored - through evictions, splits, failed
\* inserts and sessions.
AnswersRight ==
  answer # NoAnswer =>
    answer.object = IF answer.key \in stored THEN answer.key ELSE Nothing

\* Whatever else goes wrong, find never returns another key's object.
AnswersSound == answer.object \in {Nothing, answer.key}

\* Every call returns: findLeafPage comes to a leaf, and nobody waits.
CallsReturn == []<>(pc = "idle")

(***************************************************************************)
(* Tree and facade are users of the pool as BufferPool describes them, so  *)
(* what is proved of BufferPool holds of the pool in this program: no page *)
(* is fetched that nobody wrote, each is pinned once at a time, written    *)
(* only while pinned, and unpinned as dirty if it was written.             *)
(***************************************************************************)
Plain(page)   == [page EXCEPT !.body = IF @ = ZeroBody THEN @ ELSE "written"]
Written       == {p \in PageIds : Contents[p] # ZeroBody}

Pool == INSTANCE BufferPool WITH
  Body           <- {"written"},
  Absent         <- "absent",
  MaxPins        <- 1,
  ProbeEmptyFile <- FALSE,
  frames         <- [f \in Frames |-> Plain(frames[f])],
  disk           <- [p \in PageIds |-> Plain(disk[p])],
  holds          <- [p \in PageIds |-> IF p \in DOMAIN held THEN 1 ELSE 0],
  handle         <- [p \in PageIds |-> IF p \in DOMAIN held THEN held[p]
                                      ELSE NoFrame],
  unsaved        <- changed,
  live           <- Written

UsesPoolWell == Pool!Spec
=============================================================================
