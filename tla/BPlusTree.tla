------------------------------ MODULE BPlusTree ------------------------------
(***************************************************************************)
(* BPlusTree: the index from keys to values, over pages that fetchPage     *)
(* finds and newPage creates (what BufferPool shows of the pool; here      *)
(* every call of the pool succeeds).  The program has one thread, so each  *)
(* call of the tree is one step.                                           *)
(*                                                                         *)
(* The tree has at most two levels: splitting an internal page is a TODO   *)
(* in insertIntoParent, which drops the separator instead.                 *)
(***************************************************************************)
EXTENDS BPlusTreePage

CONSTANTS
  Keys,        \* the keys callers use
  Values,      \* the RecordIDs they store
  NoValue,     \* getValue returns FALSE
  MaxPages,    \* bound: pages of the tree
  Duplicates,  \* do callers insert keys they inserted before?
  Reopens      \* is the database closed and opened again?

ASSUME KeysAssumption     == Keys \subseteq Nat
ASSUME NoValueAssumption  == NoValue \notin Values
ASSUME MaxPagesAssumption == MaxPages \in Nat \ {0}
ASSUME UseAssumption      == Duplicates \in BOOLEAN /\ Reopens \in BOOLEAN

VARIABLES
  nodes,         \* page id -> page of the tree, for the pages there are
  root_page_id,
  given          \* history: the values inserted under each key

vars == <<nodes, root_page_id, given>>

NewId == Cardinality(DOMAIN nodes)

(***************************************************************************)
(* Constructor.  On an empty file page 0 becomes the root, an empty leaf.  *)
(***************************************************************************)
Init ==
  /\ nodes = [p \in {0} |-> Leaf(<< >>, 0, NoNext)]
  /\ root_page_id = 0
  /\ given = [k \in Keys |-> {}]

\* On any other file page 0 is taken for the root: it is a valid page of the
\* tree.  Where the root was when the file was closed is not recorded.
Reopen ==
  /\ Reopens
  /\ root_page_id' = 0
  /\ UNCHANGED <<nodes, given>>

(***************************************************************************)
(* findLeafPage walks down until it stands on a leaf.  Two steps are       *)
(* enough: see TwoLevels.                                                  *)
(***************************************************************************)
Descend(p, key) ==
  IF nodes[p].is_leaf THEN p ELSE InternalLookup(nodes[p], key)

FindLeafPage(key) == Descend(Descend(root_page_id, key), key)

GetValue(key) ==
  LET entries == nodes[FindLeafPage(key)].entries
  IN  IF LeafHas(entries, key)
      THEN entries[LeafLookup(entries, key)].value ELSE NoValue

(***************************************************************************)
(* insert into a leaf that takes the key.                                  *)
(***************************************************************************)
InsertFits(key, value) ==
  LET p == FindLeafPage(key)
  IN  /\ LeafAccepts(nodes[p].entries, key)
      /\ nodes' = [nodes EXCEPT ![p].entries = LeafInsert(@, Entry(key, value))]
      /\ UNCHANGED root_page_id

(***************************************************************************)
(* insert into a leaf that refuses it - because it is full or because it   *)
(* has the key.  The leaf is split; the sibling is page NewId.             *)
(***************************************************************************)
\* The pages with one of them written, or with one more.
WithPage(pages, p, page) ==
  [q \in DOMAIN pages \cup {p} |-> IF q = p THEN page ELSE pages[q]]

\* A split whose sibling forgets the leaf behind it.
Halved_ChainCut(p, key, value) ==
  LET merged == Merged(nodes[p].entries, Entry(key, value))
      left   == Leaf(LeftHalf(merged), nodes[p].parent, NewId)
      right  == Leaf(RightHalf(merged), nodes[p].parent, NoNext)
  IN  WithPage(WithPage(nodes, p, left), NewId, right)

Halved(p, key, value) ==
  LET merged == Merged(nodes[p].entries, Entry(key, value))
      left   == Leaf(LeftHalf(merged), nodes[p].parent, NewId)
      right  == Leaf(RightHalf(merged), nodes[p].parent, nodes[p].next)
  IN  WithPage(WithPage(nodes, p, left), NewId, right)

\* The key promoted to the parent: the first one of the sibling.
Promoted(p, key, value) ==
  RightHalf(Merged(nodes[p].entries, Entry(key, value)))[1].key

NeedsSplit(p, key) == ~ LeafAccepts(nodes[p].entries, key)

\* A createNewRoot that updates the parent of the left child only.
CreateNewRoot_LeftOnly(pages, left, key, right, new_root) ==
  WithPage([pages EXCEPT ![left].parent = new_root],
           new_root, Internal(<<key>>, <<left, right>>, 0))

CreateNewRoot(pages, left, key, right, new_root) ==
  WithPage([pages EXCEPT ![left].parent = new_root, ![right].parent = new_root],
           new_root, Internal(<<key>>, <<left, right>>, 0))

\* insertIntoParent, the leaf is the root: a new root above both halves.
SplitRoot(key, value) ==
  LET p == FindLeafPage(key)
  IN  /\ NeedsSplit(p, key) /\ p = root_page_id
      /\ NewId + 1 < MaxPages
      /\ nodes' = CreateNewRoot(Halved(p, key, value), p,
                                Promoted(p, key, value), NewId, NewId + 1)
      /\ root_page_id' = NewId + 1

\* insertIntoParent, the parent has room for the separator.
SplitLeaf(key, value) ==
  LET p == FindLeafPage(key)
      parent == nodes[p].parent
  IN  /\ NeedsSplit(p, key) /\ p # root_page_id
      /\ HasRoom(nodes[parent])
      /\ NewId < MaxPages
      /\ nodes' = [Halved(p, key, value) EXCEPT
                     ![parent] = InsertAfter(@, Promoted(p, key, value), NewId)]
      /\ UNCHANGED root_page_id

\* insertIntoParent, the parent is full: the separator is dropped.
SplitDropped(key, value) ==
  LET p == FindLeafPage(key)
  IN  /\ NeedsSplit(p, key) /\ p # root_page_id
      /\ ~ HasRoom(nodes[nodes[p].parent])
      /\ NewId < MaxPages
      /\ nodes' = Halved(p, key, value)
      /\ UNCHANGED root_page_id

Insert(key, value) ==
  /\ Duplicates \/ given[key] = {}
  /\ \/ InsertFits(key, value) \/ SplitRoot(key, value)
     \/ SplitLeaf(key, value) \/ SplitDropped(key, value)
  /\ given' = [given EXCEPT ![key] = @ \cup {value}]

Next ==
  \/ \E key \in Keys, value \in Values : Insert(key, value)
  \/ Reopen

Spec == Init /\ [][Next]_vars
-----------------------------------------------------------------------------
Page   == DOMAIN nodes
Leaves == {p \in Page : nodes[p].is_leaf}
Root   == nodes[root_page_id]

KeysOf(p) == KeysIn(nodes[p].entries)

LeafPages ==
  [is_leaf : {TRUE}, entries : Seq([key : Keys, value : Values]),
   parent : Page, next : Page]

InternalPages ==
  [is_leaf : {FALSE}, keys : Seq(Keys), children : Seq(Page), parent : Page]

TypeOK ==
  /\ \E n \in 1 .. MaxPages : Page = 0 .. n - 1
  /\ nodes \in [Page -> LeafPages \cup InternalPages]
  /\ \A p \in Page \ Leaves : Len(nodes[p].children) = Len(nodes[p].keys) + 1
  /\ root_page_id \in Page
  /\ given \in [Keys -> SUBSET Values]

\* Binary search and split rely on it: the keys of a leaf ascend, it is not
\* overfull, and it is empty only before the first insert.
LeavesSorted ==
  \A p \in Leaves :
     LET entries == nodes[p].entries
     IN  /\ Len(entries) <= LeafMax
         /\ entries = << >> => \A k \in Keys : given[k] = {}
         /\ Ascending(entries)

\* findLeafPage's loop ends after at most one step down, for every key, and a
\* leaf that is not the root is split under the parent it was reached from.
TwoLevels ==
  \A k \in Keys : LET p == FindLeafPage(k)
                  IN  /\ nodes[p].is_leaf
                      /\ p # root_page_id => nodes[p].parent = root_page_id

\* The i-th leaf of the linked list that starts at page 0, where the leftmost
\* leaf stays for ever.  Behind the last leaf the list starts again.
ListedLeaf[i \in 0 .. MaxPages] ==
  IF i = 0 THEN 0 ELSE nodes[ListedLeaf[i - 1]].next

\* Splits relink the list of leaves but never drop a leaf from it: whatever
\* callers do, a key once inserted is in a leaf of the list.
NothingVanishes ==
  \A k \in Keys : given[k] # {} =>
     \E i \in 0 .. MaxPages : k \in KeysOf(ListedLeaf[i])

\* A key is never answered with a value stored under another one, or with one
\* nobody stored.
SoundLookup == \A k \in Keys : GetValue(k) \in given[k] \cup {NoValue}

\* insertAfter moves the keys and the children of a page within one array, by two
\* offsets and two counts.  On every internal page of the tree, wherever the
\* separator belongs, and also if it fills the page, this is what the tree
\* needs: the separator in its place, its child behind the child it split off.
ArraysInsert ==
  \A p \in Page : ~ nodes[p].is_leaf /\ HasRoom(nodes[p]) =>
     \A k \in Keys, child \in Page :
        CellsAfterInsert(nodes[p], k, child) =
          InternalCells(InsertAfter(nodes[p], k, child))

\* The inductive invariant of any use.  The tree is never deeper than two levels,
\* and the leaves below the root know it;
TwoLevelsDeep ==
  /\ 0 \in Leaves
  /\ root_page_id \in Leaves => root_page_id = 0
  /\ \A p \in Page \ Leaves : ToSet(nodes[p].children) \subseteq Leaves
  /\ root_page_id \notin Leaves =>
       \A p \in ToSet(Root.children) : nodes[p].parent = root_page_id

\* its leaves hold what callers gave, and nothing else;
HoldsGiven ==
  /\ \A p \in Leaves : nodes[p].entries = << >> => Page = {0}
  /\ \A p \in Leaves : \A e \in ToSet(nodes[p].entries) : e.value \in given[e.key]
  /\ \A k \in Keys : given[k] # {} => \E p \in Leaves : k \in KeysOf(p)

\* and the leaves, those that no lookup reaches as well, are one list, which
\* starts with page 0.
Lists(list, n) ==
  /\ list[1] = 0
  /\ \A p \in Leaves : \E i \in 1 .. n : list[i] = p
  /\ \A i, j \in 1 .. n : list[i] = list[j] => i = j
  /\ \A i \in 1 .. n : nodes[list[i]].next = IF i < n THEN list[i + 1] ELSE NoNext

OneList == \E n \in 1 .. NewId : \E list \in [1 .. n -> Leaves] : Lists(list, n)

IndInv == TypeOK /\ LeavesSorted /\ TwoLevelsDeep /\ HoldsGiven /\ OneList

\* Used as it is meant to be, the tree finds every key, with its value.
Finds ==
  \A k \in Keys : given[k] = IF GetValue(k) = NoValue THEN {} ELSE {GetValue(k)}

\* Used so, the children of the root are the leaves of the list, in its order,
\* each with keys between its separators: what lookup in the root relies on
\* and what a scan along the list would return in ascending order.
InOrder ==
  IF Root.is_leaf THEN root_page_id = 0 /\ Root.next = NoNext
  ELSE LET n == Len(Root.children)
       IN  \A i \in 1 .. n :
             LET p == Root.children[i]
             IN  /\ p = ListedLeaf[i - 1]
                 /\ nodes[p].next = IF i < n THEN Root.children[i + 1] ELSE NoNext
                 /\ \A k \in KeysOf(p) : /\ i > 1 => Root.keys[i - 1] <= k
                                         /\ i < n => k < Root.keys[i]

\* The inductive invariant of this use: a key has one value, and while nothing
\* was dropped, every page but the root is a child of it, once, with the keys
\* between two ascending separators, and the next child behind it.
OneValue ==
  \A p \in Leaves : \A e \in ToSet(nodes[p].entries) : given[e.key] = {e.value}

Between(p, i) ==
  \A k \in KeysOf(p) : /\ i > 1 => Root.keys[i - 1] <= k
                       /\ i <= Len(Root.keys) => k < Root.keys[i]

Ordered ==
  IF root_page_id \in Leaves THEN Page = {0} /\ Root.next = NoNext
  ELSE LET n == Len(Root.children)
       IN  /\ NewId = n + 1
           /\ Leaves = ToSet(Root.children)
           /\ \A i, j \in 1 .. n - 1 : i < j => Root.keys[i] < Root.keys[j]
           /\ \A i \in 1 .. n : Between(Root.children[i], i)
           /\ Lists(Root.children, n)

ProperUse == OneValue /\ (NewId <= InternalMax + 2 => Ordered)

\* Used so, the tree implements the table the database wants.
Index == INSTANCE KeyIndex WITH
  Key   <- Keys,
  Value <- Values,
  index <- [k \in Keys |-> GetValue(k)]

ImplementsKeyIndex == Index!IndexSpec
-----------------------------------------------------------------------------
\* "If the key already exists, it is not inserted", "false if key already
\* exists": inserting a stored key again changes no answer.
DuplicateRefused ==
  [][\A k \in Keys : GetValue(k) # NoValue /\ (\E v \in Values : Insert(k, v))
       => \A j \in Keys : GetValue(j)' = GetValue(j)]_vars

\* Leaf and internal pages are split when full: inserting a key never hides
\* another one.
StoredStaysFound ==
  [][\A k \in Keys : GetValue(k) # NoValue => GetValue(k)' # NoValue]_vars
=============================================================================
