---------------------------- MODULE BPlusTreePage ----------------------------
(***************************************************************************)
(* The two kinds of pages of the B+ tree: BPlusTreeLeafPage and            *)
(* BPlusTreeInternalPage.  The arrays of keys and of values (or children)  *)
(* behind the header are sequences here, and current_size is their length. *)
(* That shifting the arrays is inserting into sequences is checked: for    *)
(* leaves in LeafPage, for internal pages by ArraysInsert in BPlusTree.  A *)
(* page is a record; operations are operators from a page to a page.       *)
(*                                                                         *)
(* Indices count from 1, in the code from 0.                               *)
(***************************************************************************)
EXTENDS Integers, SequencesExt

CONSTANTS
  LeafMax,     \* max_size of a leaf (250 in the code)
  InternalMax  \* max_size of an internal page (250 in the code)

ASSUME LeafMaxAssumption     == LeafMax \in Nat \ {0}
ASSUME InternalMaxAssumption == InternalMax \in Nat \ {0}

\* The header field next_page_id of the last leaf.
NoNext == 0

Leaf(entries, parent, next) ==
  [is_leaf |-> TRUE, entries |-> entries, parent |-> parent, next |-> next]

Internal(keys, children, parent) ==
  [is_leaf |-> FALSE, keys |-> keys, children |-> children, parent |-> parent]

Entry(key, value) == [key |-> key, value |-> value]

\* Every search in these classes looks for the first place that passes a
\* test, and takes the place behind the end if none does.
FirstPlace(s, Test(_)) ==
  Min({i \in DOMAIN s : Test(s[i])} \cup {Len(s) + 1})

(***************************************************************************)
(* BPlusTreeLeafPage.                                                      *)
(***************************************************************************)
KeysIn(entries) == {e.key : e \in ToSet(entries)}

\* What searching by halving relies on.
Ascending(entries) ==
  \A i, j \in DOMAIN entries : i < j => entries[i].key < entries[j].key

\* lookup: the first index whose key is not below key.  The code searches by
\* halving, which finds that index because the keys of a leaf ascend.
LeafLookup(entries, key) == FirstPlace(entries, LAMBDA e : e.key >= key)

\* A leaf that takes the entry found for the one looked for.
LeafHas_NotCompared(entries, key) == LeafLookup(entries, key) <= Len(entries)

LeafHas(entries, key) ==
  LET i == LeafLookup(entries, key)
  IN  i <= Len(entries) /\ entries[i].key = key

\* An insert that does not look whether the key is there.
LeafAccepts_TwiceToo(entries, key) == Len(entries) < LeafMax

\* insert: FALSE in the code if the key is there already or the leaf is full.
LeafAccepts(entries, key) ==
  ~ LeafHas(entries, key) /\ Len(entries) < LeafMax

LeafInsert(entries, e) ==
  IF LeafAccepts(entries, e.key)
  THEN InsertAt(entries, LeafLookup(entries, e.key), e) ELSE entries

\* split puts a new entry in front of the first greater key - behind its equal,
\* if it has one.
MergePlace(entries, key) == FirstPlace(entries, LAMBDA e : key < e.key)

\* A merge that forgets a new entry behind all others.
Merged_EndForgotten(entries, e) ==
  LET i == MergePlace(entries, e.key)
  IN  IF i > Len(entries) THEN entries ELSE InsertAt(entries, i, e)

\* split, steps 1 and 2: all entries and the new one.
Merged(entries, e) == InsertAt(entries, MergePlace(entries, e.key), e)

\* split, step 5: a page is emptied and filled by insert, one entry after the
\* other, so of two entries with one key the second is refused.
Filled(entries) == FoldLeft(LeafInsert, << >>, entries)

\* split, step 3.
SplitPoint(merged) == Len(merged) \div 2

LeftHalf(merged)  == Filled(SubSeq(merged, 1, SplitPoint(merged)))
RightHalf(merged) == Filled(SubSeq(merged, SplitPoint(merged) + 1, Len(merged)))

(***************************************************************************)
(* BPlusTreeInternalPage.  children[i] has the keys below keys[i].         *)
(***************************************************************************)
\* A lookup that sends the separator itself to the left.
InternalLookup_SeparatorLeft(page, key) ==
  page.children[FirstPlace(page.keys, LAMBDA k : key <= k)]

\* lookup: the child in front of the first greater separator.
ChildPlace(keys, key) == FirstPlace(keys, LAMBDA k : key < k)

InternalLookup(page, key) == page.children[ChildPlace(page.keys, key)]

\* insertAfter: FALSE in the code if the page is full.
HasRoom(page) == Len(page.keys) < InternalMax

\* A separator goes in front of the first one that is not below it.
SeparatorPlace(keys, key) == FirstPlace(keys, LAMBDA k : ~ (k < key))

\* An insertAfter that puts the new child in front of the child it split off.
InsertAfter_ChildInFront(page, key, right_child) ==
  LET i == SeparatorPlace(page.keys, key)
  IN  [page EXCEPT !.keys     = InsertAt(@, i, key),
                   !.children = InsertAt(@, i, right_child)]

\* The separator goes to its place, its right child behind the child there.
InsertAfter(page, key, right_child) ==
  LET i == SeparatorPlace(page.keys, key)
  IN  [page EXCEPT !.keys     = InsertAt(@, i, key),
                   !.children = InsertAt(@, i + 1, right_child)]

(***************************************************************************)
(* The arrays, as one row of cells: max_size keys, and behind these one    *)
(* child (or, in a leaf, one value) for each, and one child more.          *)
(***************************************************************************)
\* std::memmove: count cells from src on, to dest.
Memmove(cells, dest, src, count) ==
  [c \in DOMAIN cells |-> IF c \in dest .. dest + count - 1
                          THEN cells[c - dest + src] ELSE cells[c]]

ChildCell(n) == InternalMax + n

InternalCells(page) ==
  [c \in 0 .. ChildCell(InternalMax) |->
     IF c < Len(page.keys) THEN page.keys[c + 1]
     ELSE IF c \in ChildCell(0) .. ChildCell(Len(page.keys))
     THEN page.children[c - ChildCell(0) + 1] ELSE 0]

\* A shift of the children that counts them as if the first one moved too.
ShiftedChildren_FromFirst(cells, index, count) ==
  Memmove(cells, ChildCell(index + 1), ChildCell(index), count)

ShiftedChildren(cells, index, count) ==
  Memmove(cells, ChildCell(index + 2), ChildCell(index + 1), count)

\* insertAfter on the cells of a page.
CellsAfterInsert(page, key, right_child) ==
  LET index   == SeparatorPlace(page.keys, key) - 1
      behind  == Len(page.keys) - index
      shifted == ShiftedChildren(Memmove(InternalCells(page), index + 1, index, behind),
                                 index, behind)
  IN  [shifted EXCEPT ![index] = key, ![ChildCell(index + 1)] = right_child]
=============================================================================
