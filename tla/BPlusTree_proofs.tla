---------------------------- MODULE BPlusTree_proofs ---------------------------
(***************************************************************************)
(* For every set of keys and every size of page: what survives any use of  *)
(* the tree - keys given twice, a full root, reopening - and, as long as   *)
(* keys are given once and fit under one root, that the tree is a table.   *)
(***************************************************************************)
EXTENDS BPlusTree, BPlusTreePage_proofs

Pairs == [key : Keys, value : Values]

-----------------------------------------------------------------------------
(***************************************************************************)
(* What the types say of a page.                                           *)
(***************************************************************************)
LEMMA PairsHaveKeys == HaveKeys(Pairs) /\ \A k \in Keys : k \in Int
<1>1. \A k \in Keys : k \in Int
  BY KeysAssumption
<1>2. \A e \in Pairs : e.key \in Keys
  BY DEF Pairs
<1> QED  BY <1>1, <1>2 DEF HaveKeys

LEMMA PairTypes ==
  ASSUME NEW k \in Keys, NEW v \in Values
  PROVE  Entry(k, v) \in Pairs /\ Entry(k, v).key = k /\ Entry(k, v).value = v
BY DEF Entry, Pairs

LEMMA LeafIs ==
  ASSUME TypeOK, NEW p \in Leaves
  PROVE  /\ p \in Page /\ nodes[p].is_leaf /\ nodes[p] \in LeafPages
         /\ nodes[p].entries \in Seq(Pairs)
         /\ nodes[p].parent \in Page /\ nodes[p].next \in Page
<1>1. p \in Page /\ nodes[p].is_leaf
  BY DEF Leaves
<1>2. nodes[p] \in LeafPages \cup InternalPages
  BY <1>1 DEF TypeOK
<1>3. nodes[p] \in LeafPages
  BY <1>1, <1>2 DEF InternalPages
<1> QED  BY <1>1, <1>3 DEF LeafPages, Pairs

LEMMA InternalIs ==
  ASSUME TypeOK, NEW p \in Page, p \notin Leaves
  PROVE  /\ ~ nodes[p].is_leaf /\ nodes[p] \in InternalPages
         /\ nodes[p] \in InternalPageOf(Keys, Page, Page)
         /\ nodes[p].keys \in Seq(Keys) /\ nodes[p].children \in Seq(Page)
         /\ Len(nodes[p].keys) \in Nat
         /\ Len(nodes[p].children) = Len(nodes[p].keys) + 1
<1>1. ~ nodes[p].is_leaf
  BY DEF Leaves
<1>2. nodes[p] \in LeafPages \cup InternalPages
  BY DEF TypeOK
<1>3. nodes[p] \in InternalPages
  BY <1>1, <1>2 DEF LeafPages
<1>4. nodes[p].keys \in Seq(Keys) /\ nodes[p].children \in Seq(Page)
  BY <1>3 DEF InternalPages
<1>5. Len(nodes[p].keys) \in Nat
  BY <1>4
<1>6. Len(nodes[p].children) = Len(nodes[p].keys) + 1
  BY DEF TypeOK
<1> QED  BY <1>1, <1>3, <1>4, <1>5, <1>6 DEF InternalPages, InternalPageOf

\* Pages are numbered from 0 on, so that NewId is the next one.
LEMMA PageNumbers ==
  ASSUME NEW n \in Nat
  PROVE  Cardinality(0 .. n - 1) = n
BY FS_Interval

LEMMA NewIdIs ==
  ASSUME TypeOK
  PROVE  /\ NewId \in 1 .. MaxPages /\ NewId \in Nat /\ MaxPages \in Nat
         /\ Page = 0 .. NewId - 1 /\ NewId \notin Page
<1>1. PICK n \in 1 .. MaxPages : Page = 0 .. n - 1
  BY DEF TypeOK
<1>2. MaxPages \in Nat /\ n \in Nat
  BY MaxPagesAssumption
<1>3. NewId = n
  BY <1>1, <1>2, PageNumbers DEF NewId, Page
<1> QED  BY <1>1, <1>2, <1>3

-----------------------------------------------------------------------------
(***************************************************************************)
(* findLeafPage.                                                           *)
(***************************************************************************)
\* The walk ends on the root or on a child of the root, at the place lookup
\* names.
LEMMA FindIsLeaf ==
  ASSUME TypeOK, TwoLevelsDeep, NEW k \in Keys,
         NEW p, p = FindLeafPage(k), NEW i, i = ChildPlace(Root.keys, k)
  PROVE  /\ p \in Leaves
         /\ root_page_id \in Leaves => p = root_page_id /\ p = 0
         /\ root_page_id \notin Leaves =>
              /\ p # root_page_id /\ nodes[p].parent = root_page_id
              /\ i \in 1 .. Len(Root.children) /\ p = Root.children[i]
<1>1. root_page_id \in Page
  BY DEF TypeOK
<1>2. CASE root_page_id \in Leaves
  <2>1. nodes[root_page_id].is_leaf
    BY <1>2 DEF Leaves
  <2>2. p = root_page_id
    BY <2>1 DEF FindLeafPage, Descend
  <2> QED  BY <1>2, <2>2 DEF TwoLevelsDeep
<1>3. CASE root_page_id \notin Leaves
  <2>1. /\ ~ Root.is_leaf /\ Root.keys \in Seq(Keys) /\ Root.children \in Seq(Page)
        /\ Len(Root.children) = Len(Root.keys) + 1
    BY <1>1, <1>3, InternalIs DEF Root
  <2>2. i \in 1 .. Len(Root.children)
    BY <2>1, PlaceOfChild
  <2>3. /\ Root.children[i] \in ToSet(Root.children)
        /\ ToSet(Root.children) \subseteq Leaves
    <3>1. Root.children[i] \in ToSet(Root.children)
      BY <2>1, <2>2, Elements
    <3>2. ToSet(Root.children) \subseteq Leaves
      BY <1>1, <1>3 DEF TwoLevelsDeep, Root
    <3> QED  BY <3>1, <3>2
  <2>4. nodes[Root.children[i]].is_leaf
    BY <2>3 DEF Leaves
  <2>5. Descend(root_page_id, k) = Root.children[i]
    BY <2>1 DEF Descend, InternalLookup, Root
  <2>6. p = Root.children[i]
    BY <2>4, <2>5 DEF FindLeafPage, Descend
  <2>7. nodes[p].parent = root_page_id
    BY <1>3, <2>3, <2>6 DEF TwoLevelsDeep
  <2> QED  BY <1>3, <2>2, <2>3, <2>6, <2>7
<1> QED  BY <1>2, <1>3

-----------------------------------------------------------------------------
(***************************************************************************)
(* What a split makes of the pages.                                        *)
(***************************************************************************)
LEMMA HalvedIs ==
  ASSUME TypeOK, NEW p \in Leaves, NEW k, NEW v,
         NEW pages, pages = Halved(p, k, v),
         NEW merged, merged = Merged(nodes[p].entries, Entry(k, v))
  PROVE  /\ DOMAIN pages = Page \cup {NewId} /\ p # NewId
         /\ pages[p] = Leaf(LeftHalf(merged), nodes[p].parent, NewId)
         /\ pages[NewId] = Leaf(RightHalf(merged), nodes[p].parent, nodes[p].next)
         /\ \A q \in Page : q # p => pages[q] = nodes[q] /\ q # NewId
<1> DEFINE left  == Leaf(LeftHalf(merged), nodes[p].parent, NewId)
           right == Leaf(RightHalf(merged), nodes[p].parent, nodes[p].next)
           one   == WithPage(nodes, p, left)
<1>1. p \in Page /\ NewId \notin Page /\ Page = DOMAIN nodes
  BY LeafIs, NewIdIs DEF Page
<1>2. pages = WithPage(one, NewId, right)
  BY DEF Halved
<1> HIDE DEF left, right
<1>3. /\ DOMAIN one = Page /\ one[p] = left
      /\ \A q \in Page : q # p => one[q] = nodes[q]
  <2>1. /\ DOMAIN one = DOMAIN nodes \cup {p} /\ one[p] = left
        /\ \A q \in DOMAIN nodes : q # p => one[q] = nodes[q]
    BY DEF WithPage
  <2> HIDE DEF one
  <2> QED  BY <1>1, <2>1
<1> HIDE DEF one
<1>4. /\ DOMAIN pages = Page \cup {NewId} /\ pages[NewId] = right
      /\ \A q \in Page : q # NewId => pages[q] = one[q]
  <2>1. /\ DOMAIN pages = DOMAIN one \cup {NewId} /\ pages[NewId] = right
        /\ \A q \in DOMAIN one : q # NewId => pages[q] = one[q]
    BY <1>2 DEF WithPage
  <2> QED  BY <1>3, <2>1
<1> QED  BY <1>1, <1>3, <1>4 DEF left, right

\* A leaf that refuses a key is not empty, so both of its halves are not.
LEMMA HalvesOf ==
  ASSUME TypeOK, LeavesSorted, NEW k \in Keys, NEW v \in Values,
         NEW p \in Leaves, NeedsSplit(p, k),
         NEW t, t = nodes[p].entries,
         NEW e, e = Entry(k, v),
         NEW left, left = LeftHalf(Merged(t, e)),
         NEW right, right = RightHalf(Merged(t, e))
  PROVE  Halves(Pairs, t, e, left, right) /\ right[1].key \in Keys
<1>1. t \in Seq(Pairs) /\ Ascending(t) /\ Len(t) <= LeafMax /\ Len(t) \in Nat
  <2>1. t \in Seq(Pairs)
    BY LeafIs
  <2> QED  BY <2>1 DEF LeavesSorted
<1>2. Len(t) >= 1
  <2>1. LeafHas(t, k) \/ ~ (Len(t) < LeafMax)
    BY DEF NeedsSplit, LeafAccepts
  <2>2. CASE LeafHas(t, k)
    <3>1. LeafLookup(t, k) <= Len(t)
      BY <2>2 DEF LeafHas
    <3>2. LeafLookup(t, k) \in 1 .. Len(t) + 1
      BY <1>1, PlaceOfLookup
    <3> QED  BY <1>1, <3>1, <3>2
  <2> QED  BY <1>1, <2>1, <2>2, LeafMaxAssumption
<1>3. Len(t) \in 1 .. LeafMax
  BY <1>1, <1>2, LeafMaxAssumption
<1>4. e \in Pairs
  BY PairTypes
<1>5. Halves(Pairs, t, e, left, right)
  BY <1>1, <1>3, <1>4, PairsHaveKeys, HalvesAre
<1>6. right[1].key \in Keys
  <2>1. 1 \in 1 .. Len(right)
    BY <1>5 DEF Halves
  <2>2. right[1] \in Pairs
    BY <1>5, <2>1, ElementOfSeq DEF Halves
  <2> QED  BY <2>2 DEF Pairs
<1> QED  BY <1>5, <1>6

-----------------------------------------------------------------------------
(***************************************************************************)
(* The types.                                                              *)
(***************************************************************************)
LeafOf(P) == [is_leaf : {TRUE}, entries : Seq(Pairs), parent : P, next : P]

InternalOf(P) ==
  {page \in InternalPageOf(Keys, P, P) : Len(page.children) = Len(page.keys) + 1}

LEMMA TypesOf ==
  /\ LeafPages = LeafOf(Page) /\ LeafPages' = LeafOf(Page')
  /\ InternalPages = InternalPageOf(Keys, Page, Page)
  /\ InternalPages' = InternalPageOf(Keys, Page', Page')
BY DEF LeafPages, LeafOf, InternalPages, InternalPageOf, Pairs

LEMMA SeqGrows ==
  ASSUME NEW P, NEW Q, P \subseteq Q, NEW s \in Seq(P)
  PROVE  s \in Seq(Q)
OBVIOUS

LEMMA TypesGrow ==
  ASSUME NEW P, NEW Q, P \subseteq Q
  PROVE  LeafOf(P) \subseteq LeafOf(Q) /\ InternalOf(P) \subseteq InternalOf(Q)
<1>1. LeafOf(P) \subseteq LeafOf(Q)
  BY DEF LeafOf
<1>2. ASSUME NEW page \in InternalOf(P)  PROVE page \in InternalOf(Q)
  <2>1. page \in InternalPageOf(Keys, P, P) /\ Len(page.children) = Len(page.keys) + 1
    BY DEF InternalOf
  <2>2. page \in InternalPageOf(Keys, Q, Q)
    BY <2>1, SeqGrows DEF InternalPageOf
  <2> QED  BY <2>1, <2>2 DEF InternalOf
<1> QED  BY <1>1, <1>2

LEMMA LeafTypes ==
  ASSUME NEW P, NEW entries \in Seq(Pairs), NEW parent \in P, NEW next \in P
  PROVE  /\ Leaf(entries, parent, next) \in LeafOf(P)
         /\ Leaf(entries, parent, next).is_leaf
BY DEF Leaf, LeafOf

\* A field of a leaf set to another value.
LEMMA FieldSet ==
  ASSUME NEW A, NEW B, NEW C, NEW D, NEW new,
         NEW page \in [is_leaf : A, entries : B, parent : C, next : D]
  PROVE  /\ [page EXCEPT !.entries = new] =
              [is_leaf |-> page.is_leaf, entries |-> new,
               parent |-> page.parent, next |-> page.next]
         /\ [page EXCEPT !.parent = new] =
              [is_leaf |-> page.is_leaf, entries |-> page.entries,
               parent |-> new, next |-> page.next]
OBVIOUS

LEMMA LeafFields ==
  ASSUME NEW entries, NEW parent, NEW next, NEW page, page = Leaf(entries, parent, next)
  PROVE  /\ page.is_leaf = TRUE /\ page.entries = entries
         /\ page.parent = parent /\ page.next = next
         /\ page \in [is_leaf : {TRUE}, entries : {entries}, parent : {parent},
                      next : {next}]
BY DEF Leaf

LEMMA LeafParts ==
  ASSUME NEW entries, NEW parent, NEW next
  PROVE  /\ Leaf(entries, parent, next).entries = entries
         /\ Leaf(entries, parent, next).parent = parent
         /\ Leaf(entries, parent, next).next = next
BY DEF Leaf

LEMMA ParentSet ==
  ASSUME NEW entries, NEW parent, NEW next, NEW new
  PROVE  [Leaf(entries, parent, next) EXCEPT !.parent = new] = Leaf(entries, new, next)
<1> DEFINE page == Leaf(entries, parent, next)
<1>1. /\ page.is_leaf = TRUE /\ page.entries = entries
      /\ page.parent = parent /\ page.next = next
      /\ page \in [is_leaf : {TRUE}, entries : {entries}, parent : {parent},
                   next : {next}]
  BY LeafFields
<1> HIDE DEF page
<1>2. [page EXCEPT !.parent = new] =
        [is_leaf |-> page.is_leaf, entries |-> page.entries,
         parent |-> new, next |-> page.next]
  BY <1>1, FieldSet
<1>3. [page EXCEPT !.parent = new] = Leaf(entries, new, next)
  BY <1>1, <1>2, Zenon DEF Leaf
<1> QED  BY <1>3 DEF page

LEMMA EntriesSet ==
  ASSUME NEW P, NEW page \in LeafOf(P), NEW new
  PROVE  [page EXCEPT !.entries = new] = Leaf(new, page.parent, page.next)
<1>1. page \in [is_leaf : {TRUE}, entries : Seq(Pairs), parent : P, next : P]
  BY DEF LeafOf
<1>2. page.is_leaf = TRUE
  BY <1>1
<1>3. [page EXCEPT !.entries = new] =
        [is_leaf |-> page.is_leaf, entries |-> new,
         parent |-> page.parent, next |-> page.next]
  BY <1>1, FieldSet
<1> QED  BY <1>2, <1>3, Zenon DEF Leaf

LEMMA IsLeafOf ==
  ASSUME NEW P
  PROVE  /\ \A page \in LeafOf(P) : page.is_leaf
         /\ \A page \in InternalOf(P) :
              ~ page.is_leaf /\ Len(page.children) = Len(page.keys) + 1
BY DEF LeafOf, InternalOf, InternalPageOf

\* A step that changes the pages D, and makes n pages of those there are.
Renews(n, D) ==
  /\ Page' = 0 .. n - 1 /\ Page \subseteq Page'
  /\ nodes' = [q \in Page' |-> nodes'[q]]
  /\ root_page_id' \in Page'
  /\ given' \in [Keys -> SUBSET Values]
  /\ \A q \in Page' : q \notin D => q \in Page /\ nodes'[q] = nodes[q]
  /\ \A q \in D : nodes'[q] \in LeafOf(Page') \cup InternalOf(Page')

LEMMA TypesKept ==
  ASSUME TypeOK, NEW n \in 1 .. MaxPages, NEW D, Renews(n, D)
  PROVE  TypeOK'
<1>1. \A q \in Page : nodes[q] \in LeafOf(Page) \cup InternalOf(Page)
  <2> SUFFICES ASSUME NEW q \in Page  PROVE nodes[q] \in LeafOf(Page) \cup InternalOf(Page)
    OBVIOUS
  <2>1. CASE q \in Leaves
    BY <2>1, LeafIs, TypesOf
  <2>2. CASE q \notin Leaves
    BY <2>2, InternalIs DEF InternalOf
  <2> QED  BY <2>1, <2>2
<1>2. \A q \in Page' : nodes'[q] \in LeafOf(Page') \cup InternalOf(Page')
  <2>1. LeafOf(Page) \subseteq LeafOf(Page') /\ InternalOf(Page) \subseteq InternalOf(Page')
    BY TypesGrow DEF Renews
  <2> QED  BY <1>1, <2>1 DEF Renews
<1>3. nodes' \in [Page' -> LeafPages' \cup InternalPages']
  <2>1. InternalOf(Page') \subseteq InternalPages'
    BY TypesOf DEF InternalOf
  <2> QED  BY <1>2, <2>1, TypesOf DEF Renews
<1>4. \A q \in Page' \ Leaves' : Len(nodes'[q].children) = Len(nodes'[q].keys) + 1
  <2> SUFFICES ASSUME NEW q \in Page', q \notin Leaves'
               PROVE  Len(nodes'[q].children) = Len(nodes'[q].keys) + 1
    OBVIOUS
  <2>1. ~ nodes'[q].is_leaf
    BY DEF Leaves
  <2>2. nodes'[q] \in InternalOf(Page')
    BY <1>2, <2>1, IsLeafOf
  <2> QED  BY <2>2, IsLeafOf
<1> QED  BY <1>3, <1>4 DEF TypeOK, Renews

-----------------------------------------------------------------------------
(***************************************************************************)
(* The steps, page by page.                                                *)
(***************************************************************************)
LEMMA InsertFitsIs ==
  ASSUME TypeOK, TwoLevelsDeep, NEW k \in Keys, NEW v \in Values, InsertFits(k, v),
         NEW p, p = FindLeafPage(k)
  PROVE  /\ p \in Leaves /\ p \in Page /\ LeafAccepts(nodes[p].entries, k)
         /\ root_page_id' = root_page_id /\ Page' = Page
         /\ nodes' = [q \in Page' |-> nodes'[q]]
         /\ nodes'[p] = Leaf(LeafInsert(nodes[p].entries, Entry(k, v)),
                             nodes[p].parent, nodes[p].next)
         /\ \A q \in Page : q # p => nodes'[q] = nodes[q]
<1>1. p \in Leaves
  BY FindIsLeaf
<1>2. p \in Page /\ nodes[p] \in LeafPages /\ Page = DOMAIN nodes
  BY <1>1, LeafIs DEF Page
<1> DEFINE new == LeafInsert(nodes[p].entries, Entry(k, v))
<1>3. nodes' = [nodes EXCEPT ![p] = [nodes[p] EXCEPT !.entries = new]]
  BY DEF InsertFits
<1> HIDE DEF new
<1>4. [nodes[p] EXCEPT !.entries = new] = Leaf(new, nodes[p].parent, nodes[p].next)
  BY <1>2, TypesOf, EntriesSet
<1>5. /\ DOMAIN nodes' = Page /\ nodes' = [q \in DOMAIN nodes' |-> nodes'[q]]
      /\ nodes'[p] = Leaf(new, nodes[p].parent, nodes[p].next)
      /\ \A q \in Page : q # p => nodes'[q] = nodes[q]
  BY <1>2, <1>3, <1>4
<1>6. LeafAccepts(nodes[p].entries, k) /\ root_page_id' = root_page_id
  BY DEF InsertFits
<1> QED  BY <1>1, <1>2, <1>5, <1>6 DEF new, Page

LEMMA SplitRootIs ==
  ASSUME TypeOK, TwoLevelsDeep, NEW k \in Keys, NEW v \in Values, SplitRoot(k, v),
         NEW id, id = NewId,
         NEW left, left = LeftHalf(Merged(nodes[0].entries, Entry(k, v))),
         NEW right, right = RightHalf(Merged(nodes[0].entries, Entry(k, v)))
  PROVE  /\ 0 \in Leaves /\ root_page_id = 0 /\ NeedsSplit(0, k) /\ id + 1 < MaxPages
         /\ root_page_id' = id + 1 /\ Page' = Page \cup {id, id + 1}
         /\ nodes' = [q \in Page' |-> nodes'[q]]
         /\ nodes'[0] = Leaf(left, id + 1, id)
         /\ nodes'[id] = Leaf(right, id + 1, nodes[0].next)
         /\ nodes'[id + 1] = Internal(<<right[1].key>>, <<0, id>>, 0)
         /\ \A q \in Page : q # 0 => nodes'[q] = nodes[q]
<1>1. /\ FindLeafPage(k) = 0 /\ root_page_id = 0 /\ 0 \in Leaves /\ 0 \in Page
  <2>1. FindLeafPage(k) = root_page_id
    BY DEF SplitRoot
  <2> QED  BY <2>1, FindIsLeaf, LeafIs
<1>2. /\ Page = 0 .. id - 1 /\ id \in Nat /\ id \in 1 .. MaxPages
  BY NewIdIs
<1> DEFINE half == Halved(0, k, v)
           told == [half EXCEPT ![0].parent = id + 1, ![id].parent = id + 1]
           root == Internal(<<right[1].key>>, <<0, id>>, 0)
<1>3. /\ NeedsSplit(0, k) /\ id + 1 < MaxPages /\ root_page_id' = id + 1
      /\ nodes' = CreateNewRoot(Halved(0, k, v), 0, Promoted(0, k, v), id, id + 1)
  BY <1>1 DEF SplitRoot
<1>4. nodes' = WithPage(told, id + 1, root)
  BY <1>3 DEF CreateNewRoot, Promoted
<1>5. /\ DOMAIN half = Page \cup {id} /\ 0 # id
      /\ half[0] = Leaf(left, nodes[0].parent, id)
      /\ half[id] = Leaf(right, nodes[0].parent, nodes[0].next)
      /\ \A q \in Page : q # 0 => half[q] = nodes[q] /\ q # id
  BY <1>1, HalvedIs
<1> HIDE DEF half, root
<1>6. /\ [half[0] EXCEPT !.parent = id + 1] = Leaf(left, id + 1, id)
      /\ [half[id] EXCEPT !.parent = id + 1] = Leaf(right, id + 1, nodes[0].next)
  BY <1>5, ParentSet
<1>7. /\ DOMAIN told = Page \cup {id}
      /\ told[0] = Leaf(left, id + 1, id)
      /\ told[id] = Leaf(right, id + 1, nodes[0].next)
      /\ \A q \in Page : q # 0 => told[q] = nodes[q]
  BY <1>1, <1>5, <1>6
<1> HIDE DEF told
<1>8. id + 1 \notin Page \cup {id}
  BY <1>2
<1>9. /\ DOMAIN nodes' = Page \cup {id, id + 1}
      /\ nodes' = [q \in DOMAIN nodes' |-> nodes'[q]]
      /\ nodes'[id + 1] = root
      /\ \A q \in Page \cup {id} : nodes'[q] = told[q]
  BY <1>4, <1>7, <1>8 DEF WithPage
<1> QED  BY <1>1, <1>3, <1>7, <1>9 DEF root, Page

\* The leaf is below the root; the root gets the separator, if it has room.
LEMMA SplitLeafIs ==
  ASSUME TypeOK, TwoLevelsDeep, NEW k \in Keys, NEW v \in Values,
         SplitLeaf(k, v) \/ SplitDropped(k, v),
         NEW id, id = NewId, NEW p, p = FindLeafPage(k),
         NEW left, left = LeftHalf(Merged(nodes[p].entries, Entry(k, v))),
         NEW right, right = RightHalf(Merged(nodes[p].entries, Entry(k, v)))
  PROVE  /\ p \in Leaves /\ root_page_id \notin Leaves
         /\ NeedsSplit(p, k) /\ id < MaxPages
         /\ root_page_id' = root_page_id /\ Page' = Page \cup {id}
         /\ nodes' = [q \in Page' |-> nodes'[q]]
         /\ nodes'[p] = Leaf(left, root_page_id, id)
         /\ nodes'[id] = Leaf(right, root_page_id, nodes[p].next)
         /\ SplitLeaf(k, v) =>
              HasRoom(Root) /\ nodes'[root_page_id] = InsertAfter(Root, right[1].key, id)
         /\ SplitDropped(k, v) => ~ HasRoom(Root) /\ nodes'[root_page_id] = Root
         /\ \A q \in Page : q # p /\ q # root_page_id => nodes'[q] = nodes[q]
<1>1. /\ NeedsSplit(p, k) /\ p # root_page_id /\ id < MaxPages
      /\ root_page_id' = root_page_id
  BY DEF SplitLeaf, SplitDropped
<1>2. p \in Leaves /\ root_page_id \notin Leaves /\ nodes[p].parent = root_page_id
  BY <1>1, FindIsLeaf
<1>3. root_page_id \in Page /\ id \notin Page /\ p \in Page
  BY <1>2, LeafIs, NewIdIs DEF TypeOK
<1> DEFINE half == Halved(p, k, v)
<1>4. /\ DOMAIN half = Page \cup {id} /\ p # id
      /\ half[p] = Leaf(left, root_page_id, id)
      /\ half[id] = Leaf(right, root_page_id, nodes[p].next)
      /\ \A q \in Page : q # p => half[q] = nodes[q] /\ q # id
  BY <1>2, HalvedIs
<1>5. half = [q \in DOMAIN half |-> half[q]]
  BY DEF Halved, WithPage
<1>6. CASE SplitLeaf(k, v)
  <2>1. /\ HasRoom(Root)
        /\ nodes' = [half EXCEPT ![root_page_id] =
                                    InsertAfter(half[root_page_id], right[1].key, id)]
    BY <1>2, <1>6 DEF SplitLeaf, Promoted, Root
  <2> HIDE DEF half
  <2>2. half[root_page_id] = Root
    BY <1>1, <1>3, <1>4 DEF Root
  <2>3. ~ SplitDropped(k, v)
    BY <1>2, <2>1 DEF SplitDropped, Root
  <2>4. /\ DOMAIN nodes' = Page \cup {id}
        /\ nodes' = [q \in DOMAIN nodes' |-> nodes'[q]]
        /\ nodes'[root_page_id] = InsertAfter(Root, right[1].key, id)
        /\ \A q \in Page \cup {id} : q # root_page_id => nodes'[q] = half[q]
    BY <1>3, <1>4, <2>1, <2>2
  <2> QED  BY <1>1, <1>2, <1>3, <1>4, <2>1, <2>3, <2>4 DEF Page
<1>7. CASE SplitDropped(k, v)
  <2>1. nodes' = half /\ ~ HasRoom(Root)
    BY <1>2, <1>7 DEF SplitDropped, Root
  <2>2. ~ SplitLeaf(k, v)
    BY <1>2, <2>1 DEF SplitLeaf, Root
  <2> HIDE DEF half
  <2>3. nodes'[root_page_id] = Root
    BY <1>1, <1>3, <1>4, <2>1 DEF Root
  <2> QED  BY <1>1, <1>2, <1>3, <1>4, <1>5, <2>1, <2>2, <2>3 DEF Page
<1> QED  BY <1>6, <1>7

-----------------------------------------------------------------------------
(***************************************************************************)
(* Every step keeps the types, and creates the leaves it should.           *)
(***************************************************************************)
Gives(k, v) == given' = [given EXCEPT ![k] = @ \cup {v}]

LEMMA GivenIs ==
  ASSUME TypeOK, NEW k \in Keys, NEW v \in Values, Gives(k, v)
  PROVE  /\ given' \in [Keys -> SUBSET Values] /\ given'[k] = given[k] \cup {v}
         /\ \A j \in Keys : j # k => given'[j] = given[j]
         /\ \A j \in Keys : given[j] \subseteq given'[j]
BY DEF TypeOK, Gives

LEMMA FitsKeepsTypes ==
  ASSUME TypeOK, TwoLevelsDeep, LeavesSorted,
         NEW k \in Keys, NEW v \in Values, InsertFits(k, v), Gives(k, v)
  PROVE  TypeOK' /\ Leaves' = Leaves
<1> DEFINE p   == FindLeafPage(k)
           new == LeafInsert(nodes[p].entries, Entry(k, v))
<1>1. /\ p \in Leaves /\ p \in Page
      /\ root_page_id' = root_page_id /\ Page' = Page
      /\ nodes' = [q \in Page' |-> nodes'[q]]
      /\ nodes'[p] = Leaf(new, nodes[p].parent, nodes[p].next)
      /\ \A q \in Page : q # p => nodes'[q] = nodes[q]
  BY InsertFitsIs
<1>2. /\ nodes[p].entries \in Seq(Pairs) /\ Ascending(nodes[p].entries)
      /\ nodes[p].parent \in Page /\ nodes[p].next \in Page
  BY <1>1, LeafIs DEF LeavesSorted
<1>3. new \in Seq(Pairs)
  <2>1. Entry(k, v) \in Pairs
    BY PairTypes
  <2> QED  BY <1>2, <2>1, PairsHaveKeys, LeafInsertKeeps
<1> HIDE DEF p, new
<1>4. nodes'[p] \in LeafOf(Page') /\ nodes'[p].is_leaf
  BY <1>1, <1>2, <1>3, LeafTypes
<1>5. NewId \in 1 .. MaxPages /\ Page' = 0 .. NewId - 1 /\ root_page_id' \in Page'
  BY <1>1, NewIdIs DEF TypeOK
<1>6. given' \in [Keys -> SUBSET Values]
  BY GivenIs
<1>7. TypeOK'
  <2> DEFINE D == {p}
  <2>1. \A q \in Page' : q \notin D => q \in Page /\ nodes'[q] = nodes[q]
    BY <1>1
  <2>2. \A q \in D : nodes'[q] \in LeafOf(Page') \cup InternalOf(Page')
    BY <1>4
  <2>3. Page \subseteq Page'
    BY <1>1
  <2> HIDE DEF D
  <2>4. Renews(NewId, D)
    BY <1>1, <1>5, <1>6, <2>1, <2>2, <2>3 DEF Renews
  <2> QED  BY <1>5, <2>4, TypesKept
<1>8. Leaves' = Leaves
  BY <1>1, <1>4 DEF Leaves
<1> QED  BY <1>7, <1>8

\* A new root, typed.
LEMMA NewRootTypes ==
  ASSUME NEW P, NEW a \in P, NEW b \in P, 0 \in P, NEW k \in Keys,
         NEW page, page = Internal(<<k>>, <<a, b>>, 0)
  PROVE  /\ page \in InternalOf(P) /\ ~ page.is_leaf /\ page.parent = 0
         /\ page.keys = <<k>> /\ page.children = <<a, b>>
<1>1. page \in InternalPageOf(Keys, P, P)
  BY DEF Internal, InternalPageOf
<1>2. /\ ~ page.is_leaf /\ page.parent = 0
      /\ page.keys = <<k>> /\ page.children = <<a, b>>
  BY DEF Internal
<1>3. Len(<<a, b>>) = Len(<<k>>) + 1
  OBVIOUS
<1> QED  BY <1>1, <1>2, <1>3 DEF InternalOf

LEMMA RootKeepsTypes ==
  ASSUME TypeOK, TwoLevelsDeep, LeavesSorted,
         NEW k \in Keys, NEW v \in Values, SplitRoot(k, v), Gives(k, v),
         NEW id, id = NewId
  PROVE  /\ TypeOK' /\ Leaves' = Leaves \cup {id} /\ id \notin Leaves
         /\ id + 1 \notin Leaves' /\ id + 1 \in Page'
<1> DEFINE left  == LeftHalf(Merged(nodes[0].entries, Entry(k, v)))
           right == RightHalf(Merged(nodes[0].entries, Entry(k, v)))
           key   == right[1].key
<1>1. /\ 0 \in Leaves /\ root_page_id = 0 /\ NeedsSplit(0, k) /\ id + 1 < MaxPages
      /\ root_page_id' = id + 1 /\ Page' = Page \cup {id, id + 1}
      /\ nodes' = [q \in Page' |-> nodes'[q]]
      /\ nodes'[0] = Leaf(left, id + 1, id)
      /\ nodes'[id] = Leaf(right, id + 1, nodes[0].next)
      /\ nodes'[id + 1] = Internal(<<key>>, <<0, id>>, 0)
      /\ \A q \in Page : q # 0 => nodes'[q] = nodes[q]
  BY SplitRootIs
<1>2. Halves(Pairs, nodes[0].entries, Entry(k, v), left, right) /\ key \in Keys
  BY <1>1, HalvesOf
<1> HIDE DEF left, right, key
<1>3. left \in Seq(Pairs) /\ right \in Seq(Pairs)
  BY <1>2 DEF Halves
<1>4. /\ Page = 0 .. id - 1 /\ id \in Nat /\ id \notin Page /\ MaxPages \in Nat
      /\ 0 \in Page /\ nodes[0].next \in Page
  BY <1>1, NewIdIs, LeafIs
<1> DEFINE n == id + 2
<1>0. n \in 1 .. MaxPages /\ Page' = 0 .. n - 1
  BY <1>1, <1>4
<1> HIDE DEF n
<1>5. /\ Page \subseteq Page'
      /\ id \in Page' /\ id + 1 \in Page' /\ id + 1 \notin Page
      /\ 0 \in Page' /\ nodes[0].next \in Page'
  BY <1>1, <1>4
<1>6. /\ nodes'[0] \in LeafOf(Page') /\ nodes'[0].is_leaf
      /\ nodes'[id] \in LeafOf(Page') /\ nodes'[id].is_leaf
  <2>1. /\ Leaf(left, id + 1, id) \in LeafOf(Page') /\ Leaf(left, id + 1, id).is_leaf
    BY <1>3, <1>5, LeafTypes
  <2>2. /\ Leaf(right, id + 1, nodes[0].next) \in LeafOf(Page')
        /\ Leaf(right, id + 1, nodes[0].next).is_leaf
    BY <1>3, <1>5, LeafTypes
  <2> QED  BY <1>1, <2>1, <2>2
<1>7. nodes'[id + 1] \in InternalOf(Page') /\ ~ nodes'[id + 1].is_leaf
  <2> DEFINE root == Internal(<<key>>, <<0, id>>, 0)
  <2>0. 0 \in Page' /\ id \in Page' /\ key \in Keys
    BY <1>2, <1>5
  <2>1. root \in InternalOf(Page') /\ ~ root.is_leaf
    BY <2>0, NewRootTypes
  <2> HIDE DEF root
  <2>2. nodes'[id + 1] = root
    BY <1>1 DEF root
  <2> QED  BY <2>1, <2>2
<1>8. given' \in [Keys -> SUBSET Values]
  BY GivenIs
<1>9. TypeOK'
  <2> DEFINE D == {0, id, id + 1}
  <2>1. \A q \in Page' : q \notin D => q \in Page /\ nodes'[q] = nodes[q]
    BY <1>1
  <2>2. \A q \in D : nodes'[q] \in LeafOf(Page') \cup InternalOf(Page')
    BY <1>6, <1>7
  <2>3. root_page_id' \in Page'
    BY <1>1, <1>5
  <2> HIDE DEF D
  <2>4. nodes' = [q \in Page' |-> nodes'[q]]
    BY <1>1
  <2>5. Page \subseteq Page'
    BY <1>5
  <2>6. Renews(n, D)
    BY <1>0, <1>8, <2>1, <2>2, <2>3, <2>4, <2>5 DEF Renews
  <2> QED  BY <1>0, <2>6, TypesKept
<1>10. \A q \in Page' : nodes'[q].is_leaf <=> q \in Leaves \cup {id}
  <2> SUFFICES ASSUME NEW q \in Page'
               PROVE  nodes'[q].is_leaf <=> q \in Leaves \cup {id}
    OBVIOUS
  <2>1. CASE q \in {0, id}
    BY <1>1, <1>6, <2>1
  <2>2. CASE q = id + 1
    <3>1. q \notin Leaves /\ q # id
      BY <1>4, <1>5, <2>2 DEF Leaves
    <3> QED  BY <1>7, <2>2, <3>1
  <2>3. CASE q \notin {0, id, id + 1}
    BY <1>1, <2>3 DEF Leaves
  <2> QED  BY <2>1, <2>2, <2>3
<1>11. Leaves' = Leaves \cup {id}
  <2>1. Leaves \subseteq Page'
    BY <1>5 DEF Leaves
  <2> QED  BY <1>5, <1>10, <2>1 DEF Leaves
<1>12. id \notin Leaves /\ id + 1 \notin Leaves /\ id + 1 # id
  BY <1>4, <1>5 DEF Leaves
<1> QED  BY <1>5, <1>9, <1>11, <1>12

LEMMA SplitKeepsTypes ==
  ASSUME TypeOK, TwoLevelsDeep, LeavesSorted, NEW k \in Keys, NEW v \in Values,
         SplitLeaf(k, v) \/ SplitDropped(k, v), Gives(k, v),
         NEW id, id = NewId
  PROVE  TypeOK' /\ Leaves' = Leaves \cup {id} /\ id \notin Leaves
<1> DEFINE p     == FindLeafPage(k)
           left  == LeftHalf(Merged(nodes[p].entries, Entry(k, v)))
           right == RightHalf(Merged(nodes[p].entries, Entry(k, v)))
           key   == right[1].key
           r     == root_page_id
<1>1. /\ p \in Leaves /\ r \notin Leaves /\ NeedsSplit(p, k) /\ id < MaxPages
      /\ root_page_id' = r /\ Page' = Page \cup {id}
      /\ nodes' = [q \in Page' |-> nodes'[q]]
      /\ nodes'[p] = Leaf(left, r, id) /\ nodes'[id] = Leaf(right, r, nodes[p].next)
      /\ SplitLeaf(k, v) => nodes'[r] = InsertAfter(Root, key, id)
      /\ SplitDropped(k, v) => nodes'[r] = Root
      /\ \A q \in Page : q # p /\ q # r => nodes'[q] = nodes[q]
  BY SplitLeafIs
<1>2. Halves(Pairs, nodes[p].entries, Entry(k, v), left, right) /\ key \in Keys
  BY <1>1, HalvesOf
<1> HIDE DEF p, left, right, key
<1>3. left \in Seq(Pairs) /\ right \in Seq(Pairs)
  BY <1>2 DEF Halves
<1>4. /\ Page = 0 .. id - 1 /\ id \in Nat /\ id \notin Page /\ MaxPages \in Nat
      /\ p \in Page /\ nodes[p].next \in Page /\ r \in Page
  BY <1>1, NewIdIs, LeafIs DEF TypeOK
<1> DEFINE n == id + 1
<1>0. n \in 1 .. MaxPages /\ Page' = 0 .. n - 1
  BY <1>1, <1>4
<1> HIDE DEF n
<1>5. /\ Page \subseteq Page'
      /\ id \in Page' /\ nodes[p].next \in Page' /\ r \in Page'
  BY <1>1, <1>4
<1>6. /\ nodes'[p] \in LeafOf(Page') /\ nodes'[p].is_leaf
      /\ nodes'[id] \in LeafOf(Page') /\ nodes'[id].is_leaf
  <2>1. /\ Leaf(left, r, id) \in LeafOf(Page') /\ Leaf(left, r, id).is_leaf
    BY <1>3, <1>5, LeafTypes
  <2>2. /\ Leaf(right, r, nodes[p].next) \in LeafOf(Page')
        /\ Leaf(right, r, nodes[p].next).is_leaf
    BY <1>3, <1>5, LeafTypes
  <2> QED  BY <1>1, <2>1, <2>2
<1>7. nodes'[r] \in InternalOf(Page') /\ ~ nodes'[r].is_leaf
  <2>1. Root \in InternalOf(Page)
    BY <1>1, <1>4, InternalIs DEF Root, InternalOf
  <2>2. Root \in InternalOf(Page')
    <3>0. Page \subseteq Page'
      BY <1>5
    <3>1. InternalOf(Page) \subseteq InternalOf(Page')
      BY <3>0, TypesGrow
    <3> QED  BY <2>1, <3>1
  <2>3. CASE SplitDropped(k, v)
    BY <1>1, <2>2, <2>3, IsLeafOf
  <2>4. CASE SplitLeaf(k, v)
    <3>1. /\ Root \in InternalPageOf(Keys, Page', Page')
          /\ Len(Root.children) = Len(Root.keys) + 1
      BY <2>2 DEF InternalOf
    <3> DEFINE new == InsertAfter(Root, key, id)
               i   == SeparatorPlace(Root.keys, key)
    <3>4. /\ id \in Page' /\ key \in Keys
          /\ i = SeparatorPlace(Root.keys, key) /\ new = InsertAfter(Root, key, id)
      BY <1>2, <1>5
    <3>3. nodes'[r] = new
      BY <1>1, <2>4
    <3> HIDE DEF new, i
    <3>2. /\ new \in InternalPageOf(Keys, Page', Page') /\ ~ new.is_leaf
          /\ Len(Root.keys) \in Nat
          /\ Len(new.keys) = Len(Root.keys) + 1
          /\ Len(new.children) = Len(Root.children) + 1
      BY <3>1, <3>4, InsertAfterIs
    <3> QED  BY <3>1, <3>2, <3>3 DEF InternalOf
  <2> QED  BY <1>1, <2>3, <2>4
<1>8. given' \in [Keys -> SUBSET Values]
  BY GivenIs
<1>9. TypeOK'
  <2> DEFINE D == {p, id, r}
  <2>1. \A q \in Page' : q \notin D => q \in Page /\ nodes'[q] = nodes[q]
    BY <1>1
  <2>2. \A q \in D : nodes'[q] \in LeafOf(Page') \cup InternalOf(Page')
    BY <1>6, <1>7
  <2>3. root_page_id' \in Page'
    BY <1>1, <1>5
  <2> HIDE DEF D
  <2>4. nodes' = [q \in Page' |-> nodes'[q]]
    BY <1>1
  <2>5. Page \subseteq Page'
    BY <1>5
  <2>6. Renews(n, D)
    BY <1>0, <1>8, <2>1, <2>2, <2>3, <2>4, <2>5 DEF Renews
  <2> QED  BY <1>0, <2>6, TypesKept
<1>10. \A q \in Page' : nodes'[q].is_leaf <=> q \in Leaves \cup {id}
  <2> SUFFICES ASSUME NEW q \in Page'
               PROVE  nodes'[q].is_leaf <=> q \in Leaves \cup {id}
    OBVIOUS
  <2>1. CASE q \in {p, id}
    BY <1>1, <1>6, <2>1
  <2>2. CASE q = r
    <3>1. q \notin Leaves /\ q # id
      BY <1>1, <1>4, <2>2
    <3> QED  BY <1>7, <2>2, <3>1
  <2>3. CASE q \notin {p, id, r}
    BY <1>1, <2>3 DEF Leaves
  <2> QED  BY <2>1, <2>2, <2>3
<1>11. Leaves' = Leaves \cup {id}
  <2>1. Leaves \subseteq Page'
    BY <1>5 DEF Leaves
  <2> QED  BY <1>5, <1>10, <2>1 DEF Leaves
<1>12. id \notin Leaves
  BY <1>4 DEF Leaves
<1> QED  BY <1>9, <1>11, <1>12

-----------------------------------------------------------------------------
(***************************************************************************)
(* What a step does to the leaves: one of them takes an entry, or one of   *)
(* them becomes two.                                                       *)
(***************************************************************************)
FillsLeaf(p, e) ==
  /\ p \in Leaves /\ Leaves' = Leaves
  /\ nodes'[p].entries \in Seq(Pairs) /\ Ascending(nodes'[p].entries)
  /\ Len(nodes'[p].entries) \in 1 .. LeafMax
  /\ ToSet(nodes'[p].entries) = ToSet(nodes[p].entries) \cup {e}
  /\ e.key \notin KeysOf(p)
  /\ \A q \in Leaves : /\ nodes'[q].next = nodes[q].next
                       /\ q # p => nodes'[q].entries = nodes[q].entries

SplitsLeaf(p, id, e) ==
  /\ p \in Leaves /\ Leaves' = Leaves \cup {id} /\ id \notin Leaves
  /\ Halves(Pairs, nodes[p].entries, e, nodes'[p].entries, nodes'[id].entries)
  /\ nodes'[p].next = id /\ nodes'[id].next = nodes[p].next
  /\ \A q \in Leaves : q # p => /\ nodes'[q].entries = nodes[q].entries
                                /\ nodes'[q].next = nodes[q].next

LEMMA FitsFillsLeaf ==
  ASSUME TypeOK, TwoLevelsDeep, LeavesSorted,
         NEW k \in Keys, NEW v \in Values, InsertFits(k, v), Gives(k, v),
         NEW p, p = FindLeafPage(k), NEW e, e = Entry(k, v)
  PROVE  FillsLeaf(p, e)
<1> DEFINE t   == nodes[p].entries
           new == LeafInsert(t, e)
<1>1. /\ p \in Leaves /\ p \in Page /\ LeafAccepts(t, k)
      /\ nodes'[p] = Leaf(new, nodes[p].parent, nodes[p].next)
      /\ \A q \in Page : q # p => nodes'[q] = nodes[q]
  BY InsertFitsIs
<1>2. t \in Seq(Pairs) /\ Ascending(t)
  BY <1>1, LeafIs DEF LeavesSorted
<1>3. e \in Pairs /\ e.key = k /\ k \in Int /\ HaveKeys(Pairs)
  BY PairTypes, PairsHaveKeys
<1>4. Leaves' = Leaves
  BY FitsKeepsTypes
<1>5. nodes'[p].entries = new /\ nodes'[p].next = nodes[p].next
  BY <1>1, LeafParts
<1>6. LeafAccepts(t, e.key) /\ Len(t) < LeafMax /\ ~ LeafHas(t, k)
  BY <1>1, <1>3 DEF LeafAccepts
<1> HIDE DEF t
<1>7. /\ new \in Seq(Pairs) /\ Ascending(new)
      /\ Len(new) = Len(t) + 1 /\ ToSet(new) = ToSet(t) \cup {e}
  BY <1>2, <1>3, <1>6, LeafInsertKeeps
<1> HIDE DEF new
<1>8. Len(new) \in 1 .. LeafMax
  <2>1. Len(t) \in Nat
    BY <1>2
  <2> QED  BY <1>6, <1>7, <2>1, LeafMaxAssumption
<1>9. e.key \notin KeysIn(t)
  BY <1>2, <1>3, <1>6, LookupFinds
<1>10. \A q \in Leaves : /\ nodes'[q].next = nodes[q].next
                         /\ q # p => nodes'[q].entries = nodes[q].entries
  BY <1>1, <1>5 DEF Leaves
<1> QED  BY <1>1, <1>4, <1>5, <1>7, <1>8, <1>9, <1>10 DEF FillsLeaf, KeysOf, t

LEMMA RootSplitsLeaf ==
  ASSUME TypeOK, TwoLevelsDeep, LeavesSorted,
         NEW k \in Keys, NEW v \in Values, SplitRoot(k, v), Gives(k, v),
         NEW id, id = NewId, NEW e, e = Entry(k, v)
  PROVE  SplitsLeaf(0, id, e)
<1> DEFINE left  == LeftHalf(Merged(nodes[0].entries, Entry(k, v)))
           right == RightHalf(Merged(nodes[0].entries, Entry(k, v)))
<1>1. /\ 0 \in Leaves /\ root_page_id = 0 /\ NeedsSplit(0, k) /\ id + 1 < MaxPages
      /\ root_page_id' = id + 1 /\ Page' = Page \cup {id, id + 1}
      /\ nodes' = [q \in Page' |-> nodes'[q]]
      /\ nodes'[0] = Leaf(left, id + 1, id)
      /\ nodes'[id] = Leaf(right, id + 1, nodes[0].next)
      /\ nodes'[id + 1] = Internal(<<right[1].key>>, <<0, id>>, 0)
      /\ \A q \in Page : q # 0 => nodes'[q] = nodes[q]
  BY SplitRootIs
<1>2. Halves(Pairs, nodes[0].entries, e, left, right)
  BY <1>1, HalvesOf
<1>3. Leaves' = Leaves \cup {id} /\ id \notin Leaves
  BY RootKeepsTypes
<1> HIDE DEF left, right
<1>4. /\ nodes'[0].entries = left /\ nodes'[0].next = id
      /\ nodes'[id].entries = right /\ nodes'[id].next = nodes[0].next
  BY <1>1, LeafParts
<1>5. \A q \in Leaves : q # 0 => nodes'[q] = nodes[q]
  BY <1>1 DEF Leaves
<1> QED  BY <1>1, <1>2, <1>3, <1>4, <1>5 DEF SplitsLeaf

LEMMA SplitSplitsLeaf ==
  ASSUME TypeOK, TwoLevelsDeep, LeavesSorted, NEW k \in Keys, NEW v \in Values,
         SplitLeaf(k, v) \/ SplitDropped(k, v), Gives(k, v),
         NEW id, id = NewId, NEW p, p = FindLeafPage(k), NEW e, e = Entry(k, v)
  PROVE  SplitsLeaf(p, id, e)
<1> DEFINE left  == LeftHalf(Merged(nodes[p].entries, e))
           right == RightHalf(Merged(nodes[p].entries, e))
<1>1. /\ p \in Leaves /\ root_page_id \notin Leaves /\ NeedsSplit(p, k)
      /\ nodes'[p] = Leaf(left, root_page_id, id)
      /\ nodes'[id] = Leaf(right, root_page_id, nodes[p].next)
      /\ \A q \in Page : q # p /\ q # root_page_id => nodes'[q] = nodes[q]
  BY SplitLeafIs
<1>2. Halves(Pairs, nodes[p].entries, e, left, right)
  BY <1>1, HalvesOf
<1>3. Leaves' = Leaves \cup {id} /\ id \notin Leaves
  BY SplitKeepsTypes
<1> HIDE DEF left, right
<1>4. /\ nodes'[p].entries = left /\ nodes'[p].next = id
      /\ nodes'[id].entries = right /\ nodes'[id].next = nodes[p].next
  BY <1>1, LeafParts
<1>5. \A q \in Leaves : q # p => nodes'[q] = nodes[q]
  BY <1>1 DEF Leaves
<1> QED  BY <1>1, <1>2, <1>3, <1>4, <1>5 DEF SplitsLeaf

-----------------------------------------------------------------------------
(***************************************************************************)
(* Leaves stay sorted and hold what was given.                             *)
(***************************************************************************)
LEMMA GivenKeys ==
  ASSUME TypeOK, NEW p \in Leaves
  PROVE  \A e \in ToSet(nodes[p].entries) : e.key \in Keys /\ e \in Pairs
<1>1. ToSet(nodes[p].entries) \subseteq Pairs
  BY LeafIs, Elements
<1> QED  BY <1>1 DEF Pairs

\* A sequence with an element is not the empty one.
LEMMA NotEmpty ==
  ASSUME NEW T, NEW t \in Seq(T), Len(t) \in 1 .. LeafMax
  PROVE  t # << >> /\ Len(t) <= LeafMax
BY LeafMaxAssumption

\* A leaf that is empty is the only one.
LEMMA OthersNotEmpty ==
  ASSUME TypeOK, HoldsGiven, NEW p \in Leaves, NEW q \in Leaves, q # p
  PROVE  nodes[q].entries # << >>
BY DEF HoldsGiven, Leaves

LEMMA FillKeepsSorted ==
  ASSUME TypeOK, LeavesSorted, HoldsGiven, NEW p, NEW e, FillsLeaf(p, e)
  PROVE  LeavesSorted'
<1>1. SUFFICES ASSUME NEW q \in Leaves
               PROVE  /\ Len(nodes'[q].entries) <= LeafMax
                      /\ nodes'[q].entries # << >>
                      /\ Ascending(nodes'[q].entries)
  BY DEF FillsLeaf, LeavesSorted, Ascending
<1>2. CASE q = p
  BY <1>2, NotEmpty DEF FillsLeaf
<1>3. CASE q # p
  <2>1. nodes[q].entries # << >> /\ nodes'[q].entries = nodes[q].entries
    BY <1>3, OthersNotEmpty DEF FillsLeaf
  <2> QED  BY <2>1 DEF LeavesSorted
<1> QED  BY <1>2, <1>3

LEMMA SplitKeepsSorted ==
  ASSUME TypeOK, LeavesSorted, HoldsGiven, NEW p, NEW id, NEW e, SplitsLeaf(p, id, e)
  PROVE  LeavesSorted'
<1>1. SUFFICES ASSUME NEW q \in Leaves \cup {id}
               PROVE  /\ Len(nodes'[q].entries) <= LeafMax
                      /\ nodes'[q].entries # << >>
                      /\ Ascending(nodes'[q].entries)
  BY DEF SplitsLeaf, LeavesSorted, Ascending
<1>2. CASE q = p \/ q = id
  BY <1>2, NotEmpty DEF SplitsLeaf, Halves
<1>3. CASE q # p /\ q # id
  <2>1. nodes[q].entries # << >> /\ nodes'[q].entries = nodes[q].entries
    BY <1>3, OthersNotEmpty DEF SplitsLeaf
  <2> QED  BY <1>3, <2>1 DEF LeavesSorted
<1> QED  BY <1>2, <1>3

\* The entries a leaf has after a step are of one leaf before it, or the new one.
LEMMA FillKeepsGiven ==
  ASSUME TypeOK, TypeOK', LeavesSorted', HoldsGiven, NEW k \in Keys, NEW v \in Values,
         Gives(k, v), NEW p, NEW e, e = Entry(k, v), FillsLeaf(p, e)
  PROVE  HoldsGiven'
<1>1. e.key = k /\ e.value = v /\ given'[k] = given[k] \cup {v}
      /\ \A j \in Keys : given[j] \subseteq given'[j] /\ (j # k => given'[j] = given[j])
  BY PairTypes, GivenIs
<1>2. \A q \in Leaves : ToSet(nodes'[q].entries) \subseteq ToSet(nodes[q].entries) \cup {e}
  BY DEF FillsLeaf
<1>3. \A q \in Leaves : KeysIn(nodes[q].entries) \subseteq KeysIn(nodes'[q].entries)
  <2> SUFFICES ASSUME NEW q \in Leaves
               PROVE  ToSet(nodes[q].entries) \subseteq ToSet(nodes'[q].entries)
    BY DEF KeysIn
  <2> QED  BY DEF FillsLeaf
<1>4. k \in KeysIn(nodes'[p].entries)
  BY <1>1 DEF FillsLeaf, KeysIn
<1>5. ASSUME NEW q \in Leaves'  PROVE nodes'[q].entries # << >>
  BY <1>1, <1>5 DEF LeavesSorted
<1>6. ASSUME NEW q \in Leaves', NEW d \in ToSet(nodes'[q].entries)
      PROVE  d.value \in given'[d.key]
  <2>1. q \in Leaves
    BY DEF FillsLeaf
  <2>2. CASE d = e
    BY <1>1, <2>2
  <2>3. CASE d \in ToSet(nodes[q].entries)
    <3>1. d.key \in Keys /\ d.value \in given[d.key]
      BY <2>1, <2>3, GivenKeys DEF HoldsGiven
    <3> QED  BY <1>1, <3>1
  <2> QED  BY <1>2, <2>1, <2>2, <2>3
<1>7. ASSUME NEW j \in Keys, given'[j] # {}
      PROVE  \E q \in Leaves' : j \in KeysIn(nodes'[q].entries)
  <2>1. CASE j = k
    BY <1>4, <2>1 DEF FillsLeaf
  <2>2. CASE j # k
    <3>1. PICK q \in Leaves : j \in KeysIn(nodes[q].entries)
      BY <1>1, <1>7, <2>2 DEF HoldsGiven, KeysOf
    <3> QED  BY <1>3, <3>1 DEF FillsLeaf
  <2> QED  BY <2>1, <2>2
<1> QED  BY <1>5, <1>6, <1>7 DEF HoldsGiven, KeysOf

LEMMA SplitKeepsGiven ==
  ASSUME TypeOK, TypeOK', LeavesSorted', HoldsGiven, NEW k \in Keys, NEW v \in Values,
         Gives(k, v), NEW p, NEW id, NEW e, e = Entry(k, v), SplitsLeaf(p, id, e)
  PROVE  HoldsGiven'
<1>1. e.key = k /\ e.value = v /\ given'[k] = given[k] \cup {v}
      /\ \A j \in Keys : given[j] \subseteq given'[j] /\ (j # k => given'[j] = given[j])
  BY PairTypes, GivenIs
<1> DEFINE Before(q) == ToSet(nodes[q].entries)
           After(q)  == ToSet(nodes'[q].entries)
<1>2. /\ After(p) \subseteq Before(p) \cup {e} /\ After(id) \subseteq Before(p) \cup {e}
      /\ \A q \in Leaves : q # p => After(q) = Before(q)
  BY DEF SplitsLeaf, Halves
<1>3. /\ KeysIn(nodes'[p].entries) \cup KeysIn(nodes'[id].entries)
           = KeysIn(nodes[p].entries) \cup {k}
      /\ \A q \in Leaves : q # p => KeysIn(nodes'[q].entries) = KeysIn(nodes[q].entries)
  BY <1>1 DEF SplitsLeaf, Halves
<1>4. p \in Leaves /\ Leaves' = Leaves \cup {id}
  BY DEF SplitsLeaf
<1>5. ASSUME NEW q \in Leaves'  PROVE nodes'[q].entries # << >>
  BY <1>1, <1>5 DEF LeavesSorted
<1>6. ASSUME NEW q \in Leaves', NEW d \in After(q)
      PROVE  d.value \in given'[d.key]
  <2>1. d = e \/ \E r \in Leaves : d \in Before(r)
    BY <1>2, <1>4
  <2>2. CASE d = e
    BY <1>1, <2>2
  <2>3. CASE \E r \in Leaves : d \in Before(r)
    <3>1. d.key \in Keys /\ d.value \in given[d.key]
      BY <2>3, GivenKeys DEF HoldsGiven
    <3> QED  BY <1>1, <3>1
  <2> QED  BY <2>1, <2>2, <2>3
<1>7. ASSUME NEW j \in Keys, given'[j] # {}
      PROVE  \E q \in Leaves' : j \in KeysIn(nodes'[q].entries)
  <2>1. CASE j = k
    BY <1>3, <1>4, <2>1
  <2>2. CASE j # k
    <3>1. PICK q \in Leaves : j \in KeysIn(nodes[q].entries)
      BY <1>1, <1>7, <2>2 DEF HoldsGiven, KeysOf
    <3> QED  BY <1>3, <1>4, <3>1
  <2> QED  BY <2>1, <2>2
<1> QED  BY <1>5, <1>6, <1>7 DEF HoldsGiven, KeysOf

-----------------------------------------------------------------------------
(***************************************************************************)
(* The leaves stay one list.                                               *)
(***************************************************************************)
LEMMA FillKeepsList ==
  ASSUME TypeOK, OneList, NEW p, NEW e, FillsLeaf(p, e), NewId' = NewId
  PROVE  OneList'
<1>0. PICK n \in 1 .. NewId : \E list \in [1 .. n -> Leaves] : Lists(list, n)
  BY DEF OneList
<1>1. PICK list \in [1 .. n -> Leaves] : Lists(list, n)
  BY <1>0
<1>2. Leaves' = Leaves /\ \A i \in 1 .. n : nodes'[list[i]].next = nodes[list[i]].next
  BY <1>1 DEF FillsLeaf
<1>3. /\ list[1] = 0
      /\ \A q \in Leaves' : \E i \in 1 .. n : list[i] = q
      /\ \A i, j \in 1 .. n : list[i] = list[j] => i = j
      /\ \A i \in 1 .. n :
           nodes'[list[i]].next = IF i < n THEN list[i + 1] ELSE NoNext
  BY <1>1, <1>2 DEF Lists
<1>4. Lists(list, n)'
  BY <1>3 DEF Lists
<1>5. list \in [1 .. n -> Leaves'] /\ n \in 1 .. NewId'
  BY <1>2
<1> QED  BY <1>4, <1>5 DEF OneList

\* The list after a step.
ListedAfter(list, n) ==
  /\ list[1] = 0
  /\ \A q \in Leaves' : \E i \in 1 .. n : list[i] = q
  /\ \A i, j \in 1 .. n : list[i] = list[j] => i = j
  /\ \A i \in 1 .. n : nodes'[list[i]].next = IF i < n THEN list[i + 1] ELSE NoNext

\* The new leaf goes behind the leaf it was split off.
LEMMA ListGrows ==
  ASSUME NEW n \in Nat, NEW list, Lists(list, n), \A i \in 1 .. n : list[i] \in Leaves,
         NEW p, NEW id, NEW e, SplitsLeaf(p, id, e), NEW m \in 1 .. n, list[m] = p,
         NEW new, new[m + 1] = id, \A i \in 1 .. m : new[i] = list[i],
         \A i \in m + 2 .. n + 1 : new[i] = list[i - 1]
  PROVE  ListedAfter(new, n + 1)
<1>1. Lists(list, n)
  OBVIOUS
<1>2. list[m] = p
  OBVIOUS
<1>3. n \in Nat /\ m \in Nat /\ 1 <= m /\ m <= n
  OBVIOUS
<1>4. ASSUME NEW i \in 1 .. n + 1
      PROVE  /\ i <= m => i \in 1 .. n /\ new[i] = list[i]
             /\ i = m + 1 => new[i] = id
             /\ i > m + 1 => i - 1 \in 1 .. n /\ new[i] = list[i - 1]
  <2>1. i <= m => i \in 1 .. m /\ i \in 1 .. n
    BY <1>3
  <2>2. i > m + 1 => i \in m + 2 .. n + 1 /\ i - 1 \in 1 .. n
    BY <1>3
  <2> QED  BY <2>1, <2>2
<1>5. \A i \in 1 .. n : list[i] \in Leaves /\ list[i] # id
  BY DEF SplitsLeaf
<1>7. new[1] = 0
  <2>1. 1 \in 1 .. n + 1 /\ 1 <= m
    BY <1>3
  <2> QED  BY <1>1, <1>4, <2>1 DEF Lists
<1>8. ASSUME NEW q \in Leaves'  PROVE \E i \in 1 .. n + 1 : new[i] = q
  <2>1. CASE q = id
    <3>1. m + 1 \in 1 .. n + 1
      BY <1>3
    <3> QED  BY <1>4, <2>1, <3>1
  <2>2. CASE q # id
    <3>1. PICK i \in 1 .. n : list[i] = q
      BY <1>1, <2>2 DEF SplitsLeaf, Lists
    <3>2. CASE i <= m
      <4>1. i \in 1 .. n + 1
        BY <1>3
      <4> QED  BY <1>4, <3>1, <3>2, <4>1
    <3>3. CASE i > m
      <4>1. i + 1 \in 1 .. n + 1 /\ i + 1 > m + 1 /\ i + 1 - 1 = i
        BY <1>3, <3>3
      <4>2. new[i + 1] = list[i + 1 - 1]
        BY <1>4, <4>1
      <4> QED  BY <3>1, <4>1, <4>2
    <3> QED  BY <1>3, <3>2, <3>3
  <2> QED  BY <2>1, <2>2
<1>9. ASSUME NEW i \in 1 .. n + 1, NEW j \in 1 .. n + 1, new[i] = new[j]
      PROVE  i = j
  <2>1. \A a, b \in 1 .. n : list[a] = list[b] => a = b
    BY <1>1 DEF Lists
  <2>2. i \in Int /\ j \in Int /\ m \in Int
    BY <1>3
  <2>3. CASE i = m + 1 \/ j = m + 1
    BY <1>4, <1>5, <1>9, <2>2, <2>3
  <2>4. CASE i # m + 1 /\ j # m + 1
    <3>1. i <= m \/ i > m + 1
      BY <2>2, <2>4
    <3>2. j <= m \/ j > m + 1
      BY <2>2, <2>4
    <3>3. CASE i <= m /\ j <= m
      BY <1>4, <1>9, <2>1, <3>3
    <3>4. CASE i <= m /\ j > m + 1
      <4>1. i = j - 1
        BY <1>4, <1>9, <2>1, <3>4
      <4> QED  BY <2>2, <3>4, <4>1
    <3>5. CASE i > m + 1 /\ j <= m
      <4>1. i - 1 = j
        BY <1>4, <1>9, <2>1, <3>5
      <4> QED  BY <2>2, <3>5, <4>1
    <3>6. CASE i > m + 1 /\ j > m + 1
      <4>1. i - 1 = j - 1
        BY <1>4, <1>9, <2>1, <3>6
      <4> QED  BY <2>2, <4>1
    <3> QED  BY <3>1, <3>2, <3>3, <3>4, <3>5, <3>6
  <2> QED  BY <2>3, <2>4
<1>10. ASSUME NEW i \in 1 .. n + 1
       PROVE  nodes'[new[i]].next = IF i < n + 1 THEN new[i + 1] ELSE NoNext
  <2>1. i \in Int /\ m \in Int /\ n \in Int
    BY <1>3
  <2>2. \A j \in 1 .. n : nodes[list[j]].next = IF j < n THEN list[j + 1] ELSE NoNext
    BY <1>1 DEF Lists
  <2>3. \A j \in 1 .. n : j # m => nodes'[list[j]].next = nodes[list[j]].next
    <3>1. \A j \in 1 .. n : j # m => list[j] # p
      BY <1>1, <1>2 DEF Lists
    <3> QED  BY <1>5, <3>1 DEF SplitsLeaf
  <2>4. nodes'[p].next = id /\ nodes'[id].next = nodes[p].next
    BY DEF SplitsLeaf
  <2>5. CASE i < m
    <3>1. i + 1 \in 1 .. n + 1 /\ i + 1 <= m /\ i < n /\ i \in 1 .. n
      BY <1>3, <2>1, <2>5
    <3>2. new[i] = list[i] /\ new[i + 1] = list[i + 1]
      BY <1>4, <2>5, <3>1
    <3> QED  BY <2>1, <2>2, <2>3, <2>5, <3>1, <3>2
  <2>6. CASE i = m
    <3>1. i + 1 \in 1 .. n + 1 /\ i < n + 1 /\ i <= m
      BY <1>3, <2>1, <2>6
    <3>2. new[i] = p /\ new[i + 1] = id
      BY <1>2, <1>4, <2>6, <3>1
    <3> QED  BY <2>4, <3>1, <3>2
  <2>7. CASE i = m + 1
    <3>1. new[i] = id /\ nodes'[id].next = IF m < n THEN list[m + 1] ELSE NoNext
      BY <1>2, <1>4, <2>2, <2>4, <2>7
    <3>2. CASE m < n
      <4>1. i + 1 \in 1 .. n + 1 /\ i + 1 > m + 1 /\ i + 1 - 1 = m + 1 /\ i < n + 1
        BY <1>3, <2>1, <2>7, <3>2
      <4>2. new[i + 1] = list[i + 1 - 1]
        BY <1>4, <4>1
      <4> QED  BY <3>1, <3>2, <4>1, <4>2
    <3>3. CASE ~ (m < n)
      <4>1. ~ (i < n + 1)
        BY <1>3, <2>1, <2>7, <3>3
      <4> QED  BY <3>1, <3>3, <4>1
    <3> QED  BY <3>2, <3>3
  <2>8. CASE i > m + 1
    <3>1. /\ new[i] = list[i - 1] /\ i - 1 \in 1 .. n /\ i - 1 # m
          /\ (i - 1 < n <=> i < n + 1) /\ i - 1 + 1 = i
      BY <1>4, <2>1, <2>8
    <3>2. nodes'[new[i]].next = IF i - 1 < n THEN list[i - 1 + 1] ELSE NoNext
      BY <2>2, <2>3, <3>1
    <3>3. CASE i < n + 1
      <4>1. i + 1 \in 1 .. n + 1 /\ i + 1 > m + 1 /\ i + 1 - 1 = i
        BY <2>1, <2>8, <3>3
      <4>2. new[i + 1] = list[i + 1 - 1]
        BY <1>4, <4>1
      <4> QED  BY <3>1, <3>2, <3>3, <4>1, <4>2
    <3>4. CASE ~ (i < n + 1)
      BY <3>1, <3>2, <3>4
    <3> QED  BY <3>3, <3>4
  <2> QED  BY <2>1, <2>5, <2>6, <2>7, <2>8
<1> QED  BY <1>7, <1>8, <1>9, <1>10 DEF ListedAfter

LEMMA SplitKeepsList ==
  ASSUME TypeOK, OneList, NEW p, NEW id, NEW e, SplitsLeaf(p, id, e), NewId' > NewId,
         NewId' \in Nat
  PROVE  OneList'
<1>0. PICK n \in 1 .. NewId : \E list \in [1 .. n -> Leaves] : Lists(list, n)
  BY DEF OneList
<1>1. PICK list \in [1 .. n -> Leaves] : Lists(list, n)
  BY <1>0
<1>2. PICK m \in 1 .. n : list[m] = p
  BY <1>1 DEF SplitsLeaf, Lists
<1>3. n \in Nat /\ m \in Nat /\ NewId \in Nat /\ 1 <= m /\ m <= n
  BY NewIdIs
<1> DEFINE new == [i \in 1 .. n + 1 |-> IF i <= m THEN list[i]
                                        ELSE IF i = m + 1 THEN id ELSE list[i - 1]]
<1>4. /\ new[m + 1] = id /\ \A i \in 1 .. m : new[i] = list[i]
      /\ \A i \in m + 2 .. n + 1 : new[i] = list[i - 1]
  BY <1>3
<1>5. new \in [1 .. n + 1 -> Leaves']
  BY <1>3 DEF SplitsLeaf
<1> HIDE DEF new
<1>6. ListedAfter(new, n + 1)
  BY <1>1, <1>2, <1>3, <1>4, ListGrows
<1>7. Lists(new, n + 1)'
  BY <1>6 DEF Lists, ListedAfter
<1>8. n + 1 \in 1 .. NewId'
  BY <1>3
<1> QED  BY <1>5, <1>7, <1>8 DEF OneList

-----------------------------------------------------------------------------
(***************************************************************************)
(* The tree stays two levels deep.                                         *)
(***************************************************************************)
LEMMA ElementsOfTwo ==
  ASSUME NEW a, NEW b
  PROVE  ToSet(<<a, b>>) = {a, b}
BY DEF ToSet

LEMMA FitsKeepsLevels ==
  ASSUME TypeOK, TwoLevelsDeep, LeavesSorted,
         NEW k \in Keys, NEW v \in Values, InsertFits(k, v), Gives(k, v)
  PROVE  TwoLevelsDeep'
<1> DEFINE p   == FindLeafPage(k)
           new == LeafInsert(nodes[p].entries, Entry(k, v))
<1>1. /\ p \in Leaves /\ p \in Page
      /\ root_page_id' = root_page_id /\ Page' = Page
      /\ nodes'[p] = Leaf(new, nodes[p].parent, nodes[p].next)
      /\ \A q \in Page : q # p => nodes'[q] = nodes[q]
  BY InsertFitsIs
<1> HIDE DEF p, new
<1>2. Leaves' = Leaves
  BY FitsKeepsTypes
<1>3. \A q \in Page : nodes'[q].parent = nodes[q].parent
  BY <1>1, LeafParts
<1>4. \A q \in Page \ Leaves : nodes'[q] = nodes[q]
  BY <1>1
<1>5. ASSUME root_page_id \notin Leaves
      PROVE  \A q \in ToSet(nodes'[root_page_id].children) : nodes'[q].parent = root_page_id
  <2>1. root_page_id \in Page /\ nodes'[root_page_id] = Root
    BY <1>4, <1>5 DEF TypeOK, Root
  <2>2. \A q \in ToSet(Root.children) : nodes[q].parent = root_page_id /\ q \in Page
    BY <1>5, <2>1 DEF TwoLevelsDeep, Root, Leaves
  <2> QED  BY <1>3, <2>1, <2>2
<1> QED  BY <1>1, <1>2, <1>4, <1>5 DEF TwoLevelsDeep, Root

LEMMA RootKeepsLevels ==
  ASSUME TypeOK, TwoLevelsDeep, LeavesSorted,
         NEW k \in Keys, NEW v \in Values, SplitRoot(k, v), Gives(k, v)
  PROVE  TwoLevelsDeep'
<1> DEFINE id    == NewId
           left  == LeftHalf(Merged(nodes[0].entries, Entry(k, v)))
           right == RightHalf(Merged(nodes[0].entries, Entry(k, v)))
           key   == right[1].key
           root  == Internal(<<key>>, <<0, id>>, 0)
<1>1. /\ 0 \in Leaves /\ root_page_id = 0 /\ NeedsSplit(0, k) /\ id + 1 < MaxPages
      /\ root_page_id' = id + 1 /\ Page' = Page \cup {id, id + 1}
      /\ nodes' = [q \in Page' |-> nodes'[q]]
      /\ nodes'[0] = Leaf(left, id + 1, id)
      /\ nodes'[id] = Leaf(right, id + 1, nodes[0].next)
      /\ nodes'[id + 1] = root
      /\ \A q \in Page : q # 0 => nodes'[q] = nodes[q]
  BY SplitRootIs
<1>2. /\ Leaves' = Leaves \cup {id} /\ id + 1 \notin Leaves' /\ id + 1 \in Page'
  BY RootKeepsTypes
<1>3. nodes'[id + 1].children = <<0, id>>
  BY <1>1 DEF Internal
<1> HIDE DEF id, left, right, root
<1>4. ToSet(nodes'[id + 1].children) = {0, id}
  BY <1>3, ElementsOfTwo
<1>5. nodes'[0].parent = id + 1 /\ nodes'[id].parent = id + 1
  BY <1>1, LeafParts
<1>6. ASSUME NEW q \in Page' \ Leaves'
      PROVE  ToSet(nodes'[q].children) \subseteq Leaves'
  <2>1. CASE q = id + 1
    BY <1>1, <1>2, <1>4, <2>1
  <2>2. CASE q # id + 1
    <3>1. q \in Page /\ q \notin Leaves /\ q # 0
      BY <1>1, <1>2, <2>2
    <3>2. ToSet(nodes[q].children) \subseteq Leaves
      BY <3>1 DEF TwoLevelsDeep
    <3> QED  BY <1>1, <1>2, <3>1, <3>2
  <2> QED  BY <2>1, <2>2
<1>7. root_page_id' \notin Leaves' /\ Root' = nodes'[id + 1]
  BY <1>1, <1>2 DEF Root
<1>8. \A q \in ToSet(Root.children)' : nodes'[q].parent = root_page_id'
  BY <1>1, <1>4, <1>5, <1>7
<1> QED  BY <1>1, <1>2, <1>6, <1>7, <1>8 DEF TwoLevelsDeep

LEMMA SplitKeepsLevels ==
  ASSUME TypeOK, TwoLevelsDeep, LeavesSorted, NEW k \in Keys, NEW v \in Values,
         SplitLeaf(k, v) \/ SplitDropped(k, v), Gives(k, v)
  PROVE  TwoLevelsDeep'
<1> DEFINE id    == NewId
           p     == FindLeafPage(k)
           left  == LeftHalf(Merged(nodes[p].entries, Entry(k, v)))
           right == RightHalf(Merged(nodes[p].entries, Entry(k, v)))
           key   == right[1].key
           r     == root_page_id
           new   == InsertAfter(Root, key, id)
           i     == SeparatorPlace(Root.keys, key)
<1>1. /\ p \in Leaves /\ r \notin Leaves /\ NeedsSplit(p, k) /\ id < MaxPages
      /\ root_page_id' = r /\ Page' = Page \cup {id}
      /\ nodes' = [q \in Page' |-> nodes'[q]]
      /\ nodes'[p] = Leaf(left, r, id) /\ nodes'[id] = Leaf(right, r, nodes[p].next)
      /\ SplitLeaf(k, v) => nodes'[r] = new
      /\ SplitDropped(k, v) => nodes'[r] = Root
      /\ \A q \in Page : q # p /\ q # r => nodes'[q] = nodes[q]
  BY SplitLeafIs
<1>2. Leaves' = Leaves \cup {id} /\ id \notin Leaves
  BY SplitKeepsTypes
<1>3. Halves(Pairs, nodes[p].entries, Entry(k, v), left, right) /\ key \in Keys
  BY <1>1, HalvesOf
<1>4. nodes'[p].parent = r /\ nodes'[id].parent = r
  BY <1>1, LeafParts
<1>5. r \in Page /\ id \notin Page
  BY NewIdIs DEF TypeOK
<1>6. new = InsertAfter(Root, key, id) /\ i = SeparatorPlace(Root.keys, key)
  OBVIOUS
<1> HIDE DEF id, p, left, right, key, new, i
<1>7. /\ Root \in InternalPageOf(Keys, Page, Page)
      /\ Root.children \in Seq(Page) /\ Len(Root.children) = Len(Root.keys) + 1
      /\ ToSet(Root.children) \subseteq Leaves
      /\ \A q \in ToSet(Root.children) : nodes[q].parent = r
  BY <1>1, <1>5, InternalIs DEF Root, TwoLevelsDeep
<1>8. ToSet(new.children) = ToSet(Root.children) \cup {id}
  <2> DEFINE P == Page \cup {id}
  <2>1. Root \in InternalPageOf(Keys, P, P) /\ Root.children \in Seq(P)
    BY <1>7, SeqGrows DEF InternalPageOf
  <2>2. id \in P
    OBVIOUS
  <2> HIDE DEF P
  <2>3. /\ new.children = InsertAt(Root.children, i + 1, id)
        /\ i \in 1 .. Len(Root.keys) + 1 /\ Len(Root.keys) \in Nat
    BY <1>3, <1>6, <1>7, <2>1, <2>2, InsertAfterIs
  <2>4. i + 1 \in 1 .. Len(Root.children) + 1
    BY <1>7, <2>3
  <2> QED  BY <2>1, <2>2, <2>3, <2>4, InsertAtToSet
<1>9. ToSet(nodes'[r].children) \subseteq ToSet(Root.children) \cup {id}
  BY <1>1, <1>8
<1>10. \A q \in Leaves : nodes'[q].parent = IF q = p THEN r ELSE nodes[q].parent
  BY <1>1, <1>4 DEF Leaves
<1>11. \A q \in ToSet(nodes'[r].children) : nodes'[q].parent = r
  BY <1>4, <1>7, <1>9, <1>10
<1>12. ASSUME NEW q \in Page' \ Leaves'
       PROVE  ToSet(nodes'[q].children) \subseteq Leaves'
  <2>1. CASE q = r
    BY <1>2, <1>7, <1>9, <2>1
  <2>2. CASE q # r
    <3>1. q \in Page /\ q \notin Leaves /\ q # p
      BY <1>1, <1>2, <2>2
    <3>2. ToSet(nodes[q].children) \subseteq Leaves
      BY <3>1 DEF TwoLevelsDeep
    <3> QED  BY <1>1, <1>2, <2>2, <3>1, <3>2
  <2> QED  BY <2>1, <2>2
<1>13. r \notin Leaves' /\ 0 \in Leaves'
  BY <1>1, <1>2, <1>5 DEF TwoLevelsDeep
<1> QED  BY <1>1, <1>11, <1>12, <1>13 DEF TwoLevelsDeep, Root

-----------------------------------------------------------------------------
(***************************************************************************)
(* Any use.                                                                *)
(***************************************************************************)
LEMMA NewIdNext ==
  ASSUME TypeOK
  PROVE  /\ Page' = Page => NewId' = NewId
         /\ Page' = Page \cup {NewId} => NewId' = NewId + 1
         /\ Page' = Page \cup {NewId, NewId + 1} => NewId' = NewId + 2
<1> DEFINE id == NewId
<1>1. Page = 0 .. id - 1 /\ id \in Nat
  BY NewIdIs
<1>2. Page' = Page => NewId' = NewId
  BY DEF Page, NewId
<1>3. ASSUME Page' = Page \cup {id}  PROVE NewId' = id + 1
  <2>1. Page' = 0 .. (id + 1) - 1
    BY <1>1, <1>3
  <2> QED  BY <1>1, <2>1, PageNumbers DEF Page, NewId
<1>4. ASSUME Page' = Page \cup {id, id + 1}  PROVE NewId' = id + 2
  <2>1. Page' = 0 .. (id + 2) - 1
    BY <1>1, <1>4
  <2> QED  BY <1>1, <2>1, PageNumbers DEF Page, NewId
<1> QED  BY <1>2, <1>3, <1>4

LEMMA InitGivesInv ==
  ASSUME Init
  PROVE  IndInv
<1> DEFINE page == Leaf(<< >>, 0, NoNext)
<1>1. /\ nodes = [p \in {0} |-> page] /\ root_page_id = 0
      /\ given = [k \in Keys |-> {}]
  BY DEF Init
<1>2. << >> \in Seq(Pairs) /\ Len(<< >>) = 0
  OBVIOUS
<1>3. page \in LeafOf({0}) /\ page.is_leaf /\ page.entries = << >> /\ page.next = 0
  <2>1. 0 \in {0} /\ NoNext \in {0} /\ NoNext = 0
    BY DEF NoNext
  <2>2. page \in LeafOf({0}) /\ page.is_leaf
    BY <1>2, <2>1, LeafTypes
  <2>3. page.entries = << >> /\ page.next = 0
    BY <2>1, LeafParts
  <2> QED  BY <2>2, <2>3
<1> HIDE DEF page
<1>4. Page = {0} /\ nodes[0] = page /\ Leaves = {0}
  BY <1>1, <1>3 DEF Page, Leaves
<1>5. MaxPages \in Nat /\ 1 \in 1 .. MaxPages /\ 0 .. 1 - 1 = {0} /\ 1 \in Nat
  BY MaxPagesAssumption
<1>6. TypeOK
  <2>1. nodes \in [Page -> LeafPages \cup InternalPages]
    BY <1>1, <1>3, <1>4, TypesOf
  <2>2. \E n \in 1 .. MaxPages : Page = 0 .. n - 1
    BY <1>4, <1>5
  <2> QED  BY <1>1, <1>4, <2>1, <2>2 DEF TypeOK
<1>7. NewId = 1
  BY <1>4, <1>5, PageNumbers DEF NewId, Page
<1>8. LeavesSorted
  <2>1. Ascending(<< >>)
    BY DEF Ascending
  <2> QED  BY <1>1, <1>2, <1>3, <1>4, <2>1, LeafMaxAssumption DEF LeavesSorted
<1>9. TwoLevelsDeep
  BY <1>1, <1>4 DEF TwoLevelsDeep
<1>10. ToSet(<< >>) = {}
  BY DEF ToSet
<1>11. HoldsGiven
  BY <1>1, <1>3, <1>4, <1>10 DEF HoldsGiven
<1>12. OneList
  <2> DEFINE list == [i \in 1 .. 1 |-> 0]
  <2>1. list \in [1 .. 1 -> Leaves] /\ list[1] = 0 /\ \A i \in 1 .. 1 : i = 1
    BY <1>4
  <2> HIDE DEF list
  <2>2. Lists(list, 1)
    BY <1>3, <1>4, <2>1 DEF Lists, NoNext
  <2>3. 1 \in 1 .. NewId
    BY <1>7
  <2> QED  BY <2>1, <2>2, <2>3 DEF OneList
<1> QED  BY <1>6, <1>8, <1>9, <1>11, <1>12 DEF IndInv

LEMMA InsertKeepsInv ==
  ASSUME IndInv, NEW k \in Keys, NEW v \in Values, Insert(k, v)
  PROVE  IndInv'
<1> DEFINE e == Entry(k, v)
<1>1. TypeOK /\ LeavesSorted /\ TwoLevelsDeep /\ HoldsGiven /\ OneList
  BY DEF IndInv
<1>2. Gives(k, v)
  BY DEF Insert, Gives
<1>3. CASE InsertFits(k, v)
  <2> DEFINE p == FindLeafPage(k)
  <2>1. TypeOK' /\ TwoLevelsDeep'
    BY <1>1, <1>2, <1>3, FitsKeepsTypes, FitsKeepsLevels
  <2>2. FillsLeaf(p, e)
    BY <1>1, <1>2, <1>3, FitsFillsLeaf
  <2>3. NewId' = NewId
    BY <1>1, <1>3, InsertFitsIs, NewIdNext
  <2> HIDE DEF p
  <2>4. LeavesSorted'
    BY <1>1, <2>2, FillKeepsSorted
  <2>5. HoldsGiven'
    BY <1>1, <1>2, <2>1, <2>2, <2>4, FillKeepsGiven
  <2>6. OneList'
    BY <1>1, <2>2, <2>3, FillKeepsList
  <2> QED  BY <2>1, <2>4, <2>5, <2>6 DEF IndInv
<1>4. CASE SplitRoot(k, v)
  <2> DEFINE id == NewId
  <2>1. TypeOK' /\ TwoLevelsDeep'
    BY <1>1, <1>2, <1>4, RootKeepsTypes, RootKeepsLevels
  <2>2. SplitsLeaf(0, id, e)
    BY <1>1, <1>2, <1>4, RootSplitsLeaf
  <2>3. Page' = Page \cup {NewId, NewId + 1}
    BY <1>1, <1>4, SplitRootIs
  <2>4. NewId' > NewId /\ NewId' \in Nat
    BY <1>1, <2>3, NewIdNext, NewIdIs
  <2> HIDE DEF id
  <2>5. LeavesSorted'
    BY <1>1, <2>2, SplitKeepsSorted
  <2>6. HoldsGiven'
    BY <1>1, <1>2, <2>1, <2>2, <2>5, SplitKeepsGiven
  <2>7. OneList'
    BY <1>1, <2>2, <2>4, SplitKeepsList
  <2> QED  BY <2>1, <2>5, <2>6, <2>7 DEF IndInv
<1>5. CASE SplitLeaf(k, v) \/ SplitDropped(k, v)
  <2> DEFINE id == NewId
             p  == FindLeafPage(k)
  <2>1. TypeOK' /\ TwoLevelsDeep'
    BY <1>1, <1>2, <1>5, SplitKeepsTypes, SplitKeepsLevels
  <2>2. SplitsLeaf(p, id, e)
    BY <1>1, <1>2, <1>5, SplitSplitsLeaf
  <2>3. Page' = Page \cup {NewId}
    BY <1>1, <1>5, SplitLeafIs
  <2>4. NewId' > NewId /\ NewId' \in Nat
    BY <1>1, <2>3, NewIdNext, NewIdIs
  <2> HIDE DEF id, p
  <2>5. LeavesSorted'
    BY <1>1, <2>2, SplitKeepsSorted
  <2>6. HoldsGiven'
    BY <1>1, <1>2, <2>1, <2>2, <2>5, SplitKeepsGiven
  <2>7. OneList'
    BY <1>1, <2>2, <2>4, SplitKeepsList
  <2> QED  BY <2>1, <2>5, <2>6, <2>7 DEF IndInv
<1> QED  BY <1>3, <1>4, <1>5 DEF Insert

LEMMA NextKeepsInv ==
  IndInv /\ [Next]_vars => IndInv'
<1> SUFFICES ASSUME IndInv, [Next]_vars  PROVE IndInv'
  OBVIOUS
<1>1. CASE \E k \in Keys, v \in Values : Insert(k, v)
  BY <1>1, InsertKeepsInv
<1>2. CASE UNCHANGED <<nodes, given>> /\ root_page_id' \in {0, root_page_id}
  <2>1. TypeOK'
    BY <1>2 DEF IndInv, TypeOK, TwoLevelsDeep, Leaves, Page, LeafPages, InternalPages
  <2>2. TwoLevelsDeep'
    BY <1>2 DEF IndInv, TwoLevelsDeep, Leaves, Page, Root
  <2>3. LeavesSorted' /\ HoldsGiven'
    BY <1>2 DEF IndInv, LeavesSorted, HoldsGiven, Leaves, Page, KeysOf
  <2>4. OneList'
    BY <1>2 DEF IndInv, OneList, Lists, Leaves, Page, NewId
  <2> QED  BY <2>1, <2>2, <2>3, <2>4 DEF IndInv
<1>3. CASE Reopen \/ UNCHANGED vars
  BY <1>2, <1>3 DEF Reopen, vars
<1> QED  BY <1>1, <1>3 DEF Next

\* Whatever callers do, and wherever the root is looked for, for every set of keys
\* and values and every size of the pages.
THEOREM TreeInvariant == Spec => []IndInv
<1>1. Init => IndInv
  BY InitGivesInv
<1> QED  BY <1>1, NextKeepsInv, PTL DEF Spec

-----------------------------------------------------------------------------
(***************************************************************************)
(* ListedLeaf walks along the list of leaves.                              *)
(***************************************************************************)
IsWalk(f, N) ==
  f = [i \in 0 .. N |-> IF i = 0 THEN 0 ELSE nodes[f[i - 1]].next]

LEMMA WalkExists ==
  ASSUME NEW N \in Nat
  PROVE  \E f : IsWalk(f, N)
<1> DEFINE good == {n \in 0 .. N : \E f : IsWalk(f, n)}
<1>1. 0 \in good
  <2> DEFINE f == [i \in 0 .. 0 |-> 0]
  <2>1. f = [i \in 0 .. 0 |-> IF i = 0 THEN 0 ELSE nodes[f[i - 1]].next]
    OBVIOUS
  <2> HIDE DEF f
  <2>2. IsWalk(f, 0)
    BY <2>1 DEF IsWalk
  <2> QED  BY <2>2
<1>2. ASSUME NEW n \in 0 .. N - 1, n \in good  PROVE n + 1 \in good
  <2>1. PICK f : IsWalk(f, n)
    BY <1>2
  <2> DEFINE g == [i \in 0 .. n + 1 |-> IF i <= n THEN f[i] ELSE nodes[f[n]].next]
             h == [i \in 0 .. n + 1 |-> IF i = 0 THEN 0 ELSE nodes[g[i - 1]].next]
  <2>2. ASSUME NEW i \in 0 .. n + 1  PROVE g[i] = h[i]
    <3>1. CASE i = 0
      <4>1. g[i] = f[0] /\ h[i] = 0
        BY <3>1
      <4>2. f[0] = 0
        BY <2>1 DEF IsWalk
      <4> QED  BY <4>1, <4>2
    <3>2. CASE i \in 1 .. n
      <4>1. i - 1 \in 0 .. n + 1 /\ i - 1 <= n /\ i \in 0 .. n /\ i # 0 /\ i <= n
        BY <3>2
      <4>2. g[i] = f[i] /\ g[i - 1] = f[i - 1] /\ h[i] = nodes[g[i - 1]].next
        BY <4>1
      <4>3. f[i] = nodes[f[i - 1]].next
        BY <2>1, <4>1 DEF IsWalk
      <4> QED  BY <4>2, <4>3
    <3>3. CASE i = n + 1
      <4>1. i - 1 = n /\ n \in 0 .. n + 1 /\ n <= n /\ ~ (i <= n) /\ i # 0
        BY <3>3
      <4>2. g[i] = nodes[f[n]].next /\ g[n] = f[n] /\ h[i] = nodes[g[n]].next
        BY <4>1
      <4> QED  BY <4>2
    <3> QED  BY <3>1, <3>2, <3>3
  <2>3. g = h
    BY <2>2
  <2>4. IsWalk(g, n + 1)
    BY <2>3 DEF IsWalk
  <2> QED  BY <2>4
<1>3. good \in SUBSET (0 .. N)
  OBVIOUS
<1> HIDE DEF good
<1>4. good = 0 .. N
  BY <1>1, <1>2, <1>3, Induction
<1> QED  BY <1>4 DEF good

LEMMA ListedLeafWalks ==
  /\ ListedLeaf[0] = 0
  /\ \A i \in 1 .. MaxPages : ListedLeaf[i] = nodes[ListedLeaf[i - 1]].next
<1>1. MaxPages \in Nat
  BY MaxPagesAssumption
<1>2. IsWalk(ListedLeaf, MaxPages)
  <2>1. ListedLeaf = CHOOSE f : IsWalk(f, MaxPages)
    BY DEF ListedLeaf, IsWalk
  <2> QED  BY <1>1, <2>1, WalkExists
<1>3. 0 \in 0 .. MaxPages /\ \A i \in 1 .. MaxPages : i \in 0 .. MaxPages /\ i # 0
  BY <1>1
<1> QED  BY <1>2, <1>3 DEF IsWalk

LEMMA ListedLeafIs ==
  ASSUME NEW n \in 1 .. MaxPages, NEW list, Lists(list, n)
  PROVE  \A i \in 1 .. n : ListedLeaf[i - 1] = list[i]
<1> DEFINE good == {j \in 0 .. n - 1 : ListedLeaf[j] = list[j + 1]}
<1>1. MaxPages \in Nat /\ n \in Nat /\ n - 1 \in Nat
  BY MaxPagesAssumption
<1>2. 0 \in good
  BY <1>1, ListedLeafWalks DEF Lists
<1>3. ASSUME NEW j \in 0 .. n - 1 - 1, j \in good  PROVE j + 1 \in good
  <2>1. /\ j + 1 \in 1 .. n /\ j + 1 < n /\ j + 1 \in 1 .. MaxPages /\ j + 1 - 1 = j
        /\ j + 1 \in 0 .. n - 1
    BY <1>1
  <2>2. nodes[list[j + 1]].next = list[j + 1 + 1]
    BY <2>1 DEF Lists
  <2>3. ListedLeaf[j + 1] = nodes[ListedLeaf[j]].next
    <3>1. ListedLeaf[j + 1] = nodes[ListedLeaf[j + 1 - 1]].next
      BY <2>1, ListedLeafWalks
    <3> QED  BY <2>1, <3>1
  <2> QED  BY <1>3, <2>1, <2>2, <2>3
<1>4. good \in SUBSET (0 .. n - 1)
  OBVIOUS
<1>5. good = 0 .. n - 1
  <2> HIDE DEF good
  <2> QED  BY <1>1, <1>2, <1>3, <1>4, Induction
<1>6. ASSUME NEW i \in 1 .. n  PROVE ListedLeaf[i - 1] = list[i]
  <2>1. i - 1 \in good /\ i - 1 + 1 = i
    BY <1>1, <1>5
  <2> QED  BY <2>1
<1> QED  BY <1>6

-----------------------------------------------------------------------------
(***************************************************************************)
(* What the invariant gives.                                               *)
(***************************************************************************)
\* What getValue answers: the value of the entry with the key in the leaf the walk
\* ends on.
LEMMA GetValueIs ==
  ASSUME TypeOK, LeavesSorted, TwoLevelsDeep, NEW k \in Keys,
         NEW p, p = FindLeafPage(k)
  PROVE  /\ p \in Leaves
         /\ k \notin KeysOf(p) => GetValue(k) = NoValue
         /\ k \in KeysOf(p) =>
              \E e \in ToSet(nodes[p].entries) : e.key = k /\ GetValue(k) = e.value
<1> DEFINE t == nodes[p].entries
<1>1. p \in Leaves
  BY FindIsLeaf
<1>2. t \in Seq(Pairs) /\ Ascending(t) /\ HaveKeys(Pairs) /\ k \in Int
  BY <1>1, LeafIs, PairsHaveKeys DEF LeavesSorted
<1>3. GetValue(k) = IF LeafHas(t, k) THEN t[LeafLookup(t, k)].value ELSE NoValue
  BY DEF GetValue
<1> HIDE DEF t
<1>4. /\ LeafHas(t, k) <=> k \in KeysIn(t)
      /\ LeafHas(t, k) => /\ t[LeafLookup(t, k)].key = k
                          /\ t[LeafLookup(t, k)] \in ToSet(t)
  BY <1>2, LookupFinds
<1> QED  BY <1>1, <1>3, <1>4 DEF KeysOf, t

LEMMA InvGivesTwoLevels ==
  ASSUME IndInv
  PROVE  TwoLevels
<1> SUFFICES ASSUME NEW k \in Keys
             PROVE  LET p == FindLeafPage(k)
                    IN  /\ nodes[p].is_leaf
                        /\ p # root_page_id => nodes[p].parent = root_page_id
  BY DEF TwoLevels
<1> QED  BY FindIsLeaf DEF IndInv, Leaves

LEMMA InvGivesSoundLookup ==
  ASSUME IndInv
  PROVE  SoundLookup
<1> SUFFICES ASSUME NEW k \in Keys  PROVE GetValue(k) \in given[k] \cup {NoValue}
  BY DEF SoundLookup
<1> DEFINE p == FindLeafPage(k)
<1>1. /\ p \in Leaves
      /\ k \notin KeysOf(p) => GetValue(k) = NoValue
      /\ k \in KeysOf(p) =>
           \E e \in ToSet(nodes[p].entries) : e.key = k /\ GetValue(k) = e.value
  BY GetValueIs DEF IndInv
<1> QED  BY <1>1 DEF IndInv, HoldsGiven

LEMMA InvGivesNothingVanishes ==
  ASSUME IndInv
  PROVE  NothingVanishes
<1> SUFFICES ASSUME NEW k \in Keys, given[k] # {}
             PROVE  \E i \in 0 .. MaxPages : k \in KeysOf(ListedLeaf[i])
  BY DEF NothingVanishes
<1>1. PICK p \in Leaves : k \in KeysOf(p)
  BY DEF IndInv, HoldsGiven
<1>2. PICK n \in 1 .. NewId : \E list \in [1 .. n -> Leaves] : Lists(list, n)
  BY DEF IndInv, OneList
<1>3. PICK list \in [1 .. n -> Leaves] : Lists(list, n)
  BY <1>2
<1>4. PICK i \in 1 .. n : list[i] = p
  BY <1>3 DEF Lists
<1>5. NewId \in 1 .. MaxPages /\ MaxPages \in Nat
  BY NewIdIs DEF IndInv
<1>6. n \in 1 .. MaxPages /\ i - 1 \in 0 .. MaxPages
  BY <1>5
<1>7. ListedLeaf[i - 1] = p
  BY <1>3, <1>4, <1>6, ListedLeafIs
<1> QED  BY <1>1, <1>6, <1>7

LEMMA TypesGiveArraysInsert ==
  ASSUME TypeOK
  PROVE  ArraysInsert
<1> SUFFICES ASSUME NEW p \in Page, ~ nodes[p].is_leaf, HasRoom(nodes[p]),
                    NEW k \in Keys, NEW child \in Page
             PROVE  CellsAfterInsert(nodes[p], k, child) =
                      InternalCells(InsertAfter(nodes[p], k, child))
  BY DEF ArraysInsert
<1>1. /\ nodes[p] \in InternalPageOf(Keys, Page, Page)
      /\ Len(nodes[p].children) = Len(nodes[p].keys) + 1
  BY InternalIs DEF Leaves
<1> QED  BY <1>1, ArraysInsertAfter

\* Page ids, links and the two arrays of every page stay what they should be.
THEOREM TreeTypes == Spec => []TypeOK
<1>1. IndInv => TypeOK
  BY DEF IndInv
<1> QED  BY <1>1, TreeInvariant, PTL

\* No split, and no key given twice, leaves a leaf unsorted, overfull or empty.
THEOREM LeavesStaySorted == Spec => []LeavesSorted
<1>1. IndInv => LeavesSorted
  BY DEF IndInv
<1> QED  BY <1>1, TreeInvariant, PTL

\* The loop of findLeafPage ends, and insertIntoParent finds the right parent.
THEOREM DescentsEnd == Spec => []TwoLevels
<1>1. IndInv => TwoLevels
  BY InvGivesTwoLevels
<1> QED  BY <1>1, TreeInvariant, PTL

\* Whatever was lost from sight, nothing was lost from the list of leaves.
THEOREM NoKeyVanishes == Spec => []NothingVanishes
<1>1. IndInv => NothingVanishes
  BY InvGivesNothingVanishes
<1> QED  BY <1>1, TreeInvariant, PTL

\* No answer is of another key.
THEOREM AnswersAreSound == Spec => []SoundLookup
<1>1. IndInv => SoundLookup
  BY InvGivesSoundLookup
<1> QED  BY <1>1, TreeInvariant, PTL

\* The two memmoves of insertAfter are right on every internal page there is, for
\* every size of page.
THEOREM ArraysAreShifted == Spec => []ArraysInsert
<1>1. TypeOK => ArraysInsert
  BY TypesGiveArraysInsert
<1> QED  BY <1>1, TreeTypes, PTL
-----------------------------------------------------------------------------
(***************************************************************************)
(* Proper use: each key is given once, and the tree is not opened again.   *)
(***************************************************************************)
\* A key that was not given is in no leaf.
LEMMA NewKey ==
  ASSUME TypeOK, HoldsGiven, NEW k \in Keys, given[k] = {}, NEW p \in Leaves
  PROVE  k \notin KeysOf(p)
<1> SUFFICES ASSUME k \in KeysOf(p)  PROVE FALSE
  OBVIOUS
<1>1. PICK e \in ToSet(nodes[p].entries) : e.key = k
  BY DEF KeysOf, KeysIn
<1> QED  BY <1>1 DEF HoldsGiven

\* The entries of the leaves after a step are those before it and the new one.
LEMMA OneValueKept ==
  ASSUME TypeOK, HoldsGiven, OneValue, NEW k \in Keys, NEW v \in Values,
         given[k] = {}, Gives(k, v), NEW e, e = Entry(k, v),
         \A q \in Leaves' : \A d \in ToSet(nodes'[q].entries) :
            d = e \/ \E p \in Leaves : d \in ToSet(nodes[p].entries)
  PROVE  OneValue'
<1>1. e.key = k /\ e.value = v /\ given'[k] = {v}
      /\ \A j \in Keys : j # k => given'[j] = given[j]
  <2>1. given'[k] = given[k] \cup {v}
    BY GivenIs
  <2> QED  BY <2>1, PairTypes, GivenIs
<1>2. ASSUME NEW q \in Leaves', NEW d \in ToSet(nodes'[q].entries)
      PROVE  given'[d.key] = {d.value}
  <2>1. CASE d = e
    BY <1>1, <2>1
  <2>2. CASE d # e
    <3>1. PICK p \in Leaves : d \in ToSet(nodes[p].entries)
      BY <1>2, <2>2
    <3>2. d.key \in Keys /\ d.key \in KeysOf(p)
      BY <3>1, GivenKeys DEF KeysOf, KeysIn
    <3>3. d.key # k
      BY <3>2, NewKey
    <3> QED  BY <1>1, <3>1, <3>2, <3>3 DEF OneValue
  <2> QED  BY <2>1, <2>2
<1> QED  BY <1>2 DEF OneValue

LEMMA FillKeepsOneValue ==
  ASSUME TypeOK, HoldsGiven, OneValue, NEW k \in Keys, NEW v \in Values,
         given[k] = {}, Gives(k, v), NEW e, e = Entry(k, v), NEW p, FillsLeaf(p, e)
  PROVE  OneValue'
<1>1. ASSUME NEW q \in Leaves', NEW d \in ToSet(nodes'[q].entries), d # e
      PROVE  \E o \in Leaves : d \in ToSet(nodes[o].entries)
  BY <1>1 DEF FillsLeaf
<1> QED  BY <1>1, OneValueKept

LEMMA SplitKeepsOneValue ==
  ASSUME TypeOK, HoldsGiven, OneValue, NEW k \in Keys, NEW v \in Values,
         given[k] = {}, Gives(k, v), NEW e, e = Entry(k, v), NEW p, NEW id,
         SplitsLeaf(p, id, e)
  PROVE  OneValue'
<1>1. ASSUME NEW q \in Leaves', NEW d \in ToSet(nodes'[q].entries), d # e
      PROVE  \E o \in Leaves : d \in ToSet(nodes[o].entries)
  <2>1. CASE q = p \/ q = id
    BY <1>1, <2>1 DEF SplitsLeaf, Halves
  <2>2. CASE q # p /\ q # id
    BY <1>1, <2>2 DEF SplitsLeaf
  <2> QED  BY <2>1, <2>2
<1> QED  BY <1>1, OneValueKept

-----------------------------------------------------------------------------
(***************************************************************************)
(* Under the root, in order.                                               *)
(***************************************************************************)
\* The tree below a root that is not a leaf.
LEMMA OrderedIs ==
  ASSUME TypeOK, Ordered, root_page_id \notin Leaves,
         NEW keys, keys = Root.keys, NEW c, c = Root.children, NEW n, n = Len(c)
  PROVE  /\ keys \in Seq(Keys) /\ Increasing(keys) /\ Len(keys) \in Nat
         /\ c \in Seq(Page) /\ n = Len(keys) + 1 /\ n \in Nat
         /\ NewId = n + 1 /\ Leaves = ToSet(c) /\ Lists(c, n)
         /\ \A i \in 1 .. n : c[i] \in Leaves
         /\ \A i \in 1 .. n : \A k \in KeysOf(c[i]) : k \in Keys /\ Fits(keys, i, k)
<1>1. root_page_id \in Page
  BY DEF TypeOK
<1>2. /\ keys \in Seq(Keys) /\ c \in Seq(Page) /\ Len(keys) \in Nat
      /\ Len(c) = Len(keys) + 1
  BY <1>1, InternalIs DEF Root
<1>3. n = Len(keys) + 1 /\ n \in Nat
  BY <1>2
<1>4. /\ NewId = n + 1 /\ Leaves = ToSet(c) /\ Lists(c, n)
      /\ \A i, j \in 1 .. n - 1 : i < j => keys[i] < keys[j]
      /\ \A i \in 1 .. n : Between(c[i], i)
  BY DEF Ordered
<1>5. Increasing(keys)
  <2>1. n - 1 = Len(keys)
    BY <1>2, <1>3
  <2> QED  BY <1>4, <2>1 DEF Increasing
<1>6. \A i \in 1 .. n : c[i] \in Leaves
  BY <1>2, <1>4, Elements
<1>7. ASSUME NEW i \in 1 .. n, NEW k \in KeysOf(c[i])
      PROVE  k \in Keys /\ Fits(keys, i, k)
  <2>1. k \in Keys
    <3>1. c[i] \in Leaves
      BY <1>6
    <3> QED  BY <3>1, GivenKeys DEF KeysOf, KeysIn
  <2>2. Fits(keys, i, k)
    BY <1>4 DEF Between, Fits
  <2> QED  BY <2>1, <2>2
<1> QED  BY <1>2, <1>3, <1>4, <1>5, <1>6, <1>7

LEMMA OrderedAfter ==
  ASSUME root_page_id' \notin Leaves',
         NEW keys, keys = nodes'[root_page_id'].keys,
         NEW c, c = nodes'[root_page_id'].children,
         NEW n \in Nat, n = Len(c), n = Len(keys) + 1, Len(keys) \in Nat,
         NewId' = n + 1, Leaves' = ToSet(c), Increasing(keys), ListedAfter(c, n),
         \A i \in 1 .. n : \A k \in KeysIn(nodes'[c[i]].entries) : Fits(keys, i, k)
  PROVE  Ordered'
<1>1. Root.keys' = keys /\ Root.children' = c /\ n - 1 = Len(keys)
  BY DEF Root
<1>2. \A i, j \in 1 .. n - 1 : i < j => keys[i] < keys[j]
  BY <1>1 DEF Increasing
<1>3. \A i \in 1 .. n : \A k \in KeysIn(nodes'[c[i]].entries) :
        /\ i > 1 => keys[i - 1] <= k
        /\ i <= Len(keys) => k < keys[i]
  BY DEF Fits
<1>4. \A i \in 1 .. n : Between(c[i], i)'
  BY <1>1, <1>3 DEF Between, KeysOf
<1>5. Lists(c, n)'
  BY DEF Lists, ListedAfter
<1> QED  BY <1>1, <1>2, <1>4, <1>5 DEF Ordered

\* A root that is a leaf is all there is.
LEMMA OrderedRoot ==
  ASSUME Ordered, root_page_id \in Leaves
  PROVE  Page = {0} /\ Leaves = {0} /\ root_page_id = 0 /\ nodes[0].next = NoNext
BY DEF Ordered, Root, Leaves

-----------------------------------------------------------------------------
(***************************************************************************)
(* Every insert keeps the order.                                           *)
(***************************************************************************)
LEMMA FitsKeepsOrder ==
  ASSUME TypeOK, TwoLevelsDeep, LeavesSorted, Ordered,
         NEW k \in Keys, NEW v \in Values, InsertFits(k, v), Gives(k, v)
  PROVE  Ordered'
<1> DEFINE p == FindLeafPage(k)
           e == Entry(k, v)
<1>1. /\ p \in Leaves /\ root_page_id' = root_page_id /\ Page' = Page
      /\ \A q \in Page : q # p => nodes'[q] = nodes[q]
  BY InsertFitsIs
<1>2. /\ Leaves' = Leaves
      /\ ToSet(nodes'[p].entries) = ToSet(nodes[p].entries) \cup {e}
      /\ \A q \in Leaves : /\ nodes'[q].next = nodes[q].next
                           /\ q # p => nodes'[q].entries = nodes[q].entries
  BY FitsFillsLeaf DEF FillsLeaf
<1>3. NewId' = NewId
  BY <1>1, NewIdNext
<1>4. CASE root_page_id \in Leaves
  <2>1. Page = {0} /\ root_page_id = 0 /\ nodes[0].next = NoNext /\ Leaves = {0}
    BY <1>4, OrderedRoot
  <2> HIDE DEF p
  <2>2. nodes'[0].next = NoNext
    BY <1>2, <2>1
  <2> QED  BY <1>1, <1>2, <2>1, <2>2 DEF Ordered, Root
<1>5. CASE root_page_id \notin Leaves
  <2> DEFINE keys == Root.keys
             c    == Root.children
             n    == Len(c)
             i    == ChildPlace(keys, k)
  <2>1. /\ keys \in Seq(Keys) /\ Increasing(keys) /\ Len(keys) \in Nat
        /\ c \in Seq(Page) /\ n = Len(keys) + 1 /\ n \in Nat
        /\ NewId = n + 1 /\ Leaves = ToSet(c) /\ Lists(c, n)
        /\ \A j \in 1 .. n : c[j] \in Leaves
        /\ \A j \in 1 .. n : \A q \in KeysOf(c[j]) : q \in Keys /\ Fits(keys, j, q)
    BY <1>5, OrderedIs
  <2>2. i \in 1 .. n /\ p = c[i]
    BY <1>5, FindIsLeaf
  <2>3. Fits(keys, i, k)
    <3>1. i \in 1 .. Len(keys) + 1
      BY <2>1, <2>2
    <3> QED  BY <2>1, <3>1, KeysAssumption, PlaceFits
  <2>4. nodes'[root_page_id'].keys = keys /\ nodes'[root_page_id'].children = c
    <3>1. root_page_id \in Page /\ root_page_id # p
      BY <1>1, <1>5 DEF TypeOK
    <3> QED  BY <1>1, <3>1 DEF Root
  <2> HIDE DEF p, e, keys, c, n, i
  <2>5. ASSUME NEW j \in 1 .. n, NEW q \in KeysIn(nodes'[c[j]].entries)
        PROVE  Fits(keys, j, q)
    <3>1. CASE j = i
      <4>1. PICK d \in ToSet(nodes'[p].entries) : d.key = q
        BY <2>2, <2>5, <3>1 DEF KeysIn
      <4>2. d = e \/ q \in KeysOf(p)
        BY <1>2, <4>1 DEF KeysOf, KeysIn
      <4>3. d = e => q = k
        BY <4>1, PairTypes DEF e
      <4> QED  BY <2>1, <2>2, <2>3, <3>1, <4>2, <4>3
    <3>2. CASE j # i
      <4>1. c[j] # p /\ c[j] \in Leaves
        BY <2>1, <2>2, <3>2 DEF Lists
      <4>2. q \in KeysOf(c[j])
        BY <1>2, <2>5, <4>1 DEF KeysOf
      <4> QED  BY <2>1, <4>2
    <3> QED  BY <3>1, <3>2
  <2>6. ListedAfter(c, n)
    BY <1>2, <2>1 DEF Lists, ListedAfter
  <2>7. root_page_id' \notin Leaves'
    BY <1>1, <1>2, <1>5
  <2>8. NewId' = n + 1 /\ Leaves' = ToSet(c) /\ n = Len(c)
    BY <1>2, <1>3, <2>1 DEF n
  <2> QED  BY <2>1, <2>4, <2>5, <2>6, <2>7, <2>8, OrderedAfter
<1> QED  BY <1>4, <1>5

LEMMA RootKeepsOrder ==
  ASSUME TypeOK, TwoLevelsDeep, LeavesSorted, HoldsGiven, Ordered,
         NEW k \in Keys, NEW v \in Values, given[k] = {}, SplitRoot(k, v), Gives(k, v)
  PROVE  Ordered'
<1> DEFINE id    == NewId
           e     == Entry(k, v)
           left  == LeftHalf(Merged(nodes[0].entries, Entry(k, v)))
           right == RightHalf(Merged(nodes[0].entries, Entry(k, v)))
           key   == right[1].key
           root  == Internal(<<key>>, <<0, id>>, 0)
<1>1. /\ 0 \in Leaves /\ root_page_id = 0
      /\ root_page_id' = id + 1 /\ Page' = Page \cup {id, id + 1}
      /\ NeedsSplit(0, k)
      /\ nodes'[0] = Leaf(left, id + 1, id)
      /\ nodes'[id] = Leaf(right, id + 1, nodes[0].next)
      /\ nodes'[id + 1] = root
  BY SplitRootIs
<1>2. /\ Leaves' = Leaves \cup {id} /\ id + 1 \notin Leaves'
  BY RootKeepsTypes
<1>3. Page = {0} /\ Leaves = {0} /\ nodes[0].next = NoNext
  BY <1>1, OrderedRoot
<1>4. id = 1 /\ NewId' = 3
  <2>1. {0} = 0 .. 1 - 1 /\ 1 \in Nat
    OBVIOUS
  <2>2. id = 1
    BY <1>3, <2>1, PageNumbers DEF NewId, Page
  <2>3. NewId' = NewId + 2
    BY <1>1, NewIdNext
  <2> QED  BY <2>2, <2>3
<1>5. Halves(Pairs, nodes[0].entries, e, left, right) /\ key \in Keys
  BY <1>1, HalvesOf
<1>6. e.key = k /\ k \notin KeysIn(nodes[0].entries)
  BY <1>1, NewKey, PairTypes DEF KeysOf
<1>7. /\ nodes'[0].entries = left /\ nodes'[0].next = id
      /\ nodes'[id].entries = right /\ nodes'[id].next = NoNext
  BY <1>1, <1>3, LeafParts
<1>8. nodes'[id + 1].keys = <<key>> /\ nodes'[id + 1].children = <<0, id>>
  BY <1>1 DEF Internal
<1>9. key = right[1].key
  OBVIOUS
<1> HIDE DEF id, e, left, right, key, root
<1> DEFINE keys == <<key>>
           c    == <<0, 1>>
<1>10. /\ Len(keys) = 1 /\ Len(c) = 2 /\ keys[1] = key /\ c[1] = 0 /\ c[2] = 1
       /\ ToSet(c) = {0, 1}
  BY ElementsOfTwo
<1>11. Increasing(keys)
  BY <1>10 DEF Increasing
<1> HIDE DEF keys, c
<1>12. /\ \A q \in KeysIn(left) : q < key
       /\ \A q \in KeysIn(right) : key <= q
  BY <1>5, <1>6, <1>9 DEF Halves
<1>13. \A i \in 1 .. 2 : \A q \in KeysIn(nodes'[c[i]].entries) : Fits(keys, i, q)
  <2>1. \A q \in KeysIn(nodes'[0].entries) : Fits(keys, 1, q)
    BY <1>7, <1>10, <1>12 DEF Fits
  <2>2. \A q \in KeysIn(nodes'[1].entries) : Fits(keys, 2, q)
    BY <1>4, <1>7, <1>10, <1>12 DEF Fits
  <2> QED  BY <1>10, <2>1, <2>2
<1>14. ListedAfter(c, 2)
  <2>1. \A q \in Leaves' : \E i \in 1 .. 2 : c[i] = q
    BY <1>2, <1>3, <1>4, <1>10
  <2>2. \A i, j \in 1 .. 2 : c[i] = c[j] => i = j
    BY <1>10
  <2>3. \A i \in 1 .. 2 : nodes'[c[i]].next = IF i < 2 THEN c[i + 1] ELSE NoNext
    BY <1>4, <1>7, <1>10
  <2> QED  BY <1>10, <2>1, <2>2, <2>3 DEF ListedAfter
<1>15. keys = nodes'[root_page_id'].keys /\ c = nodes'[root_page_id'].children
  BY <1>1, <1>4, <1>8 DEF keys, c
<1>16. root_page_id' \notin Leaves' /\ Leaves' = ToSet(c)
  BY <1>1, <1>2, <1>3, <1>4, <1>10
<1>17. /\ 2 \in Nat /\ 2 = Len(c) /\ 2 = Len(keys) + 1 /\ Len(keys) \in Nat
       /\ NewId' = 2 + 1
  BY <1>4, <1>10
<1> QED  BY <1>11, <1>13, <1>14, <1>15, <1>16, <1>17, OrderedAfter

\* The key that is promoted belongs between the separators of the leaf.
LEMMA PromotedFits ==
  ASSUME NEW t \in Seq(Pairs), NEW keys \in Seq(Keys), NEW e \in Pairs,
         NEW i \in 1 .. Len(keys) + 1,
         \A q \in KeysIn(t) \cup {e.key} : q \in Keys /\ Fits(keys, i, q),
         e.key \notin KeysIn(t), NEW left, NEW right, Halves(Pairs, t, e, left, right)
  PROVE  /\ i > 1 => keys[i - 1] < right[1].key
         /\ i <= Len(keys) => right[1].key < keys[i]
         /\ \A q \in KeysIn(left) : q \in Keys /\ Fits(keys, i, q) /\ q < right[1].key
         /\ \A q \in KeysIn(right) : q \in Keys /\ Fits(keys, i, q) /\ right[1].key <= q
<1> DEFINE m == right[1].key
           l == left[1].key
<1>1. /\ left \in Seq(Pairs) /\ Ascending(left) /\ Len(left) \in 1 .. LeafMax
      /\ KeysIn(left) \cup KeysIn(right) = KeysIn(t) \cup {e.key}
      /\ m \in KeysIn(right)
      /\ \A q \in KeysIn(right) : m <= q
      /\ \A q \in KeysIn(left), o \in KeysIn(right) : q < o
  BY DEF Halves
<1>2. l \in KeysIn(left)
  BY <1>1, FirstIsLeast, PairsHaveKeys
<1> HIDE DEF m, l
<1>3. \A q \in KeysIn(left) \cup KeysIn(right) : q \in Keys /\ Fits(keys, i, q)
  BY <1>1
<1>4. l < m /\ l \in Int /\ m \in Int
  BY <1>1, <1>2, <1>3, PairsHaveKeys
<1>5. \A n \in 1 .. Len(keys) : keys[n] \in Int
  BY ElementOfSeq, PairsHaveKeys
<1>6. ASSUME i > 1  PROVE keys[i - 1] < m
  <2>1. keys[i - 1] <= l /\ i - 1 \in 1 .. Len(keys)
    BY <1>2, <1>3, <1>6 DEF Fits
  <2> QED  BY <1>4, <1>5, <2>1
<1>7. ASSUME i <= Len(keys)  PROVE m < keys[i]
  BY <1>1, <1>3, <1>7 DEF Fits
<1> QED  BY <1>1, <1>3, <1>6, <1>7 DEF m

LEMMA SplitKeepsOrder ==
  ASSUME TypeOK, TwoLevelsDeep, LeavesSorted, HoldsGiven, Ordered,
         NEW k \in Keys, NEW v \in Values, given[k] = {}, SplitLeaf(k, v), Gives(k, v)
  PROVE  Ordered'
<1> DEFINE id    == NewId
           p     == FindLeafPage(k)
           e     == Entry(k, v)
           left  == LeftHalf(Merged(nodes[p].entries, Entry(k, v)))
           right == RightHalf(Merged(nodes[p].entries, Entry(k, v)))
           m     == right[1].key
           r     == root_page_id
           keys  == Root.keys
           c     == Root.children
           n     == Len(c)
           i     == ChildPlace(keys, k)
<1>1. /\ p \in Leaves /\ r \notin Leaves /\ NeedsSplit(p, k)
      /\ root_page_id' = r /\ Page' = Page \cup {id}
      /\ nodes'[p] = Leaf(left, r, id) /\ nodes'[id] = Leaf(right, r, nodes[p].next)
      /\ nodes'[r] = InsertAfter(Root, m, id)
  BY SplitLeafIs
<1>2. /\ SplitsLeaf(p, id, e) /\ Leaves' = Leaves \cup {id} /\ id \notin Leaves
      /\ \A q \in Leaves : q # p => nodes'[q].entries = nodes[q].entries
  <2>1. SplitsLeaf(p, id, e)
    BY SplitSplitsLeaf
  <2> QED  BY <2>1 DEF SplitsLeaf
<1>3. Halves(Pairs, nodes[p].entries, e, left, right) /\ m \in Keys
  BY <1>1, HalvesOf
<1>4. /\ keys \in Seq(Keys) /\ Increasing(keys) /\ Len(keys) \in Nat
      /\ c \in Seq(Page) /\ n = Len(keys) + 1 /\ n \in Nat
      /\ id = n + 1 /\ Leaves = ToSet(c) /\ Lists(c, n)
      /\ \A j \in 1 .. n : c[j] \in Leaves
      /\ \A j \in 1 .. n : \A q \in KeysOf(c[j]) : q \in Keys /\ Fits(keys, j, q)
  BY <1>1, OrderedIs
<1>5. i \in 1 .. n /\ p = c[i] /\ i \in 1 .. Len(keys) + 1
  <2>1. i \in 1 .. n /\ p = c[i]
    BY <1>1, FindIsLeaf
  <2> QED  BY <1>4, <2>1
<1>6. NewId' = n + 2
  BY <1>1, <1>4, NewIdNext
<1>7. Fits(keys, i, k)
  BY <1>4, <1>5, KeysAssumption, PlaceFits
<1>8. /\ nodes'[p].entries = left /\ nodes'[id].entries = right
  BY <1>1, LeafParts
<1>9. e \in Pairs /\ e.key = k /\ k \notin KeysOf(p) /\ nodes[p].entries \in Seq(Pairs)
  BY <1>1, PairTypes, NewKey, LeafIs
<1>10. /\ r \in Page /\ Root \in InternalPageOf(Keys, Page', Page')
       /\ Len(Root.children) = Len(Root.keys) + 1 /\ id \in Page'
  <2>1. r \in Page
    BY DEF TypeOK
  <2>2. /\ Root \in InternalPageOf(Keys, Page, Page)
        /\ Len(Root.children) = Len(Root.keys) + 1
    BY <1>1, <2>1, InternalIs DEF Root
  <2>3. Root.children \in Seq(Page')
    BY <1>1, <1>4, SeqGrows
  <2>4. Root \in InternalPageOf(Keys, Page', Page')
    BY <1>1, <2>2, <2>3 DEF InternalPageOf
  <2> QED  BY <1>1, <2>1, <2>2, <2>4
<1>11. m = right[1].key /\ keys = Root.keys /\ c = Root.children /\ n = Len(c)
  OBVIOUS
<1> HIDE DEF id, p, e, left, right, m, r, keys, c, n, i
<1>12. /\ i > 1 => keys[i - 1] < m
       /\ i <= Len(keys) => m < keys[i]
       /\ \A q \in KeysIn(left) : q \in Keys /\ Fits(keys, i, q) /\ q < m
       /\ \A q \in KeysIn(right) : q \in Keys /\ Fits(keys, i, q) /\ m <= q
  <2>1. \A q \in KeysIn(nodes[p].entries) \cup {e.key} : q \in Keys /\ Fits(keys, i, q)
    BY <1>4, <1>5, <1>7, <1>9 DEF KeysOf
  <2>2. e.key \notin KeysIn(nodes[p].entries)
    BY <1>9 DEF KeysOf
  <2> QED  BY <1>3, <1>4, <1>5, <1>9, <1>11, <2>1, <2>2, PromotedFits
<1>13. i = SeparatorPlace(keys, m)
  BY <1>3, <1>4, <1>5, <1>12, KeysAssumption, SeparatorFits
<1> DEFINE newk == InsertAt(keys, i, m)
           newc == InsertAt(c, i + 1, id)
<1>14. nodes'[r].keys = newk /\ nodes'[r].children = newc
  <2> DEFINE new == InsertAfter(Root, m, id)
  <2>1. new.keys = InsertAt(Root.keys, i, m) /\ new.children = InsertAt(Root.children, i + 1, id)
    BY <1>3, <1>10, <1>11, <1>13, InsertAfterIs
  <2> QED  BY <1>1, <1>11, <2>1
<1>15. newk = InsertAt(keys, i, m) /\ newc = InsertAt(c, i + 1, id)
  OBVIOUS
<1> HIDE DEF newk, newc
<1>16. /\ newk \in Seq(Keys) /\ Len(newk) = Len(keys) + 1 /\ Increasing(newk)
       /\ \A j \in 1 .. i - 1 : \A q \in Keys : Fits(keys, j, q) => Fits(newk, j, q)
       /\ \A q \in Keys : Fits(keys, i, q) /\ q < m => Fits(newk, i, q)
       /\ \A q \in Keys : Fits(keys, i, q) /\ m <= q => Fits(newk, i + 1, q)
       /\ \A j \in i + 1 .. Len(keys) + 1 : \A q \in Keys :
             Fits(keys, j, q) => Fits(newk, j + 1, q)
  <2>1. /\ Keys \in SUBSET Nat /\ keys \in Seq(Keys) /\ Increasing(keys) /\ m \in Keys
        /\ i \in 1 .. Len(keys) + 1
        /\ i > 1 => keys[i - 1] < m
        /\ i <= Len(keys) => m < keys[i]
    BY <1>3, <1>4, <1>5, <1>12, KeysAssumption
  <2> QED  BY ONLY <1>15, <2>1, SeparatorAdded
<1>17. /\ Len(newc) = n + 1 /\ ToSet(newc) = ToSet(c) \cup {id}
       /\ newc[i + 1] = id /\ \A j \in 1 .. i : newc[j] = c[j]
       /\ \A j \in i + 2 .. n + 1 : newc[j] = c[j - 1]
  <2>1. c \in Seq(Page') /\ id \in Page' /\ i \in 1 .. Len(c)
    BY <1>1, <1>4, <1>5, <1>10, <1>11, SeqGrows
  <2>2. n = Len(c)
    BY <1>11
  <2>3. /\ Len(newc) = Len(c) + 1 /\ ToSet(newc) = ToSet(c) \cup {id}
        /\ newc[i + 1] = id /\ \A j \in 1 .. i : newc[j] = c[j]
    BY ONLY <1>15, <2>1, ChildAdded
  <2>4. \A j \in i + 2 .. Len(c) + 1 : newc[j] = c[j - 1]
    BY ONLY <1>15, <2>1, ChildAdded
  <2> QED  BY <2>2, <2>3, <2>4
<1>18. ListedAfter(newc, n + 1)
  <2>1. n \in Nat /\ Lists(c, n) /\ \A j \in 1 .. n : c[j] \in Leaves
    BY <1>4
  <2>2. i \in 1 .. n /\ c[i] = p /\ SplitsLeaf(p, id, e)
    BY <1>2, <1>5
  <2>3. /\ newc[i + 1] = id /\ \A j \in 1 .. i : newc[j] = c[j]
        /\ \A j \in i + 2 .. n + 1 : newc[j] = c[j - 1]
    BY <1>17
  <2> QED  BY ONLY <2>1, <2>2, <2>3, ListGrows, Zenon
<1>19. \A j \in 1 .. n : j # i => c[j] # p /\ nodes'[c[j]].entries = nodes[c[j]].entries
  <2>1. \A j \in 1 .. n : j # i => c[j] # p
    BY <1>4, <1>5 DEF Lists
  <2> QED  BY <1>2, <1>4, <2>1
<1>20. ASSUME NEW j \in 1 .. n + 1, NEW q \in KeysIn(nodes'[newc[j]].entries)
       PROVE  Fits(newk, j, q)
  <2>0. n \in Nat /\ i \in Int /\ j \in Int /\ 1 <= i /\ i <= n
    BY <1>4, <1>5
  <2>1. CASE j < i
    <3>1. j \in 1 .. i - 1 /\ j \in 1 .. i /\ j \in 1 .. n /\ j # i
      BY <2>0, <2>1
    <3>2. q \in KeysOf(c[j])
      BY <1>17, <1>19, <1>20, <3>1 DEF KeysOf
    <3> QED  BY <1>4, <1>16, <3>1, <3>2
  <2>2. CASE j = i
    <3>1. newc[j] = p
      BY <1>5, <1>17, <2>0, <2>2
    <3>2. q \in KeysIn(left)
      BY <1>8, <1>20, <3>1
    <3> QED  BY <1>12, <1>16, <2>2, <3>2
  <2>3. CASE j = i + 1
    <3>1. q \in KeysIn(right)
      BY <1>8, <1>17, <1>20, <2>3
    <3> QED  BY <1>12, <1>16, <2>3, <3>1
  <2>4. CASE j > i + 1
    <3>1. /\ j \in i + 2 .. n + 1 /\ j - 1 \in 1 .. n /\ j - 1 # i
          /\ j - 1 \in i + 1 .. n /\ j - 1 + 1 = j
      BY <2>0, <2>4
    <3>2. newc[j] = c[j - 1]
      BY <1>17, <3>1
    <3>3. q \in KeysOf(c[j - 1])
      BY <1>19, <1>20, <3>1, <3>2 DEF KeysOf
    <3>4. q \in Keys /\ Fits(keys, j - 1, q)
      BY <1>4, <3>1, <3>3
    <3>5. j - 1 \in i + 1 .. Len(keys) + 1
      BY <1>4, <3>1
    <3>6. Fits(newk, j - 1 + 1, q)
      BY <1>16, <3>4, <3>5
    <3> QED  BY <3>1, <3>6
  <2> QED  BY <2>0, <2>1, <2>2, <2>3, <2>4
<1>21. root_page_id' \notin Leaves' /\ Leaves' = ToSet(newc)
  <2>1. r # id
    BY <1>10, NewIdIs DEF id
  <2> QED  BY <1>1, <1>2, <1>4, <1>17, <2>1
<1>22. newk = nodes'[root_page_id'].keys /\ newc = nodes'[root_page_id'].children
  BY <1>1, <1>14
<1>23. /\ n + 1 \in Nat /\ n + 1 = Len(newc) /\ n + 1 = Len(newk) + 1
       /\ Len(newk) \in Nat /\ NewId' = n + 1 + 1
  BY <1>4, <1>6, <1>16, <1>17
<1> QED  BY <1>16, <1>18, <1>20, <1>21, <1>22, <1>23, OrderedAfter

LEMMA InsertKeepsProperUse ==
  ASSUME IndInv, ProperUse, NEW k \in Keys, NEW v \in Values, Insert(k, v), ~ Duplicates
  PROVE  ProperUse'
<1> DEFINE e == Entry(k, v)
           M == InternalMax + 2
<1>1. TypeOK /\ LeavesSorted /\ TwoLevelsDeep /\ HoldsGiven
  BY DEF IndInv
<1>2. Gives(k, v) /\ given[k] = {}
  BY DEF Insert, Gives
<1>3. OneValue /\ (NewId <= M => Ordered) /\ NewId \in Nat /\ InternalMax \in Nat
  BY <1>1, NewIdIs, InternalMaxAssumption DEF ProperUse
<1>4. CASE InsertFits(k, v)
  <2>1. FillsLeaf(FindLeafPage(k), e)
    BY <1>1, <1>2, <1>4, FitsFillsLeaf
  <2>2. OneValue'
    BY <1>1, <1>2, <1>3, <2>1, FillKeepsOneValue
  <2>3. NewId' = NewId
    BY <1>1, <1>4, InsertFitsIs, NewIdNext
  <2>4. NewId' <= M => Ordered'
    BY <1>1, <1>2, <1>3, <1>4, <2>3, FitsKeepsOrder
  <2> QED  BY <2>2, <2>4 DEF ProperUse
<1>5. CASE SplitRoot(k, v)
  <2>1. SplitsLeaf(0, NewId, e)
    BY <1>1, <1>2, <1>5, RootSplitsLeaf
  <2>2. OneValue'
    BY <1>1, <1>2, <1>3, <2>1, SplitKeepsOneValue
  <2>3. Page' = Page \cup {NewId, NewId + 1}
    BY <1>1, <1>5, SplitRootIs
  <2>4. NewId' = NewId + 2
    BY <1>1, <2>3, NewIdNext
  <2>5. NewId' <= M => NewId <= M
    BY <1>3, <2>4
  <2>6. NewId' <= M => Ordered'
    BY <1>1, <1>2, <1>3, <1>5, <2>5, RootKeepsOrder
  <2> QED  BY <2>2, <2>6 DEF ProperUse
<1>6. CASE SplitLeaf(k, v) \/ SplitDropped(k, v)
  <2>1. SplitsLeaf(FindLeafPage(k), NewId, e)
    BY <1>1, <1>2, <1>6, SplitSplitsLeaf
  <2>2. OneValue'
    BY <1>1, <1>2, <1>3, <2>1, SplitKeepsOneValue
  <2>3. Page' = Page \cup {NewId}
    BY <1>1, <1>6, SplitLeafIs
  <2>4. NewId' = NewId + 1
    BY <1>1, <2>3, NewIdNext
  <2>5. NewId' <= M => NewId <= M
    BY <1>3, <2>4
  <2>6. CASE SplitLeaf(k, v)
    <3>1. NewId' <= M => Ordered'
      BY <1>1, <1>2, <1>3, <2>5, <2>6, SplitKeepsOrder
    <3> QED  BY <2>2, <3>1 DEF ProperUse
  \* The root is full: there are InternalMax + 1 leaves below it, and the new one
  \* is page InternalMax + 2.
  <2>7. CASE SplitDropped(k, v)
    <3>1. ASSUME NewId' <= M  PROVE FALSE
      <4>1. Ordered /\ root_page_id \notin Leaves /\ ~ HasRoom(Root)
        BY <1>1, <1>3, <2>5, <2>7, <3>1, SplitLeafIs
      <4>2. Len(Root.keys) \in Nat /\ NewId = Len(Root.keys) + 1 + 1
        BY <1>1, <4>1, OrderedIs
      <4>3. ~ (Len(Root.keys) < InternalMax)
        BY <4>1 DEF HasRoom
      <4> QED  BY <1>3, <2>4, <3>1, <4>2, <4>3
    <3> QED  BY <2>2, <3>1 DEF ProperUse
  <2> QED  BY <1>6, <2>6, <2>7
<1> QED  BY <1>4, <1>5, <1>6 DEF Insert

LEMMA InitGivesProperUse ==
  ASSUME Init
  PROVE  ProperUse
<1> DEFINE page == Leaf(<< >>, 0, NoNext)
<1>1. nodes = [p \in {0} |-> page] /\ root_page_id = 0
  BY DEF Init
<1>2. page.is_leaf /\ page.entries = << >> /\ page.next = NoNext
  BY LeafParts DEF Leaf
<1> HIDE DEF page
<1>3. Page = {0} /\ Leaves = {0} /\ nodes[0].entries = << >> /\ nodes[0].next = NoNext
  BY <1>1, <1>2 DEF Page, Leaves
<1>4. ToSet(<< >>) = {}
  BY DEF ToSet
<1> QED  BY <1>1, <1>3, <1>4 DEF ProperUse, OneValue, Ordered, Root

LEMMA NextKeepsProperUse ==
  ASSUME ~ Duplicates, ~ Reopens
  PROVE  IndInv /\ ProperUse /\ [Next]_vars => ProperUse'
<1> SUFFICES ASSUME IndInv, ProperUse, [Next]_vars  PROVE ProperUse'
  OBVIOUS
<1>1. CASE \E k \in Keys, v \in Values : Insert(k, v)
  BY <1>1, InsertKeepsProperUse
<1>2. CASE UNCHANGED vars
  <2>1. UNCHANGED <<nodes, given, root_page_id>>
    BY <1>2 DEF vars
  <2>2. OneValue'
    BY <2>1 DEF ProperUse, OneValue, Leaves, Page
  <2>3. NewId' = NewId
    BY <2>1 DEF NewId
  <2>4. Ordered => Ordered'
    BY <2>1 DEF Ordered, Lists, Between, KeysOf, Leaves, Page, Root, NewId
  <2> QED  BY <2>2, <2>3, <2>4 DEF ProperUse
<1> QED  BY <1>1, <1>2 DEF Next, Reopen

\* Used as it is meant to be, and until the root is full, the tree is in order.
THEOREM TreeProperUse ==
  ASSUME ~ Duplicates, ~ Reopens
  PROVE  Spec => []ProperUse
<1>1. Init => ProperUse
  BY InitGivesProperUse
<1>2. IndInv /\ ProperUse /\ [Next]_vars => ProperUse'
  BY NextKeepsProperUse
<1> QED  BY <1>1, <1>2, TreeInvariant, PTL DEF Spec

-----------------------------------------------------------------------------
(***************************************************************************)
(* As long as every separator has room, the tree is a table.  The root and *)
(* its leaves are InternalMax + 2 pages at most.                           *)
(***************************************************************************)
LEMMA ProperUseGivesOrdered ==
  ASSUME IndInv, ProperUse, MaxPages <= InternalMax + 2
  PROVE  Ordered /\ OneValue /\ TypeOK /\ LeavesSorted /\ TwoLevelsDeep /\ HoldsGiven
<1>1. NewId \in 1 .. MaxPages /\ MaxPages \in Nat /\ InternalMax \in Nat
  BY NewIdIs, InternalMaxAssumption DEF IndInv
<1> QED  BY <1>1 DEF ProperUse, IndInv

\* A key that is in a leaf is in the one where it is looked for.
LEMMA InItsLeaf ==
  ASSUME TypeOK, TwoLevelsDeep, Ordered, NEW k \in Keys, NEW p \in Leaves, k \in KeysOf(p)
  PROVE  p = FindLeafPage(k)
<1> DEFINE found == FindLeafPage(k)
<1>1. CASE root_page_id \in Leaves
  <2>1. found = root_page_id
    BY <1>1, FindIsLeaf
  <2> QED  BY <1>1, <2>1, OrderedRoot
<1>2. CASE root_page_id \notin Leaves
  <2> DEFINE keys == Root.keys
             c    == Root.children
             n    == Len(c)
             i    == ChildPlace(keys, k)
  <2>1. /\ keys \in Seq(Keys) /\ Increasing(keys) /\ c \in Seq(Page) /\ n = Len(keys) + 1
        /\ Leaves = ToSet(c)
        /\ \A j \in 1 .. n : \A q \in KeysOf(c[j]) : q \in Keys /\ Fits(keys, j, q)
    BY <1>2, OrderedIs
  <2>2. found = c[i]
    BY <1>2, FindIsLeaf
  <2>3. PICK j \in 1 .. n : p = c[j]
    BY <2>1, Elements
  <2>4. j \in 1 .. Len(keys) + 1 /\ Fits(keys, j, k)
    BY <2>1, <2>3
  <2>5. j = i
    BY <2>1, <2>4, KeysAssumption, PlaceFits
  <2> QED  BY <2>2, <2>3, <2>5
<1> QED  BY <1>1, <1>2

LEMMA ProperUseGivesFinds ==
  ASSUME IndInv, ProperUse, MaxPages <= InternalMax + 2
  PROVE  Finds
<1> SUFFICES ASSUME NEW k \in Keys
             PROVE  given[k] = IF GetValue(k) = NoValue THEN {} ELSE {GetValue(k)}
  BY DEF Finds
<1> DEFINE p == FindLeafPage(k)
<1>1. /\ Ordered /\ OneValue /\ TypeOK /\ LeavesSorted /\ TwoLevelsDeep /\ HoldsGiven
  BY ProperUseGivesOrdered
<1>2. /\ p \in Leaves
      /\ k \notin KeysOf(p) => GetValue(k) = NoValue
      /\ k \in KeysOf(p) =>
           \E e \in ToSet(nodes[p].entries) : e.key = k /\ GetValue(k) = e.value
  BY <1>1, GetValueIs
<1>3. CASE k \in KeysOf(p)
  <2>1. PICK e \in ToSet(nodes[p].entries) : e.key = k /\ GetValue(k) = e.value
    BY <1>2, <1>3
  <2>2. e \in Pairs /\ given[k] = {e.value}
    BY <1>1, <1>2, <2>1, GivenKeys DEF OneValue
  <2>3. e.value # NoValue
    BY <2>2, NoValueAssumption DEF Pairs
  <2> QED  BY <2>1, <2>2, <2>3
<1>4. CASE k \notin KeysOf(p)
  <2>1. given[k] = {}
    <3> SUFFICES ASSUME given[k] # {}  PROVE FALSE
      OBVIOUS
    <3>1. PICK q \in Leaves : k \in KeysOf(q)
      BY <1>1 DEF HoldsGiven
    <3>2. q = p
      BY <1>1, <3>1, InItsLeaf
    <3> QED  BY <1>4, <3>1, <3>2
  <2> QED  BY <1>2, <1>4, <2>1
<1> QED  BY <1>3, <1>4

LEMMA ProperUseGivesInOrder ==
  ASSUME IndInv, ProperUse, MaxPages <= InternalMax + 2
  PROVE  InOrder
<1>1. Ordered /\ TypeOK
  BY ProperUseGivesOrdered
<1>2. CASE root_page_id \in Leaves
  <2>1. root_page_id = 0 /\ Root.next = NoNext /\ Root.is_leaf
    BY <1>1, <1>2, OrderedRoot DEF Root, Leaves
  <2> QED  BY <2>1 DEF InOrder
<1>3. CASE root_page_id \notin Leaves
  <2> DEFINE keys == Root.keys
             c    == Root.children
             n    == Len(c)
  <2>1. /\ n = Len(keys) + 1 /\ n \in Nat /\ Len(keys) \in Nat /\ NewId = n + 1
        /\ Lists(c, n)
        /\ \A j \in 1 .. n : \A q \in KeysOf(c[j]) : q \in Keys /\ Fits(keys, j, q)
    BY <1>1, <1>3, OrderedIs
  <2>2. ~ Root.is_leaf
    BY <1>1, <1>3 DEF Root, Leaves, TypeOK
  <2>3. n \in 1 .. MaxPages
    BY <1>1, <2>1, NewIdIs
  <2> HIDE DEF keys, c, n
  <2>4. \A i \in 1 .. n : ListedLeaf[i - 1] = c[i]
    BY <2>1, <2>3, ListedLeafIs
  <2>5. ASSUME NEW i \in 1 .. n
        PROVE  /\ c[i] = ListedLeaf[i - 1]
               /\ nodes[c[i]].next = IF i < n THEN c[i + 1] ELSE NoNext
               /\ \A k \in KeysOf(c[i]) : /\ i > 1 => keys[i - 1] <= k
                                          /\ i < n => k < keys[i]
    <3>1. i < n => i <= Len(keys)
      BY <2>1
    <3> QED  BY <2>1, <2>4, <3>1 DEF Fits, Lists
  <2> QED  BY <2>2, <2>5 DEF InOrder, keys, c, n
<1> QED  BY <1>2, <1>3

\* Every key given is found, with the value given.
THEOREM TreeFinds ==
  ASSUME ~ Duplicates, ~ Reopens, MaxPages <= InternalMax + 2
  PROVE  Spec => []Finds
<1>1. IndInv /\ ProperUse => Finds
  BY ProperUseGivesFinds
<1> QED  BY <1>1, TreeInvariant, TreeProperUse, PTL

\* The leaves below the root are the list of leaves, in order.
THEOREM TreeInOrder ==
  ASSUME ~ Duplicates, ~ Reopens, MaxPages <= InternalMax + 2
  PROVE  Spec => []InOrder
<1>1. IndInv /\ ProperUse => InOrder
  BY ProperUseGivesInOrder
<1> QED  BY <1>1, TreeInvariant, TreeProperUse, PTL

-----------------------------------------------------------------------------
(***************************************************************************)
(* The table.                                                              *)
(***************************************************************************)
\* An insert that keeps the keys found puts its pair into the table.
LEMMA InsertPuts ==
  ASSUME TypeOK, Finds, Finds', NEW k \in Keys, NEW v \in Values, Insert(k, v), ~ Duplicates
  PROVE  Index!Put(k, v)
<1>1. Gives(k, v) /\ given[k] = {}
  BY DEF Insert, Gives
<1>2. /\ given'[k] = {v}
      /\ \A j \in Keys : j # k => given'[j] = given[j]
  <2>1. given'[k] = given[k] \cup {v}
    BY <1>1, GivenIs
  <2> QED  BY <1>1, <2>1, GivenIs
<1>3. /\ \A j \in Keys : given[j] = IF GetValue(j) = NoValue THEN {} ELSE {GetValue(j)}
      /\ \A j \in Keys : given'[j] = IF GetValue(j)' = NoValue THEN {} ELSE {GetValue(j)'}
  BY DEF Finds
<1>4. GetValue(k) = NoValue
  BY <1>1, <1>3
<1>5. GetValue(k)' = v
  BY <1>2, <1>3
<1>6. ASSUME NEW j \in Keys, j # k  PROVE GetValue(j)' = GetValue(j)
  <2>1. given'[j] = given[j]
    BY <1>2, <1>6
  <2> QED  BY <1>3, <2>1
<1> DEFINE index == [j \in Keys |-> GetValue(j)]
<1>7. index[k] = NoValue
  BY <1>4
<1>8. index' = [index EXCEPT ![k] = v]
  BY <1>5, <1>6
<1> QED  BY <1>7, <1>8 DEF Index!Put

LEMMA InitIsEmptyIndex ==
  ASSUME Init, Finds
  PROVE  Index!IndexInit
<1>1. \A k \in Keys : given[k] = {}
  BY DEF Init
<1>2. \A k \in Keys : GetValue(k) = NoValue
  BY <1>1 DEF Finds
<1> QED  BY <1>2 DEF Index!IndexInit

LEMMA NextIsPut ==
  ASSUME ~ Duplicates, ~ Reopens
  PROVE  TypeOK /\ Finds /\ Finds' /\ [Next]_vars
           => [\E k \in Keys, v \in Values : Index!Put(k, v)]_([k \in Keys |-> GetValue(k)])
<1> SUFFICES ASSUME TypeOK, Finds, Finds', [Next]_vars
             PROVE  [\E k \in Keys, v \in Values : Index!Put(k, v)]_([k \in Keys |-> GetValue(k)])
  OBVIOUS
<1>1. CASE \E k \in Keys, v \in Values : Insert(k, v)
  BY <1>1, InsertPuts
<1>2. CASE UNCHANGED vars
  BY <1>2 DEF vars, GetValue, FindLeafPage, Descend
<1> QED  BY <1>1, <1>2 DEF Next, Reopen

\* The tree implements the table: no step but one that stores a new key, and that
\* one stores what it was given and changes no other answer.
THEOREM TreeIsATable ==
  ASSUME ~ Duplicates, ~ Reopens, MaxPages <= InternalMax + 2
  PROVE  Spec => ImplementsKeyIndex
<1>1. Init /\ Finds => Index!IndexInit
  BY InitIsEmptyIndex
<1>2. TypeOK /\ Finds /\ Finds' /\ [Next]_vars
        => [\E k \in Keys, v \in Values : Index!Put(k, v)]_([k \in Keys |-> GetValue(k)])
  BY NextIsPut
<1> QED  BY <1>1, <1>2, TreeTypes, TreeFinds, PTL DEF Spec, ImplementsKeyIndex, Index!IndexSpec
=============================================================================
