------------------------ MODULE BPlusTreePage_proofs -------------------------
(***************************************************************************)
(* Lemmas about the pages of the tree: what insert, the merge and the two  *)
(* halves of a split do to the entries of a leaf, whatever they are.       *)
(***************************************************************************)
EXTENDS BPlusTreePage, IntervalInduction, SequenceTheorems

(***************************************************************************)
(* Searching and inserting.                                                *)
(***************************************************************************)
\* Inserting into a sequence, element by element.
LEMMA InsertAtElements ==
  ASSUME NEW T, NEW t \in Seq(T), NEW e \in T, NEW j \in 1 .. Len(t) + 1
  PROVE  /\ InsertAt(t, j, e) \in Seq(T) /\ Len(InsertAt(t, j, e)) = Len(t) + 1
         /\ \A n \in 1 .. j - 1 : InsertAt(t, j, e)[n] = t[n]
         /\ InsertAt(t, j, e)[j] = e
         /\ \A n \in j + 1 .. Len(t) + 1 : InsertAt(t, j, e)[n] = t[n - 1]
<1> DEFINE a  == SubSeq(t, 1, j - 1)
           b  == SubSeq(t, j, Len(t))
           ae == a \o <<e>>
<1>1. Len(t) \in Nat /\ j \in Int /\ \A n \in 1 .. Len(t) : t[n] \in T
  BY ElementOfSeq
<1>2. /\ a \in Seq(T) /\ Len(a) = j - 1
      /\ \A n \in 1 .. j - 1 : a[n] = t[n]
  BY <1>1, SubSeqProperties
<1>3. /\ b \in Seq(T) /\ Len(b) = Len(t) - j + 1
      /\ \A n \in 1 .. Len(t) - j + 1 : b[n] = t[j + n - 1]
  BY <1>1, SubSeqProperties
<1> HIDE DEF a, b
<1>4. /\ ae \in Seq(T) /\ Len(ae) = j
      /\ \A n \in 1 .. j - 1 : ae[n] = t[n]
      /\ ae[j] = e
  <2>1. <<e>> \in Seq(T) /\ Len(<<e>>) = 1 /\ <<e>>[1] = e
    OBVIOUS
  <2>2. /\ ae \in Seq(T) /\ Len(ae) = Len(a) + 1
        /\ \A n \in 1 .. Len(a) + 1 : ae[n] = IF n <= Len(a) THEN a[n] ELSE <<e>>[n - Len(a)]
    BY <1>2, <2>1, ConcatProperties
  <2> HIDE DEF ae
  <2>3. ASSUME NEW n \in 1 .. j - 1  PROVE ae[n] = t[n]
    BY <1>1, <1>2, <2>2
  <2>4. ae[j] = e
    <3>1. j - Len(a) = 1 /\ j \in 1 .. Len(a) + 1 /\ ~ (j <= Len(a))
      BY <1>1, <1>2
    <3> QED  BY <2>1, <2>2, <3>1
  <2> QED  BY <1>1, <1>2, <2>2, <2>3, <2>4
<1> HIDE DEF ae
<1>5. /\ ae \o b \in Seq(T) /\ Len(ae \o b) = j + Len(b)
      /\ \A n \in 1 .. j + Len(b) : (ae \o b)[n] = IF n <= j THEN ae[n] ELSE b[n - j]
  BY <1>3, <1>4, ConcatProperties
<1>6. InsertAt(t, j, e) = ae \o b
  BY DEF InsertAt, ae, a, b
<1>7. j + Len(b) = Len(t) + 1
  BY <1>1, <1>3
<1>8. ASSUME NEW n \in 1 .. j  PROVE (ae \o b)[n] = ae[n]
  BY <1>1, <1>5, <1>7
<1>9. ASSUME NEW n \in j + 1 .. Len(t) + 1  PROVE (ae \o b)[n] = t[n - 1]
  <2>1. n - j \in 1 .. Len(t) - j + 1 /\ j + (n - j) - 1 = n - 1
    BY <1>1
  <2>2. b[n - j] = t[n - 1]
    BY <1>3, <2>1
  <2>3. (ae \o b)[n] = b[n - j]
    BY <1>1, <1>5, <1>7
  <2> QED  BY <2>2, <2>3
<1>10. \A n \in 1 .. j - 1 : n \in 1 .. j
  BY <1>1
<1>11. j \in 1 .. j
  BY <1>1
<1> QED  BY <1>4, <1>5, <1>6, <1>7, <1>8, <1>9, <1>10, <1>11

\* The same for one element.
LEMMA InsertAtElement ==
  ASSUME NEW T, NEW t \in Seq(T), NEW e \in T, NEW j \in 1 .. Len(t) + 1,
         NEW n \in 1 .. Len(t) + 1
  PROVE  /\ n < j => InsertAt(t, j, e)[n] = t[n]
         /\ n > j => InsertAt(t, j, e)[n] = t[n - 1]
<1>1. n < j => n \in 1 .. j - 1
  OBVIOUS
<1>2. n > j => n \in j + 1 .. Len(t) + 1
  OBVIOUS
<1> QED  BY <1>1, <1>2, InsertAtElements

\* ToSet is the set of the elements.
LEMMA Elements ==
  ASSUME NEW T, NEW t \in Seq(T)
  PROVE  /\ ToSet(t) = {t[n] : n \in 1 .. Len(t)}
         /\ ToSet(t) \subseteq T /\ Len(t) \in Nat /\ DOMAIN t = 1 .. Len(t)
<1>1. DOMAIN t = 1 .. Len(t) /\ Len(t) \in Nat /\ \A n \in 1 .. Len(t) : t[n] \in T
  BY ElementOfSeq
<1> QED  BY <1>1 DEF ToSet

LEMMA InsertAtToSet ==
  ASSUME NEW T, NEW t \in Seq(T), NEW e \in T, NEW j \in 1 .. Len(t) + 1
  PROVE  ToSet(InsertAt(t, j, e)) = ToSet(t) \cup {e}
<1> DEFINE new == InsertAt(t, j, e)
<1>1. Len(t) \in Nat
  BY Elements
<1>2. /\ new \in Seq(T) /\ Len(new) = Len(t) + 1 /\ new[j] = e
      /\ \A n \in 1 .. j - 1 : new[n] = t[n]
      /\ \A n \in j + 1 .. Len(t) + 1 : new[n] = t[n - 1]
  BY InsertAtElements
<1> HIDE DEF new
<1>3. ToSet(new) = {new[n] : n \in 1 .. Len(t) + 1}
  BY <1>2, Elements
<1>4. ToSet(t) = {t[n] : n \in 1 .. Len(t)}
  BY Elements
<1>5. ASSUME NEW n \in 1 .. Len(t) + 1  PROVE new[n] \in ToSet(t) \cup {e}
  <2>1. CASE n < j
    <3>1. n \in 1 .. j - 1 /\ n \in 1 .. Len(t)
      BY <1>1, <2>1
    <3> QED  BY <1>2, <1>4, <3>1
  <2>2. CASE n = j
    BY <1>2, <2>2
  <2>3. CASE n > j
    <3>1. n \in j + 1 .. Len(t) + 1 /\ n - 1 \in 1 .. Len(t)
      BY <1>1, <2>3
    <3> QED  BY <1>2, <1>4, <3>1
  <2> QED  BY <1>1, <2>1, <2>2, <2>3
<1>6. ASSUME NEW n \in 1 .. Len(t)  PROVE t[n] \in ToSet(new)
  <2>1. CASE n < j
    <3>1. n \in 1 .. j - 1 /\ n \in 1 .. Len(t) + 1
      BY <1>1, <2>1
    <3>2. new[n] = t[n]
      BY <1>2, <3>1
    <3> QED  BY <1>3, <3>1, <3>2
  <2>2. CASE n >= j
    <3>1. n + 1 \in j + 1 .. Len(t) + 1 /\ n + 1 \in 1 .. Len(t) + 1 /\ n + 1 - 1 = n
      BY <1>1, <2>2
    <3>2. new[n + 1] = t[n]
      BY <1>2, <3>1
    <3> QED  BY <1>3, <3>1, <3>2
  <2> QED  BY <1>1, <2>1, <2>2
<1>7. e \in ToSet(new)
  BY <1>2, <1>3
<1>8. ToSet(new) \subseteq ToSet(t) \cup {e}
  BY <1>3, <1>5
<1>9. ToSet(t) \cup {e} \subseteq ToSet(new)
  BY <1>4, <1>6, <1>7
<1> QED  BY <1>8, <1>9 DEF new

\* The first of the places that pass a test, or the one behind the end.
LEMMA FirstOf ==
  ASSUME NEW N \in Nat, NEW passes \in SUBSET (1 .. N), NEW i,
         i = Min(passes \cup {N + 1})
  PROVE  /\ i \in 1 .. N + 1
         /\ \A j \in 1 .. i - 1 : j \in 1 .. N /\ j \notin passes
         /\ i \in 1 .. N => i \in passes
<1>1. passes \cup {N + 1} \in SUBSET Nat
  OBVIOUS
<1>2. i \in passes \cup {N + 1} /\ \A n \in passes \cup {N + 1} : i <= n
  BY <1>1, MinOf
<1> QED  BY <1>2

LEMMA PlaceOfLookup ==
  ASSUME NEW T, NEW t \in Seq(T), NEW k, NEW i, i = LeafLookup(t, k)
  PROVE  /\ i \in 1 .. Len(t) + 1
         /\ \A j \in 1 .. i - 1 : j \in 1 .. Len(t) /\ ~ (t[j].key >= k)
         /\ i \in 1 .. Len(t) => t[i].key >= k
<1> DEFINE passes == {j \in 1 .. Len(t) : t[j].key >= k}
<1>1. Len(t) \in Nat /\ DOMAIN t = 1 .. Len(t)
  BY Elements
<1>2. i = Min(passes \cup {Len(t) + 1})
  BY <1>1 DEF LeafLookup, FirstPlace
<1>3. passes \in SUBSET (1 .. Len(t))
  OBVIOUS
<1> HIDE DEF passes
<1>4. /\ i \in 1 .. Len(t) + 1
      /\ \A j \in 1 .. i - 1 : j \in 1 .. Len(t) /\ j \notin passes
      /\ i \in 1 .. Len(t) => i \in passes
  BY <1>1, <1>2, <1>3, FirstOf
<1> QED  BY <1>4 DEF passes

LEMMA PlaceOfMerge ==
  ASSUME NEW T, NEW t \in Seq(T), NEW k, NEW i, i = MergePlace(t, k)
  PROVE  /\ i \in 1 .. Len(t) + 1
         /\ \A j \in 1 .. i - 1 : j \in 1 .. Len(t) /\ ~ (k < t[j].key)
         /\ i \in 1 .. Len(t) => k < t[i].key
<1> DEFINE passes == {j \in 1 .. Len(t) : k < t[j].key}
<1>1. Len(t) \in Nat /\ DOMAIN t = 1 .. Len(t)
  BY Elements
<1>2. i = Min(passes \cup {Len(t) + 1})
  BY <1>1 DEF MergePlace, FirstPlace
<1>3. passes \in SUBSET (1 .. Len(t))
  OBVIOUS
<1> HIDE DEF passes
<1>4. /\ i \in 1 .. Len(t) + 1
      /\ \A j \in 1 .. i - 1 : j \in 1 .. Len(t) /\ j \notin passes
      /\ i \in 1 .. Len(t) => i \in passes
  BY <1>1, <1>2, <1>3, FirstOf
<1> QED  BY <1>4 DEF passes

LEMMA PlaceOfChild ==
  ASSUME NEW T, NEW t \in Seq(T), NEW k, NEW i, i = ChildPlace(t, k)
  PROVE  /\ i \in 1 .. Len(t) + 1
         /\ \A j \in 1 .. i - 1 : j \in 1 .. Len(t) /\ ~ (k < t[j])
         /\ i \in 1 .. Len(t) => k < t[i]
<1> DEFINE passes == {j \in 1 .. Len(t) : k < t[j]}
<1>1. Len(t) \in Nat /\ DOMAIN t = 1 .. Len(t)
  BY Elements
<1>2. i = Min(passes \cup {Len(t) + 1})
  BY <1>1 DEF ChildPlace, FirstPlace
<1>3. passes \in SUBSET (1 .. Len(t))
  OBVIOUS
<1> HIDE DEF passes
<1>4. /\ i \in 1 .. Len(t) + 1
      /\ \A j \in 1 .. i - 1 : j \in 1 .. Len(t) /\ j \notin passes
      /\ i \in 1 .. Len(t) => i \in passes
  BY <1>1, <1>2, <1>3, FirstOf
<1> QED  BY <1>4 DEF passes

LEMMA PlaceOfSeparator ==
  ASSUME NEW T, NEW t \in Seq(T), NEW k, NEW i, i = SeparatorPlace(t, k)
  PROVE  /\ i \in 1 .. Len(t) + 1
         /\ \A j \in 1 .. i - 1 : j \in 1 .. Len(t) /\ t[j] < k
         /\ i \in 1 .. Len(t) => ~ (t[i] < k)
<1> DEFINE passes == {j \in 1 .. Len(t) : ~ (t[j] < k)}
<1>1. Len(t) \in Nat /\ DOMAIN t = 1 .. Len(t)
  BY Elements
<1>2. i = Min(passes \cup {Len(t) + 1})
  BY <1>1 DEF SeparatorPlace, FirstPlace
<1>3. passes \in SUBSET (1 .. Len(t))
  OBVIOUS
<1> HIDE DEF passes
<1>4. /\ i \in 1 .. Len(t) + 1
      /\ \A j \in 1 .. i - 1 : j \in 1 .. Len(t) /\ j \notin passes
      /\ i \in 1 .. Len(t) => i \in passes
  BY <1>1, <1>2, <1>3, FirstOf
<1> QED  BY <1>4 DEF passes

-----------------------------------------------------------------------------
(***************************************************************************)
(* Leaves.  An entry is any value with a key, which is a number.           *)
(***************************************************************************)
HaveKeys(T) == \A e \in T : e.key \in Int

LEMMA KeysInIs ==
  ASSUME NEW T, NEW t \in Seq(T)
  PROVE  KeysIn(t) = {t[n].key : n \in 1 .. Len(t)}
<1>1. ToSet(t) = {t[n] : n \in 1 .. Len(t)}
  BY Elements
<1> QED  BY <1>1 DEF KeysIn

\* Where the keys ascend, lookup finds a key that is there.
LEMMA LookupFinds ==
  ASSUME NEW T, HaveKeys(T), NEW t \in Seq(T), Ascending(t), NEW k \in Int
  PROVE  /\ LeafHas(t, k) <=> k \in KeysIn(t)
         /\ LeafHas(t, k) => /\ LeafLookup(t, k) \in 1 .. Len(t)
                             /\ t[LeafLookup(t, k)].key = k
                             /\ t[LeafLookup(t, k)] \in ToSet(t)
<1> DEFINE i == LeafLookup(t, k)
<1>1. /\ Len(t) \in Nat /\ DOMAIN t = 1 .. Len(t)
      /\ \A n \in 1 .. Len(t) : t[n].key \in Int
      /\ ToSet(t) = {t[n] : n \in 1 .. Len(t)}
  BY Elements, ElementOfSeq DEF HaveKeys
<1>2. /\ i \in 1 .. Len(t) + 1
      /\ \A j \in 1 .. i - 1 : j \in 1 .. Len(t) /\ ~ (t[j].key >= k)
      /\ i \in 1 .. Len(t) => t[i].key >= k
  BY PlaceOfLookup
<1>3. LeafHas(t, k) <=> i <= Len(t) /\ t[i].key = k
  BY DEF LeafHas
<1> HIDE DEF i
<1>4. LeafHas(t, k) => i \in 1 .. Len(t) /\ t[i].key = k
  BY <1>1, <1>2, <1>3
<1>5. ASSUME NEW n \in 1 .. Len(t), t[n].key = k
      PROVE  LeafHas(t, k)
  <2>1. ~ (n \in 1 .. i - 1)
    BY <1>1, <1>2, <1>5
  <2>2. i \in 1 .. Len(t) /\ i <= n
    BY <1>1, <1>2, <2>1
  <2>3. i < n => t[i].key < t[n].key
    BY <1>1, <2>2 DEF Ascending
  <2>4. t[i].key = k
    BY <1>1, <1>2, <1>5, <2>2, <2>3
  <2> QED  BY <1>3, <2>2, <2>4
<1>6. LeafHas(t, k) <=> k \in KeysIn(t)
  BY <1>4, <1>5, KeysInIs
<1>7. LeafHas(t, k) => t[i] \in ToSet(t)
  BY <1>1, <1>4
<1> QED  BY <1>4, <1>6, <1>7 DEF i

\* Of the entries of a leaf only one has the key.
LEMMA OneEntryPerKey ==
  ASSUME NEW T, HaveKeys(T), NEW t \in Seq(T), Ascending(t),
         NEW d \in ToSet(t), NEW e \in ToSet(t), d.key = e.key
  PROVE  d = e
<1>1. /\ DOMAIN t = 1 .. Len(t) /\ Len(t) \in Nat
      /\ \A n \in 1 .. Len(t) : t[n].key \in Int
      /\ ToSet(t) = {t[n] : n \in 1 .. Len(t)}
  BY Elements, ElementOfSeq DEF HaveKeys
<1>2. PICK m \in 1 .. Len(t), n \in 1 .. Len(t) : t[m] = d /\ t[n] = e
  BY <1>1
<1>3. /\ m < n => t[m].key < t[n].key
      /\ n < m => t[n].key < t[m].key
  BY <1>1 DEF Ascending
<1>4. m = n
  BY <1>1, <1>2, <1>3
<1> QED  BY <1>2, <1>4

\* A sequence into which an entry is inserted in front of the first greater key
\* ascends if it did and did not have the key.
LEMMA InsertAscends ==
  ASSUME NEW T, HaveKeys(T), NEW t \in Seq(T), Ascending(t), NEW e \in T,
         NEW i \in 1 .. Len(t) + 1,
         \A j \in 1 .. Len(t) : j < i => t[j].key < e.key,
         \A j \in 1 .. Len(t) : j >= i => e.key < t[j].key
  PROVE  Ascending(InsertAt(t, i, e))
<1> DEFINE new == InsertAt(t, i, e)
<1>1. Len(t) \in Nat /\ DOMAIN t = 1 .. Len(t)
  BY Elements
<1>2. new \in Seq(T) /\ Len(new) = Len(t) + 1 /\ new[i] = e
  BY InsertAtElements
<1>3. DOMAIN new = 1 .. Len(t) + 1
  BY <1>1, <1>2, Elements
<1>4. \A n \in 1 .. Len(t) + 1 : /\ n < i => new[n] = t[n]
                                 /\ n > i => new[n] = t[n - 1]
  BY InsertAtElement
<1> HIDE DEF new
<1>5. SUFFICES ASSUME NEW m \in 1 .. Len(t) + 1, NEW n \in 1 .. Len(t) + 1, m < n
               PROVE  new[m].key < new[n].key
  BY <1>3 DEF Ascending, new
<1>6. \A j, k \in 1 .. Len(t) : j < k => t[j].key < t[k].key
  BY <1>1 DEF Ascending
<1>7. CASE n < i
  <2>1. new[m] = t[m] /\ new[n] = t[n] /\ m \in 1 .. Len(t) /\ n \in 1 .. Len(t)
    BY <1>1, <1>4, <1>5, <1>7
  <2> QED  BY <1>5, <1>6, <2>1
<1>8. CASE n = i
  <2>1. new[m] = t[m] /\ m \in 1 .. Len(t) /\ m < i
    BY <1>1, <1>4, <1>5, <1>8
  <2> QED  BY <1>2, <1>8, <2>1
<1>9. CASE m = i
  <2>1. new[n] = t[n - 1] /\ n - 1 \in 1 .. Len(t) /\ n - 1 >= i
    BY <1>1, <1>4, <1>5, <1>9
  <2> QED  BY <1>2, <1>9, <2>1
<1>10. CASE m < i /\ i < n
  <2>1. /\ new[m] = t[m] /\ m \in 1 .. Len(t)
        /\ new[n] = t[n - 1] /\ n - 1 \in 1 .. Len(t) /\ n - 1 >= i /\ m < n - 1
    BY <1>1, <1>4, <1>5, <1>10
  <2> QED  BY <1>6, <2>1
<1>11. CASE i < m
  <2>1. /\ new[m] = t[m - 1] /\ m - 1 \in 1 .. Len(t)
        /\ new[n] = t[n - 1] /\ n - 1 \in 1 .. Len(t) /\ m - 1 < n - 1
    BY <1>1, <1>4, <1>5, <1>11
  <2> QED  BY <1>6, <2>1
<1> QED  BY <1>1, <1>5, <1>7, <1>8, <1>9, <1>10, <1>11

\* insert keeps the keys ascending, and adds the entry if it takes it.
LEMMA LeafInsertKeeps ==
  ASSUME NEW T, HaveKeys(T), NEW t \in Seq(T), Ascending(t), NEW e \in T
  PROVE  /\ LeafInsert(t, e) \in Seq(T) /\ Ascending(LeafInsert(t, e))
         /\ LeafAccepts(t, e.key) =>
              /\ Len(LeafInsert(t, e)) = Len(t) + 1
              /\ ToSet(LeafInsert(t, e)) = ToSet(t) \cup {e}
         /\ ~ LeafAccepts(t, e.key) => LeafInsert(t, e) = t
<1> DEFINE i == LeafLookup(t, e.key)
<1>1. /\ Len(t) \in Nat /\ e.key \in Int
      /\ \A n \in 1 .. Len(t) : t[n].key \in Int
  BY Elements, ElementOfSeq DEF HaveKeys
<1>2. CASE ~ LeafAccepts(t, e.key)
  BY <1>2 DEF LeafInsert
<1>3. CASE LeafAccepts(t, e.key)
  <2>1. /\ i \in 1 .. Len(t) + 1
        /\ \A j \in 1 .. i - 1 : j \in 1 .. Len(t) /\ ~ (t[j].key >= e.key)
        /\ i \in 1 .. Len(t) => t[i].key >= e.key
    BY PlaceOfLookup
  <2>2. ~ LeafHas(t, e.key)
    BY <1>3 DEF LeafAccepts
  <2>3. LeafInsert(t, e) = InsertAt(t, i, e)
    BY <1>3 DEF LeafInsert
  <2>4. e.key \notin KeysIn(t)
    BY <1>1, <2>2, LookupFinds
  <2>5. \A n \in 1 .. Len(t) : t[n].key # e.key
    BY <2>4, KeysInIs
  <2> HIDE DEF i
  <2>6. \A j \in 1 .. Len(t) : j < i => t[j].key < e.key
    BY <1>1, <2>1
  <2>7. ASSUME NEW j \in 1 .. Len(t), j >= i  PROVE e.key < t[j].key
    <3>1. i \in 1 .. Len(t)
      BY <1>1, <2>1, <2>7
    <3>2. i < j => t[i].key < t[j].key
      BY <3>1, Elements DEF Ascending
    <3> QED  BY <1>1, <2>1, <2>5, <2>7, <3>1, <3>2
  <2>8. Ascending(InsertAt(t, i, e))
    BY <2>1, <2>6, <2>7, InsertAscends
  <2>9. /\ InsertAt(t, i, e) \in Seq(T) /\ Len(InsertAt(t, i, e)) = Len(t) + 1
        /\ ToSet(InsertAt(t, i, e)) = ToSet(t) \cup {e}
    BY <2>1, InsertAtElements, InsertAtToSet
  <2> QED  BY <1>3, <2>3, <2>8, <2>9
<1> QED  BY <1>2, <1>3

-----------------------------------------------------------------------------
(***************************************************************************)
(* Filled, the fold by which split fills a page.  The fold is a function   *)
(* on the sets of indices; that there is one is shown first.               *)
(***************************************************************************)
IsFold(f, s, n) ==
  f = [t \in SUBSET (1 .. n) |->
         IF t = {} THEN << >> ELSE LeafInsert(f[t \ {Max(t)}], s[Max(t)])]

LEMMA FoldExists ==
  ASSUME NEW s, NEW N \in Nat
  PROVE  \E f : IsFold(f, s, N)
<1> DEFINE good == {n \in 0 .. N : \E f : IsFold(f, s, n)}
<1>1. 0 \in good
  <2>1. SUBSET (1 .. 0) = {{}}
    OBVIOUS
  <2>2. IsFold([t \in SUBSET (1 .. 0) |-> << >>], s, 0)
    BY <2>1 DEF IsFold
  <2> QED  BY <2>2
<1>2. ASSUME NEW n \in 0 .. N - 1, n \in good  PROVE n + 1 \in good
  <2>1. PICK f : IsFold(f, s, n)
    BY <1>2
  <2> DEFINE g == [t \in SUBSET (1 .. n + 1) |->
                    IF n + 1 \in t THEN LeafInsert(f[t \ {n + 1}], s[n + 1]) ELSE f[t]]
  <2>2. ASSUME NEW t \in SUBSET (1 .. n + 1), n + 1 \in t
        PROVE  g[t] = LeafInsert(g[t \ {Max(t)}], s[Max(t)])
    <3>1. Max(t) = n + 1
      BY <2>2, MaxIs
    <3>2. t \ {n + 1} \in SUBSET (1 .. n + 1) /\ n + 1 \notin t \ {n + 1}
      OBVIOUS
    <3>3. g[t \ {n + 1}] = f[t \ {n + 1}]
      BY <3>2
    <3> QED  BY <2>2, <3>1, <3>3
  <2>3. ASSUME NEW t \in SUBSET (1 .. n + 1), n + 1 \notin t, t # {}
        PROVE  g[t] = LeafInsert(g[t \ {Max(t)}], s[Max(t)])
    <3>1. t \in SUBSET (1 .. n) /\ t \ {Max(t)} \in SUBSET (1 .. n)
      <4>1. \A m \in t : m \in 1 .. n
        BY <2>3
      <4> QED  BY <4>1
    <3>2. t \ {Max(t)} \in SUBSET (1 .. n + 1) /\ n + 1 \notin t \ {Max(t)}
      BY <2>3
    <3>3. g[t \ {Max(t)}] = f[t \ {Max(t)}] /\ g[t] = f[t]
      BY <2>3, <3>2
    <3>4. f[t] = LeafInsert(f[t \ {Max(t)}], s[Max(t)])
      BY <2>1, <2>3, <3>1 DEF IsFold
    <3> QED  BY <3>3, <3>4
  <2>4. g[{}] = << >>
    <3>1. {} \in SUBSET (1 .. n) /\ {} \in SUBSET (1 .. n + 1) /\ n + 1 \notin {}
      OBVIOUS
    <3>2. f[{}] = << >>
      BY <2>1, <3>1 DEF IsFold
    <3> QED  BY <3>1, <3>2
  <2>5. g = [t \in SUBSET (1 .. n + 1) |-> g[t]]
    OBVIOUS
  <2> HIDE DEF g
  <2>6. \A t \in SUBSET (1 .. n + 1) :
          g[t] = IF t = {} THEN << >> ELSE LeafInsert(g[t \ {Max(t)}], s[Max(t)])
    BY <2>2, <2>3, <2>4
  <2>7. IsFold(g, s, n + 1)
    BY <2>5, <2>6 DEF IsFold
  <2> QED  BY <2>7
<1> HIDE DEF good
<1>3. good = 0 .. N
  <2>1. good \in SUBSET (0 .. N)
    BY DEF good
  <2> QED  BY <1>1, <1>2, <2>1, Induction
<1>4. N \in good
  BY <1>3
<1> QED  BY <1>4 DEF good

\* The pages in between: IsFilling says that page[n] is what the first n entries
\* make of an empty page.
IsFilling(page, s) ==
  /\ page[0] = << >>
  /\ \A n \in 1 .. Len(s) : page[n] = LeafInsert(page[n - 1], s[n])

LEMMA FilledSteps ==
  ASSUME NEW T, NEW s \in Seq(T)
  PROVE  \E page : IsFilling(page, s) /\ Filled(s) = page[Len(s)]
<1> DEFINE f    == CHOOSE f : IsFold(f, s, Len(s))
           page == [n \in 0 .. Len(s) |-> f[1 .. n]]
<1>1. Len(s) \in Nat /\ DOMAIN s = 1 .. Len(s)
  BY Elements
<1>2. IsFold(f, s, Len(s))
  BY <1>1, FoldExists
<1>3. Filled(s) = f[1 .. Len(s)]
  BY <1>1 DEF Filled, FoldLeft, MapThenFoldSet, IsFold
<1> HIDE DEF f
<1>4. page[0] = << >>
  <2>1. 1 .. 0 = {} /\ {} \in SUBSET (1 .. Len(s))
    OBVIOUS
  <2>2. f[{}] = << >>
    BY <1>2, <2>1 DEF IsFold
  <2> QED  BY <1>1, <2>1, <2>2
<1>5. ASSUME NEW n \in 1 .. Len(s)
      PROVE  page[n] = LeafInsert(page[n - 1], s[n])
  <2>1. n \in Nat \ {0} /\ 1 .. n \in SUBSET (1 .. Len(s))
    BY <1>1
  <2>2. Max(1 .. n) = n
    BY <2>1, LastOf
  <2>3. (1 .. n) \ {n} = 1 .. n - 1 /\ 1 .. n # {}
    BY <2>1, LastOf
  <2>4. f[1 .. n] = LeafInsert(f[1 .. n - 1], s[n])
    BY <1>2, <2>1, <2>2, <2>3 DEF IsFold
  <2> QED  BY <1>1, <2>4
<1>6. page[Len(s)] = f[1 .. Len(s)]
  BY <1>1
<1> QED  BY <1>3, <1>4, <1>5, <1>6 DEF IsFilling

\* What a page being filled looks like after n entries.
Fine(T, page, s, n) ==
  /\ page[n] \in Seq(T) /\ Ascending(page[n])
  /\ Len(page[n]) <= n /\ Len(page[n]) <= LeafMax
  /\ n >= 1 => Len(page[n]) >= 1
  /\ ToSet(page[n]) \subseteq {s[j] : j \in 1 .. n}
  /\ n <= LeafMax => KeysIn(page[n]) = {s[j].key : j \in 1 .. n}
  /\ n <= LeafMax /\ Ascending(s) => ToSet(page[n]) = {s[j] : j \in 1 .. n}

\* The first n elements and the next one.
LEMMA OneMoreElement ==
  ASSUME NEW s, NEW n \in Nat
  PROVE  /\ {s[j] : j \in 1 .. n + 1} = {s[j] : j \in 1 .. n} \cup {s[n + 1]}
         /\ {s[j].key : j \in 1 .. n + 1} = {s[j].key : j \in 1 .. n} \cup {s[n + 1].key}
<1>1. 1 .. n + 1 = (1 .. n) \cup {n + 1}
  OBVIOUS
<1> QED  BY <1>1

LEMMA FillingIsFine ==
  ASSUME NEW T, HaveKeys(T), NEW s \in Seq(T), NEW page, IsFilling(page, s),
         NEW n \in 0 .. Len(s)
  PROVE  Fine(T, page, s, n)
<1> DEFINE good == {m \in 0 .. Len(s) : Fine(T, page, s, m)}
<1>0. /\ Len(s) \in Nat /\ DOMAIN s = 1 .. Len(s) /\ LeafMax \in Nat \ {0}
      /\ \A j \in 1 .. Len(s) : s[j] \in T /\ s[j].key \in Int
  BY Elements, ElementOfSeq, LeafMaxAssumption DEF HaveKeys
<1>1. Fine(T, page, s, 0)
  <2>1. page[0] = << >>
    BY DEF IsFilling
  <2>2. << >> \in Seq(T) /\ Len(<< >>) = 0 /\ DOMAIN << >> = 1 .. 0 /\ 1 .. 0 = {}
    BY EmptySeq
  <2>3. ToSet(<< >>) = {} /\ KeysIn(<< >>) = {} /\ Ascending(<< >>)
    BY <2>2 DEF ToSet, KeysIn, Ascending
  <2> QED  BY <1>0, <2>1, <2>2, <2>3 DEF Fine
<1>2. ASSUME NEW m \in 0 .. Len(s) - 1, Fine(T, page, s, m)
      PROVE  Fine(T, page, s, m + 1)
  <2> DEFINE old == page[m]
             e   == s[m + 1]
             new == page[m + 1]
  <2>1. m \in Nat /\ m + 1 \in 1 .. Len(s) /\ m + 1 - 1 = m
    BY <1>0
  <2>2. new = LeafInsert(old, e) /\ e \in T /\ e.key \in Int
    BY <1>0, <2>1 DEF IsFilling
  <2>3. /\ old \in Seq(T) /\ Ascending(old)
        /\ Len(old) <= m /\ Len(old) <= LeafMax
        /\ m >= 1 => Len(old) >= 1
        /\ ToSet(old) \subseteq {s[j] : j \in 1 .. m}
        /\ m <= LeafMax => KeysIn(old) = {s[j].key : j \in 1 .. m}
        /\ m <= LeafMax /\ Ascending(s) => ToSet(old) = {s[j] : j \in 1 .. m}
    BY <1>2 DEF Fine
  <2>4. /\ {s[j] : j \in 1 .. m + 1} = {s[j] : j \in 1 .. m} \cup {e}
        /\ {s[j].key : j \in 1 .. m + 1} = {s[j].key : j \in 1 .. m} \cup {e.key}
    BY <2>1, OneMoreElement
  <2> HIDE DEF old, e, new
  <2>5. Len(old) \in Nat
    BY <2>3, Elements
  <2>6. CASE LeafAccepts(old, e.key)
    <3>1. /\ new \in Seq(T) /\ Ascending(new)
          /\ Len(new) = Len(old) + 1 /\ ToSet(new) = ToSet(old) \cup {e}
      <4>1. e \in T /\ old \in Seq(T) /\ Ascending(old) /\ HaveKeys(T)
        BY <2>2, <2>3
      <4>2. /\ LeafInsert(old, e) \in Seq(T) /\ Ascending(LeafInsert(old, e))
            /\ Len(LeafInsert(old, e)) = Len(old) + 1
            /\ ToSet(LeafInsert(old, e)) = ToSet(old) \cup {e}
        BY <2>6, <4>1, LeafInsertKeeps
      <4> QED  BY <2>2, <4>2
    <3>2. Len(old) < LeafMax
      BY <2>6 DEF LeafAccepts
    <3>3. KeysIn(new) = KeysIn(old) \cup {e.key}
      BY <3>1 DEF KeysIn
    <3>4. Len(new) <= m + 1 /\ Len(new) <= LeafMax /\ Len(new) >= 1
      BY <1>0, <2>1, <2>3, <2>5, <3>1, <3>2
    <3>5. m + 1 <= LeafMax => m <= LeafMax
      BY <1>0, <2>1
    <3>6. ToSet(new) \subseteq {s[j] : j \in 1 .. m + 1}
      BY <2>3, <2>4, <3>1
    <3>7. m + 1 <= LeafMax => KeysIn(new) = {s[j].key : j \in 1 .. m + 1}
      BY <2>3, <2>4, <3>3, <3>5
    <3>8. m + 1 <= LeafMax /\ Ascending(s) => ToSet(new) = {s[j] : j \in 1 .. m + 1}
      BY <2>3, <2>4, <3>1, <3>5
    <3> QED  BY <3>1, <3>4, <3>6, <3>7, <3>8 DEF Fine, new
  <2>7. CASE ~ LeafAccepts(old, e.key)
    <3>1. new = old
      BY <2>2, <2>3, <2>7, LeafInsertKeeps
    <3>2. e.key \in KeysIn(old) \/ ~ (Len(old) < LeafMax)
      BY <2>2, <2>3, <2>7, LookupFinds DEF LeafAccepts
    <3>3. m + 1 <= LeafMax => m <= LeafMax /\ e.key \in KeysIn(old)
      BY <1>0, <2>1, <2>3, <2>5, <3>2
    <3>4. Len(old) >= 1 /\ Len(old) <= m + 1
      <4>1. Len(old) = 0 => KeysIn(old) = {}
        <5>1. Len(old) = 0 => 1 .. Len(old) = {}
          OBVIOUS
        <5> QED  BY <2>3, <5>1, KeysInIs
      <4> QED  BY <1>0, <2>1, <2>3, <2>5, <3>2, <4>1
    <3>5. ToSet(new) \subseteq {s[j] : j \in 1 .. m + 1}
      BY <2>3, <2>4, <3>1
    <3>6. m + 1 <= LeafMax => KeysIn(new) = {s[j].key : j \in 1 .. m + 1}
      BY <2>3, <2>4, <3>1, <3>3
    <3>7. ASSUME m + 1 <= LeafMax, Ascending(s)
          PROVE  ToSet(new) = {s[j] : j \in 1 .. m + 1}
      <4>1. PICK j \in 1 .. m : s[j].key = e.key
        BY <2>3, <3>3, <3>7
      <4>2. j \in DOMAIN s /\ m + 1 \in DOMAIN s /\ j < m + 1
        BY <1>0, <2>1
      <4>3. s[j].key < s[m + 1].key
        BY <3>7, <4>2 DEF Ascending
      <4> QED  BY <2>2, <4>1, <4>3 DEF e
    <3> QED  BY <2>3, <3>1, <3>4, <3>5, <3>6, <3>7 DEF Fine, new
  <2> QED  BY <2>6, <2>7
<1>3. 0 \in good /\ good \in SUBSET (0 .. Len(s))
  BY <1>0, <1>1
<1>4. \A m \in 0 .. Len(s) - 1 : m \in good => m + 1 \in good
  <2> SUFFICES ASSUME NEW m \in 0 .. Len(s) - 1, m \in good
               PROVE  m + 1 \in good
    OBVIOUS
  <2>1. m + 1 \in 0 .. Len(s)
    BY <1>0
  <2> QED  BY <1>2, <2>1
<1> HIDE DEF good
<1>5. good = 0 .. Len(s)
  BY <1>0, <1>3, <1>4, Induction
<1> QED  BY <1>5 DEF good

\* A page that is filled: no key is lost if there is room for all entries, and
\* none twice.
LEMMA FilledKeeps ==
  ASSUME NEW T, HaveKeys(T), NEW s \in Seq(T)
  PROVE  /\ Filled(s) \in Seq(T) /\ Ascending(Filled(s))
         /\ Len(Filled(s)) <= LeafMax
         /\ Len(s) >= 1 => Len(Filled(s)) >= 1
         /\ ToSet(Filled(s)) \subseteq ToSet(s)
         /\ Len(s) <= LeafMax => KeysIn(Filled(s)) = KeysIn(s)
         /\ Len(s) <= LeafMax /\ Ascending(s) => ToSet(Filled(s)) = ToSet(s)
<1>1. PICK page : IsFilling(page, s) /\ Filled(s) = page[Len(s)]
  BY FilledSteps
<1>2. Len(s) \in 0 .. Len(s)
  BY Elements
<1>3. Fine(T, page, s, Len(s))
  BY <1>1, <1>2, FillingIsFine
<1>4. ToSet(s) = {s[j] : j \in 1 .. Len(s)} /\ KeysIn(s) = {s[j].key : j \in 1 .. Len(s)}
  BY Elements, KeysInIs
<1> QED  BY <1>1, <1>3, <1>4 DEF Fine

-----------------------------------------------------------------------------
(***************************************************************************)
(* Merge and split.                                                        *)
(***************************************************************************)
LEMMA MergedIs ==
  ASSUME NEW T, HaveKeys(T), NEW t \in Seq(T), Ascending(t), NEW e \in T
  PROVE  /\ Merged(t, e) \in Seq(T) /\ Len(Merged(t, e)) = Len(t) + 1
         /\ ToSet(Merged(t, e)) = ToSet(t) \cup {e}
         /\ e.key \notin KeysIn(t) => Ascending(Merged(t, e))
<1> DEFINE i == MergePlace(t, e.key)
<1>1. /\ Len(t) \in Nat /\ DOMAIN t = 1 .. Len(t) /\ e.key \in Int
      /\ \A n \in 1 .. Len(t) : t[n].key \in Int
  BY Elements, ElementOfSeq DEF HaveKeys
<1>2. /\ i \in 1 .. Len(t) + 1
      /\ \A j \in 1 .. i - 1 : j \in 1 .. Len(t) /\ ~ (e.key < t[j].key)
      /\ i \in 1 .. Len(t) => e.key < t[i].key
  BY PlaceOfMerge
<1>3. Merged(t, e) = InsertAt(t, i, e)
  BY DEF Merged
<1> HIDE DEF i
<1>4. /\ InsertAt(t, i, e) \in Seq(T) /\ Len(InsertAt(t, i, e)) = Len(t) + 1
      /\ ToSet(InsertAt(t, i, e)) = ToSet(t) \cup {e}
  BY <1>2, InsertAtElements, InsertAtToSet
<1>5. ASSUME e.key \notin KeysIn(t)  PROVE Ascending(InsertAt(t, i, e))
  <2>1. \A n \in 1 .. Len(t) : t[n].key # e.key
    BY <1>5, KeysInIs
  <2>2. \A j \in 1 .. Len(t) : j < i => t[j].key < e.key
    BY <1>1, <1>2, <2>1
  <2>3. ASSUME NEW j \in 1 .. Len(t), j >= i  PROVE e.key < t[j].key
    <3>1. i \in 1 .. Len(t)
      BY <1>1, <1>2, <2>3
    <3>2. i < j => t[i].key < t[j].key
      BY <1>1, <3>1 DEF Ascending
    <3> QED  BY <1>1, <1>2, <2>3, <3>1, <3>2
  <2> QED  BY <1>2, <2>2, <2>3, InsertAscends
<1> QED  BY <1>3, <1>4, <1>5

\* A part of a sequence.
LEMMA PartOf ==
  ASSUME NEW T, NEW s \in Seq(T), NEW a \in 1 .. Len(s), NEW b \in a .. Len(s)
  PROVE  /\ SubSeq(s, a, b) \in Seq(T) /\ Len(SubSeq(s, a, b)) = b - a + 1
         /\ \A n \in 1 .. b - a + 1 : SubSeq(s, a, b)[n] = s[a + n - 1]
         /\ ToSet(SubSeq(s, a, b)) = {s[n] : n \in a .. b}
         /\ Ascending(s) => Ascending(SubSeq(s, a, b))
<1> DEFINE part == SubSeq(s, a, b)
<1>1. Len(s) \in Nat /\ DOMAIN s = 1 .. Len(s) /\ \A n \in 1 .. Len(s) : s[n] \in T
  BY Elements, ElementOfSeq
<1>2. a \in Int /\ b \in Int /\ a <= b /\ \A n \in a .. b : s[n] \in T
  BY <1>1
<1>3. /\ part \in Seq(T) /\ Len(part) = b - a + 1
      /\ \A n \in 1 .. b - a + 1 : part[n] = s[a + n - 1]
  BY <1>2, SubSeqProperties
<1> HIDE DEF part
<1>4. DOMAIN part = 1 .. b - a + 1 /\ ToSet(part) = {part[n] : n \in 1 .. b - a + 1}
  BY <1>3, Elements
<1>5. ToSet(part) = {s[n] : n \in a .. b}
  <2>1. ASSUME NEW n \in 1 .. b - a + 1  PROVE part[n] \in {s[m] : m \in a .. b}
    <3>1. a + n - 1 \in a .. b
      BY <1>2
    <3> QED  BY <1>3, <3>1
  <2>2. ASSUME NEW n \in a .. b  PROVE s[n] \in ToSet(part)
    <3>1. n - a + 1 \in 1 .. b - a + 1 /\ a + (n - a + 1) - 1 = n
      BY <1>2
    <3>2. part[n - a + 1] = s[n]
      BY <1>3, <3>1
    <3> QED  BY <1>4, <3>1, <3>2
  <2>3. ToSet(part) \subseteq {s[m] : m \in a .. b}
    BY <1>4, <2>1
  <2>4. {s[m] : m \in a .. b} \subseteq ToSet(part)
    BY <2>2
  <2> QED  BY <2>3, <2>4
<1>6. ASSUME Ascending(s), NEW m \in 1 .. b - a + 1, NEW n \in 1 .. b - a + 1, m < n
      PROVE  part[m].key < part[n].key
  <2>1. a + m - 1 \in DOMAIN s /\ a + n - 1 \in DOMAIN s /\ a + m - 1 < a + n - 1
    BY <1>1, <1>2, <1>6
  <2>2. s[a + m - 1].key < s[a + n - 1].key
    BY <1>6, <2>1 DEF Ascending
  <2> QED  BY <1>3, <2>2
<1>7. Ascending(s) => Ascending(part)
  BY <1>4, <1>6 DEF Ascending
<1> QED  BY <1>3, <1>5, <1>7 DEF part

LEMMA TwoParts ==
  ASSUME NEW s, NEW c \in Nat, NEW n \in Nat, c <= n
  PROVE  /\ {s[j] : j \in 1 .. n} = {s[j] : j \in 1 .. c} \cup {s[j] : j \in c + 1 .. n}
         /\ {s[j].key : j \in 1 .. n}
              = {s[j].key : j \in 1 .. c} \cup {s[j].key : j \in c + 1 .. n}
<1>1. 1 .. n = (1 .. c) \cup (c + 1 .. n)
  OBVIOUS
<1> QED  BY <1>1

\* A half: a non-empty part of the merged entries, filled into a page.
LEMMA HalfIs ==
  ASSUME NEW T, HaveKeys(T), NEW s \in Seq(T),
         NEW a \in 1 .. Len(s), NEW b \in a .. Len(s), b - a + 1 <= LeafMax,
         NEW half, half = Filled(SubSeq(s, a, b))
  PROVE  /\ half \in Seq(T) /\ Ascending(half) /\ Len(half) \in 1 .. LeafMax
         /\ ToSet(half) \subseteq ToSet(s)
         /\ KeysIn(half) = {s[n].key : n \in a .. b}
         /\ Ascending(s) => ToSet(half) = {s[n] : n \in a .. b}
<1> DEFINE part == SubSeq(s, a, b)
<1>0. Len(s) \in Nat /\ a \in Int /\ b \in Int /\ a <= b /\ 1 <= a /\ b <= Len(s)
  BY Elements
<1>1. /\ part \in Seq(T) /\ Len(part) = b - a + 1
      /\ ToSet(part) = {s[n] : n \in a .. b}
      /\ Ascending(s) => Ascending(part)
  BY PartOf
<1> HIDE DEF part
<1>2. Len(part) >= 1 /\ Len(part) <= LeafMax
  BY <1>0, <1>1
<1>3. /\ half \in Seq(T) /\ Ascending(half) /\ Len(half) <= LeafMax /\ Len(half) >= 1
      /\ ToSet(half) \subseteq ToSet(part) /\ KeysIn(half) = KeysIn(part)
      /\ Ascending(part) => ToSet(half) = ToSet(part)
  <2>1. half = Filled(part)
    BY DEF part
  <2> QED  BY <1>1, <1>2, <2>1, FilledKeeps
<1>4. Len(half) \in 1 .. LeafMax
  <2>1. Len(half) \in Nat
    BY <1>3, Elements
  <2> QED  BY <1>3, <2>1, LeafMaxAssumption
<1>5. KeysIn(part) = {s[n].key : n \in a .. b}
  BY <1>1 DEF KeysIn
<1>6. {s[n] : n \in a .. b} \subseteq ToSet(s)
  <2>1. \A n \in a .. b : n \in 1 .. Len(s)
    BY <1>0
  <2>2. ToSet(s) = {s[n] : n \in 1 .. Len(s)}
    BY Elements
  <2> QED  BY <2>1, <2>2
<1> QED  BY <1>1, <1>3, <1>4, <1>5, <1>6

LEMMA FirstIsLeast ==
  ASSUME NEW T, HaveKeys(T), NEW t \in Seq(T), Ascending(t), Len(t) \in 1 .. LeafMax
  PROVE  t[1].key \in KeysIn(t) /\ \A k \in KeysIn(t) : t[1].key <= k
<1>1. Len(t) \in Nat /\ DOMAIN t = 1 .. Len(t) /\ 1 \in 1 .. Len(t)
  BY Elements
<1>2. KeysIn(t) = {t[n].key : n \in 1 .. Len(t)}
  BY KeysInIs
<1>3. \A n \in 1 .. Len(t) : t[n].key \in Int
  BY ElementOfSeq DEF HaveKeys
<1>4. \A n \in 1 .. Len(t) : 1 < n => t[1].key < t[n].key
  BY <1>1 DEF Ascending
<1>5. \A n \in 1 .. Len(t) : t[1].key <= t[n].key
  BY <1>1, <1>3, <1>4
<1> QED  BY <1>1, <1>2, <1>5

\* What is left of the entries t and the new one, e, when they are split: nothing
\* is lost but entries with the key of e, if it has been there.
Halves(T, t, e, left, right) ==
  /\ left \in Seq(T) /\ Ascending(left) /\ Len(left) \in 1 .. LeafMax
  /\ right \in Seq(T) /\ Ascending(right) /\ Len(right) \in 1 .. LeafMax
  /\ ToSet(left) \cup ToSet(right) \subseteq ToSet(t) \cup {e}
  /\ KeysIn(left) \cup KeysIn(right) = KeysIn(t) \cup {e.key}
  /\ right[1].key \in KeysIn(right)
  /\ \A k \in KeysIn(right) : right[1].key <= k
  /\ e.key \notin KeysIn(t) =>
       /\ ToSet(left) \cup ToSet(right) = ToSet(t) \cup {e}
       /\ \A k \in KeysIn(left), q \in KeysIn(right) : k < q

LEMMA HalvesAre ==
  ASSUME NEW T, HaveKeys(T), NEW t \in Seq(T), Ascending(t), Len(t) \in 1 .. LeafMax,
         NEW e \in T, NEW left, left = LeftHalf(Merged(t, e)),
         NEW right, right = RightHalf(Merged(t, e))
  PROVE  Halves(T, t, e, left, right)
<1> DEFINE m == Merged(t, e)
           c == SplitPoint(m)
           N == Len(t) + 1
<1>1. /\ m \in Seq(T) /\ Len(m) = N /\ ToSet(m) = ToSet(t) \cup {e}
      /\ e.key \notin KeysIn(t) => Ascending(m)
  BY MergedIs
<1>2. c = N \div 2
  BY <1>1 DEF SplitPoint
<1>3. left = Filled(SubSeq(m, 1, c)) /\ right = Filled(SubSeq(m, c + 1, N))
  BY <1>1 DEF LeftHalf, RightHalf
<1> HIDE DEF m, c
<1>4. /\ 1 \in 1 .. N /\ c \in 1 .. N /\ c + 1 \in 1 .. N /\ N \in c + 1 .. N
      /\ c \in Nat /\ N \in Nat
      /\ c - 1 + 1 <= LeafMax /\ N - (c + 1) + 1 <= LeafMax
  BY <1>2, LeafMaxAssumption
<1> HIDE DEF N
<1>5. /\ left \in Seq(T) /\ Ascending(left) /\ Len(left) \in 1 .. LeafMax
      /\ ToSet(left) \subseteq ToSet(m)
      /\ KeysIn(left) = {m[n].key : n \in 1 .. c}
      /\ Ascending(m) => ToSet(left) = {m[n] : n \in 1 .. c}
  BY <1>1, <1>3, <1>4, HalfIs
<1>6. /\ right \in Seq(T) /\ Ascending(right) /\ Len(right) \in 1 .. LeafMax
      /\ ToSet(right) \subseteq ToSet(m)
      /\ KeysIn(right) = {m[n].key : n \in c + 1 .. N}
      /\ Ascending(m) => ToSet(right) = {m[n] : n \in c + 1 .. N}
  BY <1>1, <1>3, <1>4, HalfIs
<1>7. /\ {m[n] : n \in 1 .. N} = {m[n] : n \in 1 .. c} \cup {m[n] : n \in c + 1 .. N}
      /\ {m[n].key : n \in 1 .. N}
           = {m[n].key : n \in 1 .. c} \cup {m[n].key : n \in c + 1 .. N}
  <2>1. c <= N
    BY <1>4
  <2> QED  BY <1>4, <2>1, TwoParts
<1>8. KeysIn(m) = KeysIn(t) \cup {e.key}
  BY <1>1 DEF KeysIn
<1>9. KeysIn(left) \cup KeysIn(right) = KeysIn(t) \cup {e.key}
  <2>1. KeysIn(m) = {m[n].key : n \in 1 .. N}
    BY <1>1, KeysInIs
  <2> QED  BY <1>5, <1>6, <1>7, <1>8, <2>1
<1>10. ASSUME Ascending(m)
       PROVE  ToSet(left) \cup ToSet(right) = ToSet(t) \cup {e}
  <2>1. ToSet(m) = {m[n] : n \in 1 .. N}
    BY <1>1, Elements
  <2> QED  BY <1>1, <1>5, <1>6, <1>7, <1>10, <2>1
<1>11. ASSUME Ascending(m), NEW k \in KeysIn(left), NEW q \in KeysIn(right)
       PROVE  k < q
  <2>1. PICK i \in 1 .. c, j \in c + 1 .. N : k = m[i].key /\ q = m[j].key
    BY <1>5, <1>6
  <2>2. i \in DOMAIN m /\ j \in DOMAIN m /\ i < j
    BY <1>1, <1>4, Elements
  <2> QED  BY <1>11, <2>1, <2>2 DEF Ascending
<1>12. right[1].key \in KeysIn(right) /\ \A k \in KeysIn(right) : right[1].key <= k
  <2>1. right \in Seq(T) /\ Ascending(right) /\ Len(right) \in 1 .. LeafMax
    BY <1>6
  <2> QED  BY <2>1, FirstIsLeast
<1> QED  BY <1>1, <1>5, <1>6, <1>9, <1>10, <1>11, <1>12 DEF Halves

-----------------------------------------------------------------------------
(***************************************************************************)
(* Internal pages and their arrays.                                        *)
(***************************************************************************)
InternalPageOf(K, C, P) ==
  [is_leaf : {FALSE}, keys : Seq(K), children : Seq(C), parent : P]

\* insertAfter, index by index: one key more, and one child behind it.
LEMMA InsertAfterIs ==
  ASSUME NEW K, NEW C, NEW P, NEW page \in InternalPageOf(K, C, P),
         Len(page.children) = Len(page.keys) + 1, NEW k \in K, NEW child \in C,
         NEW i, i = SeparatorPlace(page.keys, k),
         NEW new, new = InsertAfter(page, k, child)
  PROVE  /\ new \in InternalPageOf(K, C, P) /\ new.parent = page.parent
         /\ ~ new.is_leaf
         /\ i \in 1 .. Len(page.keys) + 1 /\ Len(page.keys) \in Nat
         /\ new.keys = InsertAt(page.keys, i, k)
         /\ new.children = InsertAt(page.children, i + 1, child)
         /\ Len(new.keys) = Len(page.keys) + 1
         /\ Len(new.children) = Len(page.children) + 1
<1>1. /\ page.keys \in Seq(K) /\ page.children \in Seq(C) /\ page.parent \in P
      /\ page.is_leaf = FALSE
      /\ page = [is_leaf |-> FALSE, keys |-> page.keys, children |-> page.children,
                 parent |-> page.parent]
  BY DEF InternalPageOf
<1>2. Len(page.keys) \in Nat
  BY <1>1, Elements
<1>3. i \in 1 .. Len(page.keys) + 1
  BY <1>1, PlaceOfSeparator
<1>4. i \in 1 .. Len(page.keys) + 1 /\ i + 1 \in 1 .. Len(page.children) + 1
  BY <1>2, <1>3
<1>5. /\ InsertAt(page.keys, i, k) \in Seq(K)
      /\ Len(InsertAt(page.keys, i, k)) = Len(page.keys) + 1
  BY <1>1, <1>4, InsertAtElements
<1>6. /\ InsertAt(page.children, i + 1, child) \in Seq(C)
      /\ Len(InsertAt(page.children, i + 1, child)) = Len(page.children) + 1
  BY <1>1, <1>4, InsertAtElements
<1>7. new = [page EXCEPT !.keys = InsertAt(page.keys, i, k),
                         !.children = InsertAt(page.children, i + 1, child)]
  BY DEF InsertAfter
<1>8. new = [is_leaf |-> FALSE, keys |-> InsertAt(page.keys, i, k),
             children |-> InsertAt(page.children, i + 1, child),
             parent |-> page.parent]
  BY <1>1, <1>7
<1> QED  BY <1>1, <1>2, <1>3, <1>5, <1>6, <1>8 DEF InternalPageOf

Increasing(s) == \A i, j \in 1 .. Len(s) : i < j => s[i] < s[j]

LEMMA NumbersOf ==
  ASSUME NEW K \in SUBSET Nat, NEW s \in Seq(K)
  PROVE  (\A n \in 1 .. Len(s) : s[n] \in Int) /\ \A k \in K : k \in Int
<1>1. \A n \in 1 .. Len(s) : s[n] \in K
  BY ElementOfSeq
<1>2. \A k \in K : k \in Int
  OBVIOUS
<1> QED  BY <1>1, <1>2

\* The numbers a leaf at place i of a page with these separators may have.
Fits(keys, i, k) ==
  /\ i > 1 => keys[i - 1] <= k
  /\ i <= Len(keys) => k < keys[i]

\* A number fits in one place, the one lookup finds.
LEMMA PlaceFits ==
  ASSUME NEW K \in SUBSET Nat, NEW keys \in Seq(K), Increasing(keys), NEW k \in K,
         NEW i, i = ChildPlace(keys, k), NEW j \in 1 .. Len(keys) + 1
  PROVE  i \in 1 .. Len(keys) + 1 /\ (Fits(keys, j, k) <=> j = i)
<1>1. /\ i \in 1 .. Len(keys) + 1 /\ Len(keys) \in Nat
      /\ \A n \in 1 .. i - 1 : n \in 1 .. Len(keys) /\ ~ (k < keys[n])
      /\ i \in 1 .. Len(keys) => k < keys[i]
  BY PlaceOfChild
<1>2. /\ \A n \in 1 .. Len(keys) : keys[n] \in Int
      /\ \A n \in K : n \in Int
  BY NumbersOf
<1>3. Fits(keys, i, k)
  <2>1. ASSUME i > 1  PROVE keys[i - 1] <= k
    <3>1. i - 1 \in 1 .. i - 1
      BY <1>1, <2>1
    <3>2. i - 1 \in 1 .. Len(keys) /\ ~ (k < keys[i - 1])
      BY <1>1, <3>1
    <3> QED  BY <1>2, <3>2
  <2>2. ASSUME i <= Len(keys)  PROVE k < keys[i]
    BY <1>1, <2>2
  <2> QED  BY <2>1, <2>2 DEF Fits
<1>4. ASSUME Fits(keys, j, k), j < i  PROVE FALSE
  <2>1. j \in 1 .. i - 1 /\ j <= Len(keys)
    BY <1>1, <1>4
  <2>2. ~ (k < keys[j])
    BY <1>1, <2>1
  <2> QED  BY <1>4, <2>1, <2>2 DEF Fits
<1>5. ASSUME Fits(keys, j, k), j > i  PROVE FALSE
  <2>1. /\ j > 1 /\ i \in 1 .. Len(keys) /\ j - 1 \in 1 .. Len(keys) /\ i <= j - 1
    BY <1>1, <1>5
  <2>2. keys[j - 1] <= k /\ k < keys[i]
    BY <1>1, <1>5, <2>1 DEF Fits
  <2>3. i = j - 1 \/ keys[i] < keys[j - 1]
    BY <2>1 DEF Increasing
  <2> QED  BY <1>2, <2>1, <2>2, <2>3
<1>6. i \in Int /\ j \in Int
  BY <1>1
<1> QED  BY <1>1, <1>3, <1>4, <1>5, <1>6

\* The place of a separator between two others is the place of the leaf that was
\* split, so that its child goes behind that leaf.
LEMMA SeparatorFits ==
  ASSUME NEW K \in SUBSET Nat, NEW keys \in Seq(K), Increasing(keys), NEW m \in K,
         NEW j \in 1 .. Len(keys) + 1, j > 1 => keys[j - 1] < m,
         j <= Len(keys) => m < keys[j],
         NEW i, i = SeparatorPlace(keys, m)
  PROVE  i = j
<1>1. /\ i \in 1 .. Len(keys) + 1 /\ Len(keys) \in Nat
      /\ \A n \in 1 .. i - 1 : n \in 1 .. Len(keys) /\ keys[n] < m
      /\ i \in 1 .. Len(keys) => ~ (keys[i] < m)
  BY PlaceOfSeparator
<1>2. /\ \A n \in 1 .. Len(keys) : keys[n] \in Int
      /\ \A n \in K : n \in Int
  BY NumbersOf
<1>3. ASSUME j < i  PROVE FALSE
  <2>1. j \in 1 .. i - 1 /\ j \in 1 .. Len(keys) /\ j <= Len(keys)
    BY <1>1, <1>3
  <2>2. keys[j] < m /\ m < keys[j]
    BY <1>1, <2>1
  <2> QED  BY <1>2, <2>1, <2>2
<1>4. ASSUME j > i  PROVE FALSE
  <2>1. j > 1 /\ i \in 1 .. Len(keys) /\ j - 1 \in 1 .. Len(keys) /\ i <= j - 1
    BY <1>1, <1>4
  <2>2. ~ (keys[i] < m) /\ keys[j - 1] < m
    BY <1>1, <2>1
  <2>3. i = j - 1 \/ keys[i] < keys[j - 1]
    BY <2>1 DEF Increasing
  <2> QED  BY <1>2, <2>1, <2>2, <2>3
<1>5. i \in Int /\ j \in Int
  BY <1>1
<1> QED  BY <1>3, <1>4, <1>5

\* A separator in its place keeps them ascending, and what fitted before fits one
\* place on if it is behind the new one.
LEMMA SeparatorAdded ==
  ASSUME NEW K \in SUBSET Nat, NEW keys \in Seq(K), Increasing(keys), NEW m \in K,
         NEW j \in 1 .. Len(keys) + 1, j > 1 => keys[j - 1] < m,
         j <= Len(keys) => m < keys[j],
         NEW new, new = InsertAt(keys, j, m)
  PROVE  /\ new \in Seq(K) /\ Len(new) = Len(keys) + 1 /\ Increasing(new)
         /\ \A i \in 1 .. j - 1 : \A k \in K : Fits(keys, i, k) => Fits(new, i, k)
         /\ \A k \in K : Fits(keys, j, k) /\ k < m => Fits(new, j, k)
         /\ \A k \in K : Fits(keys, j, k) /\ m <= k => Fits(new, j + 1, k)
         /\ \A i \in j + 1 .. Len(keys) + 1 : \A k \in K :
               Fits(keys, i, k) => Fits(new, i + 1, k)
<1> DEFINE N == Len(keys)
<1>0. /\ new \in Seq(K) /\ Len(new) = N + 1 /\ new[j] = m
      /\ \A n \in 1 .. N + 1 : /\ n < j => new[n] = keys[n]
                               /\ n > j => new[n] = keys[n - 1]
  <2> DEFINE in == InsertAt(keys, j, m)
  <2>1. in \in Seq(K) /\ Len(in) = N + 1 /\ in[j] = m
    BY InsertAtElements
  <2>2. \A n \in 1 .. N + 1 : n < j => in[n] = keys[n]
    BY InsertAtElement
  <2>3. \A n \in 1 .. N + 1 : n > j => in[n] = keys[n - 1]
    BY InsertAtElement
  <2> QED  BY <2>1, <2>2, <2>3
<1>1. /\ new \in Seq(K) /\ Len(new) = N + 1
      /\ \A n \in 1 .. j - 1 : new[n] = keys[n]
      /\ new[j] = m
      /\ \A n \in j + 1 .. N + 1 : new[n] = keys[n - 1]
  BY <1>0
<1>2. /\ \A n \in 1 .. N : keys[n] \in Int
      /\ N \in Nat /\ j \in Int /\ 1 <= j /\ j <= N + 1
      /\ \A n \in K : n \in Int
  BY NumbersOf, Elements
<1>3. \A a, b \in 1 .. N : a < b => keys[a] < keys[b]
  BY DEF Increasing
<1>4. \A n \in 1 .. j - 1 : n \in 1 .. N /\ keys[n] < m
  <2> SUFFICES ASSUME NEW n \in 1 .. j - 1  PROVE n \in 1 .. N /\ keys[n] < m
    OBVIOUS
  <2>1. n \in 1 .. N /\ j - 1 \in 1 .. N /\ n <= j - 1 /\ j > 1
    BY <1>2
  <2>2. n = j - 1 \/ keys[n] < keys[j - 1]
    BY <1>3, <2>1
  <2> QED  BY <1>2, <2>1, <2>2
<1>5. \A n \in j .. N : n \in 1 .. N /\ m < keys[n]
  <2> SUFFICES ASSUME NEW n \in j .. N  PROVE n \in 1 .. N /\ m < keys[n]
    OBVIOUS
  <2>1. n \in 1 .. N /\ j \in 1 .. N /\ j <= n /\ j <= N
    BY <1>2
  <2>2. n = j \/ keys[j] < keys[n]
    BY <1>3, <2>1
  <2> QED  BY <1>2, <2>1, <2>2
<1>6. ASSUME NEW a \in 1 .. N + 1, NEW b \in 1 .. N + 1, a < b
      PROVE  new[a] < new[b]
  <2>1. CASE b < j
    <3>1. a \in 1 .. j - 1 /\ b \in 1 .. j - 1
      BY <1>2, <1>6, <2>1
    <3> QED  BY <1>1, <1>3, <1>4, <1>6, <3>1
  <2>2. CASE b = j
    <3>1. a \in 1 .. j - 1
      BY <1>2, <1>6, <2>2
    <3> QED  BY <1>1, <1>4, <2>2, <3>1
  <2>3. CASE b > j
    <3>1. b \in j + 1 .. N + 1 /\ b - 1 \in j .. N
      BY <1>2, <2>3
    <3>2. new[b] = keys[b - 1] /\ m < keys[b - 1] /\ b - 1 \in 1 .. N
      BY <1>1, <1>5, <3>1
    <3>3. CASE a < j
      <4>1. a \in 1 .. j - 1
        BY <1>2, <3>3
      <4>2. new[a] = keys[a] /\ keys[a] < m /\ a \in 1 .. N
        BY <1>1, <1>4, <4>1
      <4> QED  BY <1>2, <3>2, <4>2
    <3>4. CASE a = j
      BY <1>1, <3>2, <3>4
    <3>5. CASE a > j
      <4>1. a \in j + 1 .. N + 1 /\ a - 1 \in j .. N /\ a - 1 < b - 1
        BY <1>2, <1>6, <3>5
      <4>2. new[a] = keys[a - 1] /\ a - 1 \in 1 .. N
        BY <1>1, <1>5, <4>1
      <4> QED  BY <1>3, <3>2, <4>1, <4>2
    <3> QED  BY <1>2, <3>3, <3>4, <3>5
  <2> QED  BY <1>2, <2>1, <2>2, <2>3
<1>7. ASSUME NEW i \in 1 .. j - 1, NEW k \in K, Fits(keys, i, k)
      PROVE  Fits(new, i, k)
  <2>1. /\ i \in Int /\ i <= N /\ i <= N + 1 /\ new[i] = keys[i]
    BY <1>1, <1>2, <1>4
  <2>2. i > 1 => i - 1 \in 1 .. j - 1 /\ new[i - 1] = keys[i - 1]
    BY <1>1, <1>2
  <2> QED  BY <1>1, <1>7, <2>1, <2>2 DEF Fits
<1>8. ASSUME NEW k \in K, Fits(keys, j, k), k < m
      PROVE  Fits(new, j, k)
  <2>1. j > 1 => j - 1 \in 1 .. j - 1 /\ new[j - 1] = keys[j - 1]
    BY <1>1, <1>2
  <2> QED  BY <1>1, <1>8, <2>1 DEF Fits
<1>9. ASSUME NEW k \in K, Fits(keys, j, k), m <= k
      PROVE  Fits(new, j + 1, k)
  <2>1. j + 1 - 1 = j
    BY <1>2
  <2>2. ASSUME j + 1 <= N + 1  PROVE k < new[j + 1]
    <3>1. j <= N /\ j + 1 \in j + 1 .. N + 1
      BY <1>2, <2>2
    <3>2. new[j + 1] = keys[j]
      BY <1>1, <2>1, <3>1
    <3> QED  BY <1>9, <3>1, <3>2 DEF Fits
  <2> QED  BY <1>1, <1>9, <2>1, <2>2 DEF Fits
<1>10. ASSUME NEW i \in j + 1 .. N + 1, NEW k \in K, Fits(keys, i, k)
       PROVE  Fits(new, i + 1, k)
  <2>1. /\ i + 1 - 1 = i /\ i > 1 /\ new[i] = keys[i - 1]
    BY <1>1, <1>2
  <2>2. ASSUME i + 1 <= N + 1  PROVE k < new[i + 1]
    <3>1. i <= N /\ i + 1 \in j + 1 .. N + 1
      BY <1>2, <2>2
    <3>2. new[i + 1] = keys[i]
      BY <1>1, <2>1, <3>1
    <3> QED  BY <1>10, <3>1, <3>2 DEF Fits
  <2> QED  BY <1>1, <1>10, <2>1, <2>2 DEF Fits
<1>11. Increasing(new)
  BY <1>1, <1>6 DEF Increasing
<1> QED  BY <1>1, <1>7, <1>8, <1>9, <1>10, <1>11

\* A child behind the i-th one.
LEMMA ChildAdded ==
  ASSUME NEW T, NEW c \in Seq(T), NEW id \in T, NEW i \in 1 .. Len(c),
         NEW new, new = InsertAt(c, i + 1, id)
  PROVE  /\ Len(new) = Len(c) + 1 /\ ToSet(new) = ToSet(c) \cup {id}
         /\ new[i + 1] = id /\ \A n \in 1 .. i : new[n] = c[n]
         /\ \A n \in i + 2 .. Len(c) + 1 : new[n] = c[n - 1]
<1> DEFINE in == InsertAt(c, i + 1, id)
<1>1. i + 1 \in 1 .. Len(c) + 1 /\ Len(c) \in Nat
  BY Elements
<1>2. Len(in) = Len(c) + 1 /\ in[i + 1] = id
  BY <1>1, InsertAtElements
<1>3. ToSet(in) = ToSet(c) \cup {id}
  BY <1>1, InsertAtToSet
<1>4. \A n \in 1 .. Len(c) + 1 : n < i + 1 => in[n] = c[n]
  BY <1>1, InsertAtElement
<1>5. \A n \in 1 .. Len(c) + 1 : n > i + 1 => in[n] = c[n - 1]
  BY <1>1, InsertAtElement
<1> HIDE DEF in
<1>6. in = new
  BY DEF in
<1>7. \A n \in 1 .. i : n \in 1 .. Len(c) + 1 /\ n < i + 1
  BY <1>1
<1>8. \A n \in i + 2 .. Len(c) + 1 : n \in 1 .. Len(c) + 1 /\ n > i + 1
  BY <1>1
<1> QED  BY <1>2, <1>3, <1>4, <1>5, <1>6, <1>7, <1>8

\* Where descents end, after the child of a separator was split: below the new
\* separator at the child they ended at, from it on at the new one.
LEMMA SeparatorSends ==
  ASSUME NEW K \in SUBSET Nat, NEW C, NEW P, NEW page \in InternalPageOf(K, C, P),
         Len(page.children) = Len(page.keys) + 1, Increasing(page.keys),
         IsInjective(page.children),
         NEW m \in K, NEW l \in K, l < m,
         InternalLookup(page, l) = InternalLookup(page, m),
         NEW child \in C, child \notin ToSet(page.children),
         NEW new, new = InsertAfter(page, m, child)
  PROVE  /\ Increasing(new.keys) /\ IsInjective(new.children)
         /\ ToSet(new.children) = ToSet(page.children) \cup {child}
         /\ \A k \in K :
              InternalLookup(new, k) =
                IF InternalLookup(page, k) = InternalLookup(page, m) /\ m <= k
                THEN child ELSE InternalLookup(page, k)
<1> DEFINE keys == page.keys
           c    == page.children
           N    == Len(keys)
           i    == ChildPlace(keys, m)
<1>1. /\ keys \in Seq(K) /\ c \in Seq(C) /\ Len(c) = N + 1 /\ N \in Nat
      /\ DOMAIN c = 1 .. N + 1
  BY Elements DEF InternalPageOf
<1>2. \A a, b \in 1 .. N + 1 : c[a] = c[b] => a = b
  BY <1>1 DEF IsInjective
<1>3. \A k \in K : ChildPlace(keys, k) \in 1 .. N + 1
  BY <1>1, PlaceOfChild
<1>4. \A k \in K : InternalLookup(page, k) = c[ChildPlace(keys, k)]
  BY DEF InternalLookup
<1>5. ChildPlace(keys, l) = i /\ i \in 1 .. N + 1
  BY <1>2, <1>3, <1>4
<1>6. Fits(keys, i, m) /\ Fits(keys, i, l)
  BY <1>1, <1>5, PlaceFits
<1>7. (\A n \in 1 .. N : keys[n] \in Int) /\ \A k \in K : k \in Int
  BY <1>1, NumbersOf
<1>8. (i > 1 => keys[i - 1] < m) /\ (i <= N => m < keys[i])
  <2>1. i > 1 => i - 1 \in 1 .. N /\ keys[i - 1] <= l
    BY <1>1, <1>5, <1>6 DEF Fits
  <2> QED  BY <1>6, <1>7, <2>1 DEF Fits
<1>9. i = SeparatorPlace(keys, m)
  BY <1>1, <1>5, <1>8, SeparatorFits
<1> DEFINE newk == InsertAt(keys, i, m)
           newc == InsertAt(c, i + 1, child)
<1>10. /\ new.keys = newk /\ new.children = newc
       /\ new \in InternalPageOf(K, C, P)
       /\ Len(new.keys) = N + 1 /\ Len(new.children) = N + 2
  <2>1. i = SeparatorPlace(page.keys, m)
    BY <1>9
  <2> HIDE DEF i
  <2>2. new \in InternalPageOf(K, C, P)
    BY InsertAfterIs
  <2>3. new.keys = InsertAt(page.keys, i, m)
    BY <2>1, InsertAfterIs
  <2>4. new.children = InsertAt(page.children, i + 1, child)
    BY <2>1, InsertAfterIs
  <2>5. Len(new.keys) = Len(page.keys) + 1 /\ Len(new.children) = Len(page.children) + 1
    <3>1. i + 1 \in 1 .. Len(c) + 1
      BY <1>1, <1>5
    <3> QED  BY <1>1, <1>5, <2>3, <2>4, <3>1, InsertAtElements
  <2> QED  BY <1>1, <2>2, <2>3, <2>4, <2>5
<1>11. newk = InsertAt(keys, i, m) /\ newc = InsertAt(c, i + 1, child)
  OBVIOUS
<1>12. c = page.children /\ keys = page.keys
  OBVIOUS
<1> HIDE DEF newk, newc, keys, c, N, i
<1>13. N = Len(keys)
  BY DEF N
<1>14. /\ newk \in Seq(K) /\ Len(newk) = N + 1 /\ Increasing(newk)
       /\ \A j \in 1 .. i - 1 : \A k \in K : Fits(keys, j, k) => Fits(newk, j, k)
       /\ \A k \in K : Fits(keys, i, k) /\ k < m => Fits(newk, i, k)
       /\ \A k \in K : Fits(keys, i, k) /\ m <= k => Fits(newk, i + 1, k)
       /\ \A j \in i + 1 .. N + 1 : \A k \in K :
             Fits(keys, j, k) => Fits(newk, j + 1, k)
  <2>1. /\ keys \in Seq(K) /\ Increasing(keys) /\ i \in 1 .. Len(keys) + 1
        /\ (i > 1 => keys[i - 1] < m) /\ (i <= Len(keys) => m < keys[i])
    BY <1>1, <1>5, <1>8, <1>12, <1>13
  <2> QED  BY <1>11, <1>13, <2>1, SeparatorAdded
<1>15. /\ Len(newc) = N + 2 /\ ToSet(newc) = ToSet(c) \cup {child}
       /\ newc[i + 1] = child /\ \A n \in 1 .. i : newc[n] = c[n]
       /\ \A n \in i + 2 .. N + 2 : newc[n] = c[n - 1]
  <2>1. /\ c \in Seq(C) /\ i \in 1 .. Len(c) /\ Len(c) + 1 = N + 2
    BY <1>1, <1>5
  <2> QED  BY <1>11, <2>1, ChildAdded
<1>16. newc \in Seq(C) /\ DOMAIN newc = 1 .. N + 2
  <2>1. newc \in Seq(C)
    BY <1>10 DEF InternalPageOf
  <2> QED  BY <1>15, <2>1, Elements
<1>17. /\ i \in Int /\ 1 <= i /\ i <= N + 1 /\ N \in Nat
  BY <1>1, <1>5
<1>18. \A n \in 1 .. N + 1 : c[n] # child
  <2>1. ToSet(c) = {c[n] : n \in 1 .. N + 1}
    BY <1>1, Elements
  <2> QED  BY <1>12, <2>1
<1>19. IsInjective(newc)
  <2> SUFFICES ASSUME NEW a \in 1 .. N + 2, NEW b \in 1 .. N + 2, newc[a] = newc[b]
               PROVE  a = b
    BY <1>16 DEF IsInjective
  <2> DEFINE Old(n) == IF n <= i THEN n ELSE n - 1
  <2>1. \A n \in 1 .. N + 2 : n # i + 1 => /\ Old(n) \in 1 .. N + 1 /\ newc[n] = c[Old(n)]
    <3> SUFFICES ASSUME NEW n \in 1 .. N + 2, n # i + 1
                 PROVE  Old(n) \in 1 .. N + 1 /\ newc[n] = c[Old(n)]
      OBVIOUS
    <3>1. CASE n <= i
      BY <1>15, <1>17, <3>1
    <3>2. CASE n > i
      <4>1. n \in i + 2 .. N + 2 /\ Old(n) = n - 1 /\ n - 1 \in 1 .. N + 1
        BY <1>17, <3>2
      <4> QED  BY <1>15, <4>1
    <3> QED  BY <1>17, <3>1, <3>2
  <2>2. CASE a = i + 1
    BY <1>15, <1>18, <2>1, <2>2
  <2>3. CASE b = i + 1
    BY <1>15, <1>18, <2>1, <2>3
  <2>4. CASE a # i + 1 /\ b # i + 1
    <3>1. Old(a) = Old(b)
      BY <1>2, <2>1, <2>4
    <3> QED  BY <1>17, <2>4, <3>1
  <2> QED  BY <2>2, <2>3, <2>4
<1>20. ASSUME NEW k \in K
       PROVE  InternalLookup(new, k) =
                IF InternalLookup(page, k) = InternalLookup(page, m) /\ m <= k
                THEN child ELSE InternalLookup(page, k)
  <2> DEFINE j == ChildPlace(keys, k)
             q == ChildPlace(newk, k)
  <2>1. j \in 1 .. N + 1 /\ Fits(keys, j, k)
    BY <1>1, <1>3, <1>12, <1>13, PlaceFits
  <2>2. /\ InternalLookup(page, k) = c[j] /\ InternalLookup(page, m) = c[i]
        /\ InternalLookup(new, k) = newc[q]
    BY <1>4, <1>10 DEF InternalLookup, i
  <2>3. \A n \in 1 .. N + 2 : Fits(newk, n, k) => n = q
    <3>1. \A n \in 1 .. Len(newk) + 1 : Fits(newk, n, k) => n = q
      BY <1>14, PlaceFits
    <3>2. Len(newk) + 1 = N + 2
      BY <1>14, <1>17
    <3> QED  BY <3>1, <3>2
  <2> HIDE DEF j, q
  <2>4. j \in Int /\ 1 <= j /\ j <= N + 1
    BY <1>17, <2>1
  <2>5. k \in Int /\ m \in Int
    BY <1>7
  <2>6. c[j] = c[i] => j = i
    BY <1>2, <1>5, <2>1
  <2>7. CASE j < i
    <3>1. j \in 1 .. i - 1 /\ j \in 1 .. i /\ j \in 1 .. N + 2
      BY <1>17, <2>4, <2>7
    <3>2. q = j
      BY <1>14, <2>1, <2>3, <3>1
    <3> QED  BY <1>15, <2>2, <2>4, <2>6, <2>7, <3>1, <3>2
  <2>8. CASE j = i /\ k < m
    <3>1. i \in 1 .. i /\ i \in 1 .. N + 2 /\ ~ (m <= k)
      BY <1>17, <2>5, <2>8
    <3>2. q = i
      BY <1>14, <2>1, <2>3, <2>8, <3>1
    <3> QED  BY <1>15, <2>2, <2>8, <3>1, <3>2
  <2>9. CASE j = i /\ m <= k
    <3>1. i + 1 \in 1 .. N + 2
      BY <1>17
    <3>2. q = i + 1
      BY <1>14, <2>1, <2>3, <2>9, <3>1
    <3> QED  BY <1>15, <2>2, <2>9, <3>2
  <2>10. CASE j > i
    <3>1. j \in i + 1 .. N + 1 /\ j + 1 \in 1 .. N + 2 /\ j + 1 \in i + 2 .. N + 2
          /\ j + 1 - 1 = j
      BY <1>17, <2>4, <2>10
    <3>2. q = j + 1
      BY <1>14, <2>1, <2>3, <3>1
    <3>3. newc[q] = c[j]
      BY <1>15, <3>1, <3>2
    <3> QED  BY <2>2, <2>4, <2>6, <2>10, <3>3, <1>17
  <2> QED  BY <1>17, <2>4, <2>5, <2>7, <2>8, <2>9, <2>10
<1> QED  BY <1>10, <1>12, <1>14, <1>15, <1>19, <1>20

\* One cell after std::memmove.
LEMMA MemmoveCell ==
  ASSUME NEW cells, NEW dest \in Int, NEW src \in Int, NEW count \in Int,
         NEW c \in DOMAIN cells, c \in Int
  PROVE  /\ c \in DOMAIN Memmove(cells, dest, src, count)
         /\ dest <= c /\ c < dest + count
              => Memmove(cells, dest, src, count)[c] = cells[c - dest + src]
         /\ ~ (dest <= c /\ c < dest + count)
              => Memmove(cells, dest, src, count)[c] = cells[c]
<1>1. c \in dest .. dest + count - 1 <=> dest <= c /\ c < dest + count
  OBVIOUS
<1> QED  BY <1>1 DEF Memmove

\* insertAfter on the arrays is insertAfter on the page.
LEMMA ArraysInsertAfter ==
  ASSUME NEW K, NEW C, NEW P, NEW page \in InternalPageOf(K, C, P),
         Len(page.children) = Len(page.keys) + 1, HasRoom(page),
         NEW k \in K, NEW child \in C
  PROVE  CellsAfterInsert(page, k, child) = InternalCells(InsertAfter(page, k, child))
<1> DEFINE i     == SeparatorPlace(page.keys, k)
           new   == InsertAfter(page, k, child)
           n     == Len(page.keys)
           M     == InternalMax
           cells == InternalCells(page)
           one   == Memmove(cells, i, i - 1, n - i + 1)
           two   == Memmove(one, M + i + 1, M + i, n - i + 1)
           row   == CellsAfterInsert(page, k, child)
           goal  == InternalCells(new)
<1>1. /\ i \in 1 .. n + 1 /\ n \in Nat
      /\ new.keys = InsertAt(page.keys, i, k)
      /\ new.children = InsertAt(page.children, i + 1, child)
      /\ Len(new.keys) = n + 1
  BY InsertAfterIs
<1>2. n < M /\ M \in Nat
  BY InternalMaxAssumption DEF HasRoom
<1>3. /\ page.keys \in Seq(K) /\ page.children \in Seq(C)
      /\ Len(page.children) = n + 1
  BY DEF InternalPageOf
<1>4. /\ DOMAIN cells = 0 .. M + M
      /\ \A c \in 0 .. M + M :
           cells[c] = IF c < n THEN page.keys[c + 1]
                      ELSE IF c \in M + 0 .. M + n THEN page.children[c - (M + 0) + 1]
                      ELSE 0
  BY DEF InternalCells, ChildCell
<1>5. /\ DOMAIN goal = 0 .. M + M
      /\ \A c \in 0 .. M + M :
           goal[c] = IF c < n + 1 THEN new.keys[c + 1]
                     ELSE IF c \in M + 0 .. M + (n + 1)
                     THEN new.children[c - (M + 0) + 1] ELSE 0
  BY <1>1 DEF InternalCells, ChildCell
<1>6. row = [two EXCEPT ![i - 1] = k, ![M + i] = child]
  <2>1. /\ i - 1 + 1 = i /\ n - (i - 1) = n - i + 1
        /\ M + (i - 1 + 2) = M + i + 1 /\ M + (i - 1 + 1) = M + i
    BY <1>1, <1>2
  <2> QED  BY <2>1 DEF CellsAfterInsert, ShiftedChildren, ChildCell
<1>7. DOMAIN one = 0 .. M + M /\ DOMAIN two = 0 .. M + M
  BY <1>4 DEF Memmove
<1> HIDE DEF i, new, n, M, cells, one, two, row, goal
<1>8. ASSUME NEW c \in 0 .. M + M
      PROVE  /\ i <= c /\ c < n + 1 => one[c] = cells[c - 1]
             /\ ~ (i <= c /\ c < n + 1) => one[c] = cells[c]
  <2>1. i + (n - i + 1) = n + 1 /\ c - i + (i - 1) = c - 1
    BY <1>1
  <2>2. i \in Int /\ i - 1 \in Int /\ n - i + 1 \in Int /\ c \in DOMAIN cells /\ c \in Int
    BY <1>1, <1>4
  <2>3. /\ i <= c /\ c < i + (n - i + 1) => one[c] = cells[c - i + (i - 1)]
        /\ ~ (i <= c /\ c < i + (n - i + 1)) => one[c] = cells[c]
    BY <2>2, MemmoveCell DEF one
  <2> QED  BY <2>1, <2>3
<1>9. ASSUME NEW c \in 0 .. M + M
      PROVE  /\ M + i + 1 <= c /\ c < M + n + 2 => two[c] = one[c - 1]
             /\ ~ (M + i + 1 <= c /\ c < M + n + 2) => two[c] = one[c]
  <2>1. /\ M + i + 1 + (n - i + 1) = M + n + 2
        /\ c - (M + i + 1) + (M + i) = c - 1
    BY <1>1, <1>2
  <2>2. /\ M + i + 1 \in Int /\ M + i \in Int /\ n - i + 1 \in Int
        /\ c \in DOMAIN one /\ c \in Int
    BY <1>1, <1>2, <1>7
  <2>3. /\ M + i + 1 <= c /\ c < M + i + 1 + (n - i + 1)
             => two[c] = one[c - (M + i + 1) + (M + i)]
        /\ ~ (M + i + 1 <= c /\ c < M + i + 1 + (n - i + 1)) => two[c] = one[c]
    BY <2>2, MemmoveCell DEF two
  <2> QED  BY <2>1, <2>3
<1>10. /\ i - 1 \in 0 .. M + M /\ M + i \in 0 .. M + M /\ i - 1 # M + i
  BY <1>1, <1>2
<1>11. /\ DOMAIN row = 0 .. M + M /\ row[i - 1] = k /\ row[M + i] = child
       /\ \A c \in 0 .. M + M : c # i - 1 /\ c # M + i => row[c] = two[c]
       /\ row = [c \in DOMAIN row |-> row[c]]
  BY <1>6, <1>7, <1>10
<1>12. /\ new.keys[i] = k
       /\ \A j \in 1 .. n + 1 : /\ j < i => new.keys[j] = page.keys[j]
                                /\ j > i => new.keys[j] = page.keys[j - 1]
  <2>1. i \in 1 .. Len(page.keys) + 1 /\ Len(page.keys) + 1 = n + 1
    BY <1>1 DEF n
  <2>2. new.keys[i] = k
    BY <1>1, <1>3, <2>1, InsertAtElements
  <2>3. \A j \in 1 .. Len(page.keys) + 1 :
           /\ j < i => new.keys[j] = page.keys[j]
           /\ j > i => new.keys[j] = page.keys[j - 1]
    BY <1>1, <1>3, <2>1, InsertAtElement
  <2> QED  BY <2>1, <2>2, <2>3
<1>13. /\ new.children[i + 1] = child
       /\ \A j \in 1 .. n + 2 :
            /\ j < i + 1 => new.children[j] = page.children[j]
            /\ j > i + 1 => new.children[j] = page.children[j - 1]
  <2>1. i + 1 \in 1 .. Len(page.children) + 1 /\ Len(page.children) + 1 = n + 2
    BY <1>1, <1>3
  <2>2. new.children[i + 1] = child
    BY <1>1, <1>3, <2>1, InsertAtElements
  <2>3. \A j \in 1 .. Len(page.children) + 1 :
           /\ j < i + 1 => new.children[j] = page.children[j]
           /\ j > i + 1 => new.children[j] = page.children[j - 1]
    BY <1>1, <1>3, <2>1, InsertAtElement
  <2> QED  BY <2>1, <2>2, <2>3
<1>14. ASSUME NEW c \in 0 .. M + M  PROVE row[c] = goal[c]
  <2>0. c \in Int /\ i \in Int /\ n \in Nat /\ M \in Nat /\ n < M /\ 1 <= i /\ i <= n + 1
    BY <1>1, <1>2
  <2>1. /\ i <= c /\ c < n + 1 => one[c] = cells[c - 1]
        /\ ~ (i <= c /\ c < n + 1) => one[c] = cells[c]
    BY <1>8
  <2>2. /\ M + i + 1 <= c /\ c < M + n + 2 => two[c] = one[c - 1]
        /\ ~ (M + i + 1 <= c /\ c < M + n + 2) => two[c] = one[c]
    BY <1>9
  <2>3. c # i - 1 /\ c # M + i => row[c] = two[c]
    BY <1>11
  <2>4. /\ c < n => cells[c] = page.keys[c + 1]
        /\ M <= c /\ c <= M + n => cells[c] = page.children[c - M + 1]
        /\ ~ (c < n) /\ ~ (M <= c /\ c <= M + n) => cells[c] = 0
    <3>1. /\ c \in M + 0 .. M + n <=> M <= c /\ c <= M + n
          /\ c - (M + 0) + 1 = c - M + 1
      BY <2>0
    <3>2. M <= c => ~ (c < n)
      BY <2>0
    <3> QED  BY <1>4, <3>1, <3>2
  <2>5. /\ c < n + 1 => goal[c] = new.keys[c + 1]
        /\ M <= c /\ c <= M + n + 1 => goal[c] = new.children[c - M + 1]
        /\ ~ (c < n + 1) /\ ~ (M <= c /\ c <= M + n + 1) => goal[c] = 0
    <3>1. /\ c \in M + 0 .. M + (n + 1) <=> M <= c /\ c <= M + n + 1
          /\ c - (M + 0) + 1 = c - M + 1
      BY <2>0
    <3>2. M <= c => ~ (c < n + 1)
      BY <2>0
    <3> QED  BY <1>5, <3>1, <3>2
  <2>6. /\ c + 1 < i => new.keys[c + 1] = page.keys[c + 1]
        /\ i < c + 1 /\ c < n + 1 => new.keys[c + 1] = page.keys[c]
    <3>1. c < n + 1 => c + 1 \in 1 .. n + 1 /\ c + 1 - 1 = c
      BY <2>0
    <3>2. (c + 1 < i => c < n + 1) /\ (i < c + 1 => c + 1 > i)
      BY <2>0
    <3>3. c + 1 \in 1 .. n + 1 =>
            /\ c + 1 < i => new.keys[c + 1] = page.keys[c + 1]
            /\ c + 1 > i => new.keys[c + 1] = page.keys[c + 1 - 1]
      BY <1>12
    <3> QED  BY <3>1, <3>2, <3>3
  <2>7. /\ M <= c /\ c < M + i => new.children[c - M + 1] = page.children[c - M + 1]
        /\ M + i < c /\ c <= M + n + 1 => new.children[c - M + 1] = page.children[c - M]
    <3> DEFINE j == c - M + 1
    <3>1. M <= c /\ c <= M + n + 1 => j \in 1 .. n + 2
      BY <2>0
    <3>2. /\ c < M + i => c <= M + n + 1 /\ j < i + 1
          /\ M + i < c => M <= c /\ j > i + 1
      BY <2>0
    <3>3. j - 1 = c - M
      BY <2>0
    <3> HIDE DEF j
    <3>4. j \in 1 .. n + 2 => /\ j < i + 1 => new.children[j] = page.children[j]
                              /\ j > i + 1 => new.children[j] = page.children[j - 1]
      BY <1>13
    <3>5. /\ M <= c /\ c < M + i => new.children[j] = page.children[j]
          /\ M + i < c /\ c <= M + n + 1 => new.children[j] = page.children[j - 1]
      <4>1. CASE j \in 1 .. n + 2
        BY <3>2, <3>4, <4>1
      <4>2. CASE j \notin 1 .. n + 2
        BY <3>1, <3>2, <4>2
      <4> QED  BY <4>1, <4>2
    <3>6. /\ M <= c /\ c < M + i => new.children[j] = page.children[j]
          /\ M + i < c /\ c <= M + n + 1 => new.children[j] = page.children[c - M]
      BY <3>3, <3>5, Zenon
    <3> QED  BY <3>6, Zenon DEF j
  <2>8. CASE c < i - 1
    BY <2>0, <2>1, <2>2, <2>3, <2>4, <2>5, <2>6, <2>8
  <2>9. CASE c = i - 1
    <3>1. c + 1 = i /\ goal[c] = new.keys[c + 1]
      BY <2>0, <2>5, <2>9
    <3> QED  BY <1>11, <1>12, <2>9, <3>1
  <2>10. CASE i - 1 < c /\ c < n + 1
    <3>1. row[c] = cells[c - 1]
      BY <2>0, <2>1, <2>2, <2>3, <2>10
    <3>2. c - 1 \in 0 .. M + M /\ c - 1 < n /\ c - 1 + 1 = c
      BY <2>0, <2>10
    <3>3. cells[c - 1] = page.keys[c - 1 + 1]
      BY <1>4, <3>2
    <3>4. goal[c] = page.keys[c]
      BY <2>0, <2>5, <2>6, <2>10
    <3> QED  BY <3>1, <3>2, <3>3, <3>4
  <2>11. CASE n + 1 <= c /\ c < M
    BY <2>0, <2>1, <2>2, <2>3, <2>4, <2>5, <2>11
  <2>12. CASE M <= c /\ c < M + i
    <3>1. row[c] = cells[c]
      BY <2>0, <2>1, <2>2, <2>3, <2>12
    <3> QED  BY <2>0, <2>4, <2>5, <2>7, <2>12, <3>1
  <2>13. CASE c = M + i
    <3>1. c - M + 1 = i + 1 /\ goal[c] = new.children[c - M + 1]
      BY <2>0, <2>5, <2>13
    <3> QED  BY <1>11, <1>13, <2>13, <3>1
  <2>14. CASE M + i < c /\ c < M + n + 2
    <3>1. row[c] = one[c - 1] /\ c - 1 \in 0 .. M + M /\ ~ (c - 1 < n + 1)
      BY <2>0, <2>2, <2>3, <2>14
    <3>2. one[c - 1] = cells[c - 1]
      BY <1>8, <3>1
    <3>3. /\ ~ (c - 1 < n) /\ c - 1 \in M + 0 .. M + n /\ c - 1 - (M + 0) + 1 = c - M
      BY <2>0, <2>14
    <3>4. cells[c - 1] = page.children[c - 1 - (M + 0) + 1]
      BY <1>4, <3>1, <3>3
    <3>5. goal[c] = page.children[c - M]
      BY <2>0, <2>5, <2>7, <2>14
    <3> QED  BY <3>1, <3>2, <3>3, <3>4, <3>5
  <2>15. CASE M + n + 2 <= c
    BY <2>0, <2>1, <2>2, <2>3, <2>4, <2>5, <2>15
  <2> QED
    BY <2>0, <2>8, <2>9, <2>10, <2>11, <2>12, <2>13, <2>14, <2>15
<1>15. goal = [c \in DOMAIN goal |-> goal[c]]
  BY DEF goal, InternalCells
<1>16. row = goal
  BY <1>5, <1>11, <1>14, <1>15
<1> QED  BY <1>16 DEF row, goal, new


-----------------------------------------------------------------------------
(***************************************************************************)
(* Merging and filling one entry at a time, as the loops of split do.      *)
(***************************************************************************)
LEMMA FilledNone == Filled(<< >>) = << >>
<1>1. << >> \in Seq(Int) /\ Len(<< >>) = 0
  OBVIOUS
<1>2. PICK page : IsFilling(page, << >>) /\ Filled(<< >>) = page[Len(<< >>)]
  BY <1>1, FilledSteps
<1> QED  BY <1>1, <1>2 DEF IsFilling

LEMMA FilledAppend ==
  ASSUME NEW T, NEW s \in Seq(T), NEW e \in T
  PROVE  Filled(Append(s, e)) = LeafInsert(Filled(s), e)
<1> DEFINE new == Append(s, e)
           n   == Len(s)
<1>1. /\ n \in Nat /\ new \in Seq(T) /\ Len(new) = n + 1
      /\ \A j \in 1 .. n : new[j] = s[j]
      /\ new[n + 1] = e
  BY AppendProperties
<1> HIDE DEF new
<1>2. PICK a : IsFilling(a, s) /\ Filled(s) = a[n]
  BY FilledSteps
<1>3. PICK b : IsFilling(b, new) /\ Filled(new) = b[n + 1]
  BY <1>1, FilledSteps
<1> DEFINE good == {j \in 0 .. n : a[j] = b[j]}
<1>4. 0 \in good
  BY <1>1, <1>2, <1>3 DEF IsFilling
<1>5. ASSUME NEW j \in 0 .. n - 1, j \in good  PROVE j + 1 \in good
  <2>1. j + 1 \in 1 .. n /\ j + 1 \in 1 .. n + 1 /\ j + 1 - 1 = j /\ j + 1 \in 0 .. n
    BY <1>1
  <2>2. a[j + 1] = LeafInsert(a[j], s[j + 1])
    BY <1>2, <2>1 DEF IsFilling
  <2>3. b[j + 1] = LeafInsert(b[j], new[j + 1])
    BY <1>1, <1>3, <2>1 DEF IsFilling
  <2> QED  BY <1>1, <1>5, <2>1, <2>2, <2>3
<1>6. good = 0 .. n
  <2>1. good \in SUBSET (0 .. n)
    OBVIOUS
  <2> HIDE DEF good
  <2> QED  BY <1>1, <1>4, <1>5, <2>1, Induction
<1>7. a[n] = b[n]
  BY <1>1, <1>6
<1>8. n + 1 \in 1 .. n + 1 /\ n + 1 - 1 = n
  BY <1>1
<1>9. b[n + 1] = LeafInsert(b[n], e)
  BY <1>1, <1>3, <1>8 DEF IsFilling
<1> QED  BY <1>2, <1>3, <1>7, <1>9 DEF new

\* A part and the element behind it.
LEMMA NextPart ==
  ASSUME NEW T, NEW s \in Seq(T), NEW a \in 1 .. Len(s), NEW n \in a .. Len(s)
  PROVE  SubSeq(s, a, n) = Append(SubSeq(s, a, n - 1), s[n])
<1>1. /\ Len(s) \in Nat /\ a \in Int /\ n \in Int /\ s[n] \in T
      /\ \A j \in a .. n - 1 : s[j] \in T
  BY Elements, ElementOfSeq
<1>2. SubSeq(s, a, n) = SubSeq(s, a, n - 1) \o <<s[n]>>
  BY SubSeqRecursiveSecond
<1>3. n - 1 \in Int
  BY <1>1
<1>4. SubSeq(s, a, n - 1) \in Seq(T)
  BY <1>1, <1>3, SubSeqProperties
<1> QED  BY <1>1, <1>2, <1>4, AppendIsConcat

\* Half-filled pages.
LEMMA FilledNext ==
  ASSUME NEW T, NEW s \in Seq(T), NEW a \in 1 .. Len(s), NEW n \in a .. Len(s)
  PROVE  Filled(SubSeq(s, a, n)) = LeafInsert(Filled(SubSeq(s, a, n - 1)), s[n])
<1>1. /\ Len(s) \in Nat /\ a \in Int /\ n - 1 \in Int /\ s[n] \in T
      /\ \A j \in a .. n - 1 : s[j] \in T
  BY Elements, ElementOfSeq
<1>2. SubSeq(s, a, n - 1) \in Seq(T)
  BY <1>1, SubSeqProperties
<1> QED  BY <1>1, <1>2, NextPart, FilledAppend

\* The elements of the first n of a sequence.
LEMMA FirstPart ==
  ASSUME NEW T, NEW t \in Seq(T), NEW n \in 0 .. Len(t)
  PROVE  /\ SubSeq(t, 1, n) \in Seq(T) /\ Len(SubSeq(t, 1, n)) = n
         /\ \A j \in 1 .. n : SubSeq(t, 1, n)[j] = t[j]
<1>1. Len(t) \in Nat /\ n \in Int /\ 1 \in Int /\ n - 1 + 1 = n /\ 1 + 0 = 1
      /\ \A j \in 1 .. n : t[j] \in T
  BY Elements, ElementOfSeq
<1>2. /\ SubSeq(t, 1, n) \in Seq(T)
      /\ Len(SubSeq(t, 1, n)) = IF 1 <= n THEN n - 1 + 1 ELSE 0
      /\ \A j \in 1 .. n - 1 + 1 : SubSeq(t, 1, n)[j] = t[1 + j - 1]
  BY <1>1, SubSeqProperties
<1>3. \A j \in 1 .. n : 1 + j - 1 = j
  BY <1>1
<1> QED  BY <1>1, <1>2, <1>3

\* The place of the merge, if it is known.
LEMMA MergePlaceIs ==
  ASSUME NEW T, NEW t \in Seq(T), NEW k, NEW p \in 1 .. Len(t) + 1,
         \A j \in 1 .. p - 1 : ~ (k < t[j].key),
         p \in 1 .. Len(t) => k < t[p].key
  PROVE  MergePlace(t, k) = p
<1> DEFINE i == MergePlace(t, k)
<1>1. /\ i \in 1 .. Len(t) + 1 /\ Len(t) \in Nat
      /\ \A j \in 1 .. i - 1 : j \in 1 .. Len(t) /\ ~ (k < t[j].key)
      /\ i \in 1 .. Len(t) => k < t[i].key
  BY PlaceOfMerge, Elements
<1> HIDE DEF i
<1>2. ~ (i < p)
  <2> SUFFICES ASSUME i < p  PROVE FALSE
    OBVIOUS
  <2>1. i \in 1 .. p - 1 /\ i \in 1 .. Len(t)
    BY <1>1
  <2> QED  BY <1>1, <2>1
<1>3. ~ (p < i)
  <2> SUFFICES ASSUME p < i  PROVE FALSE
    OBVIOUS
  <2>1. p \in 1 .. i - 1 /\ p \in 1 .. Len(t)
    BY <1>1
  <2> QED  BY <1>1, <2>1
<1>4. i = p
  BY <1>1, <1>2, <1>3
<1> QED  BY <1>4 DEF i

\* No greater key: the new entry goes to the end.
LEMMA MergedAtEnd ==
  ASSUME NEW T, NEW t \in Seq(T), NEW e \in T,
         \A j \in 1 .. Len(t) : ~ (e.key < t[j].key)
  PROVE  Merged(t, e) = Append(t, e)
<1> DEFINE p   == Len(t) + 1
           new == InsertAt(t, p, e)
           end == Append(t, e)
<1>1. Len(t) \in Nat /\ p \in 1 .. Len(t) + 1 /\ p - 1 = Len(t) /\ p \notin 1 .. Len(t)
  BY Elements
<1>2. MergePlace(t, e.key) = p
  <2> HIDE DEF p
  <2> QED  BY <1>1, MergePlaceIs
<1>3. /\ InsertAt(t, p, e) \in Seq(T) /\ Len(InsertAt(t, p, e)) = Len(t) + 1
      /\ InsertAt(t, p, e)[p] = e
      /\ \A n \in 1 .. p - 1 : InsertAt(t, p, e)[n] = t[n]
  <2> HIDE DEF p
  <2> QED  BY <1>1, InsertAtElements
<1>4. /\ end \in Seq(T) /\ Len(end) = Len(t) + 1
      /\ \A n \in 1 .. Len(t) : end[n] = t[n]
      /\ end[Len(t) + 1] = e
  BY AppendProperties
<1> HIDE DEF new, end
<1>5. \A n \in 1 .. Len(t) + 1 : n = Len(t) + 1 \/ n \in 1 .. Len(t)
  BY <1>1
<1>6. new \in Seq(T) /\ Len(new) = Len(end) /\ \A n \in 1 .. Len(new) : new[n] = end[n]
  BY <1>1, <1>3, <1>4, <1>5 DEF new
<1>7. new = end
  BY <1>4, <1>6, SeqEqual
<1> QED  BY <1>2, <1>7 DEF Merged, new, end

\* The next entry is the first with a greater key: both are appended.
LEMMA MergedHere ==
  ASSUME NEW T, NEW t \in Seq(T), NEW e \in T, NEW n \in 0 .. Len(t) - 1,
         \A j \in 1 .. n : ~ (e.key < t[j].key), e.key < t[n + 1].key
  PROVE  Merged(SubSeq(t, 1, n + 1), e) = Append(SubSeq(t, 1, n), e) \o <<t[n + 1]>>
<1> DEFINE more == SubSeq(t, 1, n + 1)
           seen == SubSeq(t, 1, n)
           ae   == Append(seen, e)
           all  == ae \o <<t[n + 1]>>
           p    == n + 1
<1>1. Len(t) \in Nat /\ p \in Nat /\ n \in 0 .. Len(t) /\ p \in 0 .. Len(t)
      /\ p - 1 = n /\ p \in 1 .. Len(t) /\ t[n + 1] \in T
  BY Elements, ElementOfSeq
<1>2. /\ more \in Seq(T) /\ Len(more) = p /\ \A j \in 1 .. p : more[j] = t[j]
      /\ seen \in Seq(T) /\ Len(seen) = n /\ \A j \in 1 .. n : seen[j] = t[j]
  BY <1>1, FirstPart
<1> HIDE DEF more, seen
<1>3. /\ ae \in Seq(T) /\ Len(ae) = n + 1 /\ ae[n + 1] = e
      /\ \A j \in 1 .. n : ae[j] = t[j]
  BY <1>2, AppendProperties
<1> HIDE DEF ae
<1>4. /\ all \in Seq(T) /\ Len(all) = p + 1 /\ all[p] = e /\ all[p + 1] = t[p]
      /\ \A j \in 1 .. n : all[j] = t[j]
  BY <1>1, <1>3
<1> HIDE DEF all
<1>5. MergePlace(more, e.key) = p
  <2>1. \A j \in 1 .. p - 1 : ~ (e.key < more[j].key)
    BY <1>1, <1>2
  <2>2. e.key < more[p].key /\ p \in 1 .. Len(more) + 1
    BY <1>1, <1>2
  <2> HIDE DEF p
  <2> QED  BY <1>2, <2>1, <2>2, MergePlaceIs
<1> DEFINE new == InsertAt(more, p, e)
<1>6. /\ InsertAt(more, p, e) \in Seq(T) /\ Len(InsertAt(more, p, e)) = Len(more) + 1
      /\ InsertAt(more, p, e)[p] = e
      /\ \A j \in 1 .. p - 1 : InsertAt(more, p, e)[j] = more[j]
      /\ \A j \in p + 1 .. Len(more) + 1 : InsertAt(more, p, e)[j] = more[j - 1]
  <2>1. p \in 1 .. Len(more) + 1
    BY <1>1, <1>2
  <2>2. more \in Seq(T) /\ e \in T
    BY <1>2
  <2> HIDE DEF p
  <2> QED  BY ONLY <2>1, <2>2, InsertAtElements
<1>7. /\ new \in Seq(T) /\ Len(new) = p + 1 /\ new[p] = e /\ new[p + 1] = t[p]
      /\ \A j \in 1 .. n : new[j] = t[j]
  <2>1. p + 1 \in p + 1 .. Len(more) + 1 /\ p + 1 - 1 = p /\ p \in 1 .. p
    BY <1>1, <1>2
  <2>2. new[p + 1] = t[p]
    BY <1>2, <1>6, <2>1
  <2> QED  BY <1>1, <1>2, <1>6, <2>2
<1> HIDE DEF new
<1>8. \A j \in 1 .. p + 1 : j \in 1 .. n \/ j = p \/ j = p + 1
  BY <1>1
<1>9. new = all
  <2>1. \A j \in 1 .. Len(new) : new[j] = all[j]
    BY <1>4, <1>7, <1>8
  <2> QED  BY <1>4, <1>7, <2>1, SeqEqual
<1> QED  BY <1>5, <1>9 DEF Merged, new, all, ae, more, seen

\* The new entry is there already: the next one is appended.
LEMMA MergedBefore ==
  ASSUME NEW T, NEW t \in Seq(T), NEW e \in T, NEW n \in 0 .. Len(t) - 1,
         \E j \in 1 .. n : e.key < t[j].key
  PROVE  Merged(SubSeq(t, 1, n + 1), e) = Merged(SubSeq(t, 1, n), e) \o <<t[n + 1]>>
<1> DEFINE more == SubSeq(t, 1, n + 1)
           seen == SubSeq(t, 1, n)
           p    == MergePlace(seen, e.key)
<1>1. Len(t) \in Nat /\ n \in Nat /\ n \in 0 .. Len(t) /\ n + 1 \in 0 .. Len(t)
      /\ t[n + 1] \in T
  BY Elements, ElementOfSeq
<1>2. /\ more \in Seq(T) /\ Len(more) = n + 1 /\ \A j \in 1 .. n + 1 : more[j] = t[j]
      /\ seen \in Seq(T) /\ Len(seen) = n /\ \A j \in 1 .. n : seen[j] = t[j]
  BY <1>1, FirstPart
<1> HIDE DEF more, seen
<1>3. /\ p \in 1 .. n + 1
      /\ \A j \in 1 .. p - 1 : j \in 1 .. n /\ ~ (e.key < t[j].key)
      /\ p \in 1 .. n => e.key < t[p].key
  BY <1>2, PlaceOfMerge
<1> HIDE DEF p
<1>4. p \in 1 .. n
  <2> SUFFICES ASSUME p = n + 1  PROVE FALSE
    BY <1>1, <1>3
  <2>1. \A j \in 1 .. n : j \in 1 .. p - 1
    BY <1>1
  <2> QED  BY <1>3, <2>1
<1>5. MergePlace(more, e.key) = p
  <2>1. /\ p \in 1 .. Len(more) + 1
        /\ \A j \in 1 .. p - 1 : ~ (e.key < more[j].key)
        /\ e.key < more[p].key
    BY <1>1, <1>2, <1>3, <1>4
  <2> QED  BY <1>2, <2>1, MergePlaceIs
<1> DEFINE new == InsertAt(more, p, e)
           old == InsertAt(seen, p, e)
           all == old \o <<t[n + 1]>>
<1>6. /\ new \in Seq(T) /\ Len(new) = n + 1 + 1
      /\ new[p] = e
      /\ \A j \in 1 .. p - 1 : new[j] = more[j]
      /\ \A j \in p + 1 .. n + 1 + 1 : new[j] = more[j - 1]
  <2>1. p \in 1 .. Len(more) + 1
    BY <1>1, <1>2, <1>4
  <2>2. more \in Seq(T) /\ e \in T
    BY <1>2
  <2>3. /\ InsertAt(more, p, e) \in Seq(T) /\ Len(InsertAt(more, p, e)) = Len(more) + 1
        /\ InsertAt(more, p, e)[p] = e
        /\ \A j \in 1 .. p - 1 : InsertAt(more, p, e)[j] = more[j]
        /\ \A j \in p + 1 .. Len(more) + 1 : InsertAt(more, p, e)[j] = more[j - 1]
    BY ONLY <2>1, <2>2, InsertAtElements
  <2>4. Len(more) = n + 1
    BY <1>2
  <2> HIDE DEF new
  <2> QED  BY <2>3, <2>4 DEF new
<1>7. /\ old \in Seq(T) /\ Len(old) = n + 1
      /\ old[p] = e
      /\ \A j \in 1 .. p - 1 : old[j] = seen[j]
      /\ \A j \in p + 1 .. n + 1 : old[j] = seen[j - 1]
  <2>1. p \in 1 .. Len(seen) + 1
    BY <1>1, <1>2, <1>4
  <2>2. seen \in Seq(T) /\ e \in T
    BY <1>2
  <2>3. /\ InsertAt(seen, p, e) \in Seq(T) /\ Len(InsertAt(seen, p, e)) = Len(seen) + 1
        /\ InsertAt(seen, p, e)[p] = e
        /\ \A j \in 1 .. p - 1 : InsertAt(seen, p, e)[j] = seen[j]
        /\ \A j \in p + 1 .. Len(seen) + 1 : InsertAt(seen, p, e)[j] = seen[j - 1]
    BY ONLY <2>1, <2>2, InsertAtElements
  <2>4. Len(seen) = n
    BY <1>2
  <2> HIDE DEF old
  <2> QED  BY <2>3, <2>4 DEF old
<1> HIDE DEF new, old
<1>8. /\ all \in Seq(T) /\ Len(all) = n + 2 /\ all[n + 2] = t[n + 1]
      /\ \A j \in 1 .. n + 1 : all[j] = old[j]
  BY <1>1, <1>7
<1> HIDE DEF all
<1>9. ASSUME NEW j \in 1 .. n + 2  PROVE new[j] = all[j]
  <2>1. CASE j < p
    <3>1. j \in 1 .. p - 1 /\ j \in 1 .. n /\ j \in 1 .. n + 1
      BY <1>1, <1>4, <2>1
    <3>2. new[j] = more[j] /\ old[j] = seen[j]
      BY <1>6, <1>7, <3>1
    <3>3. all[j] = old[j] /\ more[j] = t[j] /\ seen[j] = t[j]
      BY <1>2, <1>8, <3>1
    <3> QED  BY <3>2, <3>3
  <2>2. CASE j = p
    <3>1. j \in 1 .. n + 1
      BY <1>1, <1>4, <2>2
    <3> QED  BY <1>6, <1>7, <1>8, <2>2, <3>1
  <2>3. CASE j > p /\ j # n + 2
    <3>1. j \in p + 1 .. n + 1 /\ j \in p + 1 .. n + 1 + 1 /\ j \in 1 .. n + 1
          /\ j - 1 \in 1 .. n /\ j - 1 \in 1 .. n + 1
      BY <1>1, <1>4, <2>3
    <3>2. new[j] = more[j - 1] /\ old[j] = seen[j - 1]
      BY <1>6, <1>7, <3>1
    <3>3. all[j] = old[j] /\ more[j - 1] = t[j - 1] /\ seen[j - 1] = t[j - 1]
      BY <1>2, <1>8, <3>1
    <3> QED  BY <3>2, <3>3
  <2>4. CASE j = n + 2
    <3>1. j \in p + 1 .. n + 1 + 1 /\ j - 1 = n + 1 /\ n + 1 \in 1 .. n + 1
      BY <1>1, <1>4, <2>4
    <3>2. new[j] = more[n + 1]
      BY <1>6, <3>1
    <3> QED  BY <1>2, <1>8, <2>4, <3>1, <3>2
  <2> QED  BY <1>1, <1>4, <2>1, <2>2, <2>3, <2>4
<1>10. new \in Seq(T) /\ Len(new) = n + 2
  BY <1>1, <1>6
<1>11. new = all
  BY <1>8, <1>9, <1>10, SeqEqual
<1> QED  BY <1>5, <1>11 DEF Merged, new, old, all, p, more, seen

\* The merge adds one entry.
LEMMA MergedLength ==
  ASSUME NEW T, NEW t \in Seq(T), NEW e \in T
  PROVE  Merged(t, e) \in Seq(T) /\ Len(Merged(t, e)) = Len(t) + 1
<1> DEFINE p == MergePlace(t, e.key)
<1>1. p \in 1 .. Len(t) + 1
  BY PlaceOfMerge
<1> HIDE DEF p
<1>2. InsertAt(t, p, e) \in Seq(T) /\ Len(InsertAt(t, p, e)) = Len(t) + 1
  BY <1>1, InsertAtElements
<1> QED  BY <1>2 DEF Merged, p
=============================================================================
