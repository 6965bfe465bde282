------------------------------- MODULE LeafPage -------------------------------
(***************************************************************************)
(* BPlusTreeLeafPage with its arrays and its loops.  lookup, insert and    *)
(* split are stepped through, one step per round of a loop; what they do   *)
(* in all is what BPlusTreePage says in one expression each.               *)
(*                                                                         *)
(* Behind the header a page has max_size keys, and behind these max_size   *)
(* values.  A cell is a key or a value; indices count from 0.              *)
(***************************************************************************)
EXTENDS BPlusTreePage

CONSTANTS
  Keys,
  Values

ASSUME KeysAssumption   == Keys \subseteq Nat
ASSUME ValuesAssumption == Values \subseteq Nat

VARIABLES
  cells, current_size,  \* for the page, and for the sibling split fills
  pc,                   \* where the thread stands
  op,                   \* "lookup", "insert", or "split" - which calls insert
  on,                   \* the page insert and lookup work on
  key, value,           \* their arguments
  low, high, index,     \* the variables of lookup
  i, temp,              \* the variables of split: a loop counter, all entries
  before                \* history: the entries of the page when split began

pages  == <<cells, current_size>>
search == <<low, high, index>>
vars   == <<pages, pc, op, on, key, value, search, i, temp, before>>

Sides     == {"page", "sibling"}
Cells     == 0 .. 2 * LeafMax - 1
ZeroCells == [c \in Cells |-> 0]

KeyCell(n)   == n
ValueCell(n) == LeafMax + n

keyAt(side, n)   == cells[side][KeyCell(n)]
valueAt(side, n) == cells[side][ValueCell(n)]

EntryAt(side, n) == Entry(keyAt(side, n), valueAt(side, n))
Entries(side)    == [n \in 1 .. current_size[side] |-> EntryAt(side, n - 1)]

Init ==
  /\ cells = [s \in Sides |-> ZeroCells] /\ current_size = [s \in Sides |-> 0]
  /\ pc = "idle" /\ op = "lookup" /\ on = "page" /\ key = 0 /\ value = 0
  /\ low = 0 /\ high = 0 /\ index = 0
  /\ i = 0 /\ temp = << >> /\ before = << >>

(***************************************************************************)
(* lookup.                                                                 *)
(***************************************************************************)
BeginSearch(side, k, v) ==
  /\ pc' = "search" /\ on' = side /\ key' = k /\ value' = v
  /\ low' = 0 /\ high' = current_size[side] - 1 /\ index' = current_size[side]
  /\ UNCHANGED pages

\* The tree calls lookup or insert.
Call(name, k, v) ==
  /\ pc = "idle"
  /\ op' = name
  /\ BeginSearch("page", k, v)
  /\ UNCHANGED <<i, temp, before>>

\* A comparison that takes the key itself for too small.
NotBelow_EqualIs(mid) == keyAt(on, mid) > key

NotBelow(mid) == keyAt(on, mid) >= key

\* A loop that looks at the middle again.
GoRight_MidKept(mid) == low' = mid

GoRight(mid) == low' = mid + 1

SearchStep ==
  /\ pc = "search" /\ low <= high
  /\ LET mid == low + (high - low) \div 2
     IN  IF NotBelow(mid)
         THEN index' = mid /\ high' = mid - 1 /\ UNCHANGED low
         ELSE GoRight(mid) /\ UNCHANGED <<index, high>>
  /\ UNCHANGED <<pages, pc, op, on, key, value, i, temp, before>>

Searched == pc = "search" /\ low > high

LookupReturns ==
  /\ Searched /\ op = "lookup"
  /\ pc' = "idle"
  /\ UNCHANGED <<pages, op, on, key, value, search, i, temp, before>>

(***************************************************************************)
(* insert, which returns to the tree or to split.                          *)
(***************************************************************************)
HasKey == index < current_size[on] /\ keyAt(on, index) = key

\* A test for room that lets one entry too many in.
IsFull_OneTooMany == current_size[on] > LeafMax

IsFull == current_size[on] >= LeafMax

Refused == HasKey \/ IsFull

\* A shift that leaves the last entry where it is.
Shifted_LastLeft(from, cell, count) == Memmove(from, cell + 1, cell, count - 1)

\* count cells from cell on, moved up by one.
Shifted(from, cell, count) == Memmove(from, cell + 1, cell, count)

InsertRefused ==
  /\ Searched /\ op # "lookup" /\ Refused
  /\ pc' = IF op = "split" THEN "deal" ELSE "refused"
  /\ UNCHANGED <<pages, op, on, key, value, search, i, temp, before>>

InsertTakes ==
  /\ Searched /\ op # "lookup" /\ ~ Refused
  /\ pc' = IF op = "split" THEN "deal" ELSE "idle"
  /\ LET behind  == current_size[on] - index
         shifted == Shifted(Shifted(cells[on], KeyCell(index), behind),
                            ValueCell(index), behind)
     IN  cells' = [cells EXCEPT ![on] = [shifted EXCEPT ![KeyCell(index)] = key,
                                                        ![ValueCell(index)] = value]]
  /\ current_size' = [current_size EXCEPT ![on] = @ + 1]
  /\ UNCHANGED <<op, on, key, value, search, i, temp, before>>

(***************************************************************************)
(* split, which the tree calls when insert returned FALSE.  temp_keys and  *)
(* temp_vals are one sequence; what is in it beyond the i old entries is   *)
(* the new one, and says that inserted is TRUE.                            *)
(***************************************************************************)
NewEntry == Entry(key, value)
Inserted == Len(temp) > i

Split ==
  /\ pc = "refused"
  /\ pc' = "merge" /\ op' = "split" /\ before' = Entries("page")
  /\ i' = 0 /\ temp' = << >>
  /\ UNCHANGED <<pages, on, key, value, search>>

MergeStep ==
  /\ pc = "merge" /\ i < current_size["page"]
  /\ temp' = (IF ~ Inserted /\ key < keyAt("page", i)
              THEN Append(temp, NewEntry) ELSE temp) \o <<EntryAt("page", i)>>
  /\ i' = i + 1
  /\ UNCHANGED <<pages, pc, op, on, key, value, search, before>>

\* The sibling is a new page, and the page is emptied.
MergeDone ==
  /\ pc = "merge" /\ i = current_size["page"]
  /\ temp' = IF Inserted THEN temp ELSE Append(temp, NewEntry)
  /\ cells' = [cells EXCEPT !["sibling"] = ZeroCells]
  /\ current_size' = [s \in Sides |-> 0]
  /\ pc' = "deal" /\ i' = 0
  /\ UNCHANGED <<op, on, key, value, search, before>>

\* A cut that leaves one entry more on the page than SplitPoint says.
DealtTo_CutLate(n) == IF n <= SplitPoint(temp) THEN "page" ELSE "sibling"

DealtTo(n) == IF n < SplitPoint(temp) THEN "page" ELSE "sibling"

DealStep ==
  /\ pc = "deal" /\ i < Len(temp)
  /\ BeginSearch(DealtTo(i), temp[i + 1].key, temp[i + 1].value)
  /\ i' = i + 1
  /\ UNCHANGED <<op, temp, before>>

\* The tree goes on with one of the halves; what becomes of the other is the
\* same as if it had gone on with that.
SplitReturns(side) ==
  /\ pc = "deal" /\ i = Len(temp)
  /\ cells' = [cells EXCEPT !["page"] = cells[side], !["sibling"] = ZeroCells]
  /\ current_size' = [current_size EXCEPT !["page"] = current_size[side],
                                          !["sibling"] = 0]
  /\ pc' = "idle" /\ op' = "insert" /\ i' = 0 /\ temp' = << >> /\ before' = << >>
  /\ UNCHANGED <<on, key, value, search>>

Calls == \E k \in Keys : \/ Call("lookup", k, 0)
                         \/ \E v \in Values : Call("insert", k, v)

Work ==
  \/ SearchStep \/ LookupReturns \/ InsertRefused \/ InsertTakes
  \/ Split \/ MergeStep \/ MergeDone \/ DealStep
  \/ \E side \in Sides : SplitReturns(side)

Next == Calls \/ Work

\* The only thread goes on with a call; nobody has to make another one.
Spec == Init /\ [][Next]_vars /\ WF_vars(Work)
-----------------------------------------------------------------------------
Pairs == [key : Nat, value : Nat]

TypeOK ==
  /\ cells \in [Sides -> [Cells -> Nat]]
  /\ current_size \in [Sides -> 0 .. LeafMax]
  /\ on \in Sides /\ key \in Nat /\ value \in Nat
  /\ low \in 0 .. LeafMax /\ high \in -1 .. LeafMax - 1 /\ index \in 0 .. LeafMax
  /\ i \in 0 .. LeafMax + 1
  /\ temp \in Seq(Pairs) /\ Len(temp) <= LeafMax + 1

\* The keys of a page ascend at any moment, while it is taken apart as well.
Sorted ==
  \A s \in Sides : \A m, n \in 0 .. current_size[s] - 1 :
     m < n => keyAt(s, m) < keyAt(s, n)

\* The loop of lookup closes in on the place it looks for from both sides: keys
\* before low are below key, keys from index on are not.
Narrows ==
  pc = "search" =>
    /\ 0 <= low /\ low <= high + 1 /\ high + 1 = index
    /\ index <= current_size[on]
    /\ \A n \in 0 .. low - 1 : keyAt(on, n) < key
    /\ \A n \in index .. current_size[on] - 1 : keyAt(on, n) >= key

\* The temporary arrays of split have room: the merge has copied as many entries
\* as its counter says, and at most the new one more; dealing stays inside them.
Merges ==
  IF pc = "merge" THEN i <= current_size["page"] /\ Len(temp) \in {i, i + 1}
  ELSE op = "split" => i <= Len(temp)

\* The inductive invariant.
IndInv == TypeOK /\ Sorted /\ Narrows /\ Merges

\* Half-way through the merge: the page is still whole, and of the first i entries
\* and the new one temp has what Merged says, if the new one's turn has come.
Merging ==
  LET seen == SubSeq(before, 1, i)
  IN  /\ op = "split" /\ before = Entries("page")
      /\ key \in Keys /\ value \in Values /\ ~ LeafAccepts(before, key)
      /\ temp = IF \E n \in 1 .. i : key < before[n].key
                THEN Merged(seen, NewEntry) ELSE seen

\* How many entries are on the two halves: one being inserted is not yet.
Dealt == IF pc = "search" THEN i - 1 ELSE i

\* Half-way through dealing: each half has what filling it with the entries
\* dealt so far makes of an empty page.
Dealing ==
  LET cut == SplitPoint(temp)
  IN  /\ \E k \in Keys, v \in Values :
            temp = Merged(before, Entry(k, v)) /\ ~ LeafAccepts(before, k)
      /\ Entries("page") = Filled(SubSeq(temp, 1, IF Dealt < cut THEN Dealt ELSE cut))
      /\ Entries("sibling") = Filled(SubSeq(temp, cut + 1, Dealt))
      /\ pc = "search" => i > 0 /\ on = DealtTo(i - 1) /\ NewEntry = temp[i]

\* Every point of a split, and of the calls it begins and ends with.
Splits ==
  /\ op \in {"lookup", "insert", "split"}
  /\ pc = "idle" => op # "split"
  /\ pc = "search" /\ op = "insert" => on = "page" /\ key \in Keys /\ value \in Values
  /\ pc = "refused" => /\ op # "split" /\ key \in Keys /\ value \in Values
                       /\ ~ LeafAccepts(Entries("page"), key)
  /\ pc = "merge" => Merging
  /\ pc = "deal" => op = "split"
  /\ pc \in {"search", "deal"} /\ op = "split" => Dealing

\* Searching by halving finds what searching one by one would find: the first
\* key that is not below the one looked for, with one entry or none as well.
LookupRight == Searched => index + 1 = LeafLookup(Entries(on), key)

\* What insert does to the arrays with two memmoves is what LeafInsert says of a
\* sequence: it takes the entry to its place and keeps all others, or refuses it.
InsertsEntry ==
  [][InsertTakes \/ InsertRefused
       => Entries(on)' = LeafInsert(Entries(on), NewEntry)]_vars

\* Every loop ends: no call keeps looking at the same middle.
LoopsEnd == []<>(pc = "idle")

\* Arrays, shifts and loops do to a leaf what BPlusTreePage says of its entries.
Table == INSTANCE LeafTable WITH
  Key     <- Keys,
  Value   <- Values,
  entries <- IF op = "split" THEN before ELSE Entries("page")

ImplementsLeafTable == Table!TableSpec
=============================================================================
