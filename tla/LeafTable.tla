------------------------------ MODULE LeafTable -------------------------------
(***************************************************************************)
(* What the tree promises itself about a leaf, with no arrays and no       *)
(* loops: sorted entries, to which one is added, or which are halved       *)
(* together with one more.  Of the halves it goes on with either.          *)
(***************************************************************************)
EXTENDS BPlusTreePage

CONSTANTS Key, Value

VARIABLE entries

TableInit == entries = << >>

Take(e) == entries' = LeafInsert(entries, e)

Halve(e) ==
  /\ ~ LeafAccepts(entries, e.key)
  /\ entries' \in {LeftHalf(Merged(entries, e)), RightHalf(Merged(entries, e))}

TableNext == \E k \in Key, v \in Value :
                Take(Entry(k, v)) \/ Halve(Entry(k, v))

TableSpec == TableInit /\ [][TableNext]_entries
=============================================================================
