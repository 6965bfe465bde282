------------------------------ MODULE KeyIndex -------------------------------
(***************************************************************************)
(* What the tree promises the database: a table from keys to values.  A    *)
(* key, once stored, is found with its value from then on.                 *)
(***************************************************************************)
CONSTANTS
  Key,
  Value,
  NoValue  \* "key not found"

VARIABLE index

IndexInit == index = [k \in Key |-> NoValue]

Put(k, v) == index[k] = NoValue /\ index' = [index EXCEPT ![k] = v]

IndexSpec == IndexInit /\ [][\E k \in Key, v \in Value : Put(k, v)]_index
=============================================================================
