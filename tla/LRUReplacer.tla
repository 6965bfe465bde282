----------------------------- MODULE LRUReplacer -----------------------------
(***************************************************************************)
(* LRUReplacer: the list of frames the buffer pool may evict, the one that *)
(* was released the longest ago first.  The C++ class keeps lru_list and,  *)
(* in lru_map, an iterator into that list per frame; a frame has an        *)
(* iterator exactly when it is in the list, so the list alone is the       *)
(* state.  Every method runs under the latch of the class: each is one     *)
(* operator from a list to a list.                                         *)
(***************************************************************************)
EXTENDS SequencesExt

\* victim(): FALSE in the code when nobody can be evicted.
LruHasVictim(lru) == lru # << >>

\* victim(): the frame handed out, and the list without it.
LruVictim(lru) == Head(lru)
LruAfterVictim(lru) == Tail(lru)

\* A replacer whose pin() forgets to take the frame off the list.
LruPinKeepsFrame(lru, frame) == lru

\* pin(): a frame in use is no candidate; nothing happens to a frame that is
\* not in the list.
LruPin(lru, frame) == RemoveFirst(lru, frame)

\* unpin(): a released frame becomes the youngest candidate, once.
LruUnpin(lru, frame, max_pages) ==
  IF frame \in ToSet(lru) \/ Len(lru) >= max_pages
  THEN lru
  ELSE Append(lru, frame)
=============================================================================
