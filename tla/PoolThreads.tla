----------------------------- MODULE PoolThreads ------------------------------
(***************************************************************************)
(* Threads that share the buffer pool.  fetchPage runs under the latch, in *)
(* one step.  unpinPage does not take it: it runs in steps, each of which  *)
(* reads or writes one shared word, and the steps of others come between.  *)
(*                                                                         *)
(* Racing reads and writes of a word are taken to happen in some order,    *)
(* and a read of page_table to find what the table holds; the language     *)
(* promises less.  The pages were all written in an earlier session.       *)
(***************************************************************************)
EXTENDS BufferPoolManager

CONSTANT Threads

VARIABLES
  pc,       \* thread -> where it stands
  page_id,  \* thread -> the page it fetched, and unpins
  pointer,  \* thread -> what fetchPage returned
  flag,     \* thread -> is_dirty_flag, the argument of unpinPage
  frame_id, \* thread -> the local variable of unpinPage
  loaded    \* thread -> pin_count[frame_id] as the decrement read it

locals == <<page_id, pointer, flag, frame_id, loaded>>
vars   == <<poolVars, pc, locals>>

Init ==
  /\ file_pages = MaxPages
  /\ disk = [p \in PageIds |-> [page_id |-> p, body |-> "written"]]
  /\ PoolInit
  /\ pc = [t \in Threads |-> "idle"]
  /\ page_id = [t \in Threads |-> 0] /\ pointer = [t \in Threads |-> NoFrame]
  /\ flag = [t \in Threads |-> FALSE]
  /\ frame_id = [t \in Threads |-> NoFrame] /\ loaded = [t \in Threads |-> 0]

Goes(t, from, to) == pc[t] = from /\ pc' = [pc EXCEPT ![t] = to]

Fetch(t, p) ==
  /\ Goes(t, "idle", "holds")
  /\ FetchHit(p) \/ FetchMiss(p)
  /\ page_id' = [page_id EXCEPT ![t] = p]
  /\ pointer' = [pointer EXCEPT ![t] = page_table'[p]]
  /\ UNCHANGED <<flag, frame_id, loaded>>

FetchNull(t, p) == pc[t] = "idle" /\ FetchFails(p) /\ UNCHANGED <<pc, locals>>

(***************************************************************************)
(* unpinPage.                                                              *)
(***************************************************************************)
UnpinFinds(t, dirty) ==
  /\ Goes(t, "holds", "mark")
  /\ Resident(page_id[t])
  /\ flag' = [flag EXCEPT ![t] = dirty]
  /\ frame_id' = [frame_id EXCEPT ![t] = page_table[page_id[t]]]
  /\ UNCHANGED <<poolVars, page_id, pointer, loaded>>

UnpinFindsNot(t) ==
  /\ Goes(t, "holds", "idle")
  /\ ~ Resident(page_id[t])
  /\ UNCHANGED <<poolVars, locals>>

UnpinMarks(t) ==
  /\ Goes(t, "mark", "load")
  /\ MarkDirty(frame_id[t], flag[t])
  /\ UNCHANGED <<page_table, frames, free_list, lru_list, pin_count,
                 next_page_id, diskVars, locals>>

UnpinLoads(t) ==
  /\ Goes(t, "load", IF pin_count[frame_id[t]] = 0 THEN "idle" ELSE "store")
  /\ loaded' = [loaded EXCEPT ![t] = pin_count[frame_id[t]]]
  /\ UNCHANGED <<poolVars, page_id, pointer, flag, frame_id>>

UnpinStores(t) ==
  /\ Goes(t, "store", "test")
  /\ pin_count' = [pin_count EXCEPT ![frame_id[t]] = loaded[t] - 1]
  /\ UNCHANGED <<page_table, frames, free_list, lru_list, is_dirty,
                 next_page_id, diskVars, locals>>

UnpinTests(t) ==
  /\ Goes(t, "test", "idle")
  /\ lru_list' = IF pin_count[frame_id[t]] = 0
                 THEN LruUnpin(lru_list, frame_id[t], PoolSize) ELSE lru_list
  /\ UNCHANGED <<page_table, frames, free_list, pin_count, is_dirty,
                 next_page_id, diskVars, locals>>

Next ==
  \E t \in Threads :
    \/ \E p \in PageIds : Fetch(t, p) \/ FetchNull(t, p)
    \/ \E dirty \in BOOLEAN : UnpinFinds(t, dirty)
    \/ UnpinFindsNot(t)
    \/ UnpinMarks(t) \/ UnpinLoads(t) \/ UnpinStores(t) \/ UnpinTests(t)

Spec == Init /\ [][Next]_vars
-----------------------------------------------------------------------------
\* "Thread safety": between its fetchPage and its unpinPage a thread finds its
\* page where its pointer leads, whatever other threads fetch and unpin.
PointersStay ==
  \A t \in Threads : pc[t] = "holds" => frames[pointer[t]].page_id = page_id[t]
=============================================================================
