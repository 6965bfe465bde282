------------------------------ MODULE PageStore ------------------------------
(***************************************************************************)
(* What the buffer pool promises its users, with no frames and no          *)
(* replacer: pages that keep their contents until somebody changes them,   *)
(* pins that count, and ids that are never given out twice while their     *)
(* page is in use.  Of the file it says that every page in it has contents *)
(* it had before, how old these are is open - until the store is closed.   *)
(***************************************************************************)
EXTENDS Naturals

CONSTANTS
  PageId,   \* the page ids
  Content,  \* what a page can hold
  Absent    \* "no contents": never written, or deleted

VARIABLES
  store,    \* page id -> contents
  pins,     \* page id -> number of pins
  created,  \* the ids given out
  durable   \* page id -> the contents a crash would leave

storeVars == <<store, pins, created, durable>>

Nobody == [p \in PageId |-> 0]

\* A file an earlier session left.
StoreInit ==
  /\ store \in [PageId -> Content \cup {Absent}]
  /\ created \in SUBSET PageId
  /\ \A p \in PageId : store[p] # Absent => p \in created
  /\ pins = Nobody
  /\ durable = store

\* With any step, pages may get into the file as they are.
MaySync(P) == \A p \in P : durable'[p] \in {durable[p], store[p]}

\* A new page has an id no page in use has; it is empty and pinned once.
Create(p) ==
  /\ p \notin created
  /\ created' = created \cup {p}
  /\ pins' = [pins EXCEPT ![p] = 1]
  /\ UNCHANGED store /\ MaySync(PageId)

Pin(p) ==
  /\ store[p] # Absent
  /\ pins' = [pins EXCEPT ![p] = @ + 1]
  /\ UNCHANGED <<store, created>> /\ MaySync(PageId)

Unpin(p) ==
  /\ pins[p] # 0
  /\ pins' = [pins EXCEPT ![p] = @ - 1]
  /\ UNCHANGED <<store, created>> /\ MaySync(PageId)

Write(p, c) ==
  /\ pins[p] # 0
  /\ store' = [store EXCEPT ![p] = c]
  /\ UNCHANGED <<pins, created>> /\ MaySync(PageId)

Delete(p) ==
  /\ pins[p] = 0
  /\ store' = [store EXCEPT ![p] = Absent]
  /\ durable'[p] = Absent /\ MaySync(PageId \ {p})
  /\ UNCHANGED <<pins, created>>

\* A page gets into the file without anything else happening.
Sync == UNCHANGED <<store, pins, created>> /\ MaySync(PageId)

\* The next session: the id of a page that was created and holds nothing may be
\* given out again.
Reopened ==
  /\ created' \in SUBSET created
  /\ \A p \in PageId : store'[p] # Absent => p \in created'
  /\ pins' = Nobody

\* Closing and opening again keeps every page.
Restart ==
  /\ pins = Nobody
  /\ durable' = store /\ store' = store
  /\ Reopened

\* After a crash every page has the contents it had in the file.
Crash ==
  /\ store' = durable /\ UNCHANGED durable
  /\ Reopened

StoreNext ==
  \/ \E p \in PageId : Create(p) \/ Pin(p) \/ Unpin(p) \/ Delete(p)
  \/ \E p \in PageId, c \in Content : Write(p, c)
  \/ Sync \/ Restart \/ Crash

StoreSpec == StoreInit /\ [][StoreNext]_storeVars
=============================================================================
