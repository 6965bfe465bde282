--------------------------------- MODULE Demo ---------------------------------
(***************************************************************************)
(* main: the demo program, run again and again on the file it left.  It    *)
(* asks for what an earlier run stored, stores seven objects, finds them   *)
(* and closes the database.  Its objects always fit.                       *)
(***************************************************************************)
EXTENDS Database

VARIABLES
  at,        \* the next call of main, an index into Script
  seen,      \* the keys this run has had a good answer for
  completed  \* history: how many runs came to the end

demoVars == <<vars, at, seen, completed>>

StoredKeys == <<101, 102, 103, 201, 202, 301, 302>>

Does(op, key) == [op |-> op, key |-> key]

\* "reread" is a find in a branch taken if exists returned TRUE, "try" one whose
\* exception is caught on the spot.
Script ==
  <<Does("exists", 101), Does("exists", 201),
    Does("reread", 101), Does("reread", 201)>>
  \o [i \in DOMAIN StoredKeys |-> Does("insert", StoredKeys[i])]
  \o [i \in DOMAIN StoredKeys |-> Does("find", StoredKeys[i])]
  \o <<Does("exists", 101), Does("exists", 201), Does("exists", 301),
       Does("exists", 999), Does("try", 999)>>

AtEnd == at > Len(Script)

\* The call before came back with an object, or TRUE.
SeenNow == IF answer.object = Nothing THEN seen ELSE seen \cup {answer.key}

\* The call before was a find that threw, and nothing caught it in main's body.
FindThrew == at > 1 /\ Script[at - 1].op = "find" /\ answer.object = Nothing

DemoInit == Init /\ at = 1 /\ seen = {} /\ completed = 0

CallNext ==
  /\ ~ AtEnd /\ ~ FindThrew
  /\ LET does == Script[at]
     IN  \/ does.op = "insert" /\ Insert(does.key, TRUE)
         \/ does.op = "exists" /\ Lookup("exists", does.key)
         \/ does.op = "reread" /\ does.key \in SeenNow /\ Lookup("find", does.key)
         \/ does.op \in {"find", "try"} /\ Lookup("find", does.key)
  /\ at' = at + 1 /\ seen' = SeenNow
  /\ UNCHANGED completed

NotThereBefore ==
  /\ pc = "idle" /\ ~ AtEnd
  /\ Script[at].op = "reread" /\ Script[at].key \notin SeenNow
  /\ at' = at + 1 /\ seen' = SeenNow
  /\ UNCHANGED <<vars, completed>>

\* The end of main, by return or by an exception; and the next run of it.
RunAgain ==
  /\ AtEnd \/ FindThrew
  /\ CloseAndOpen
  /\ at' = 1 /\ seen' = {}
  /\ completed' = IF AtEnd THEN completed + 1 ELSE completed

InCall == Work /\ UNCHANGED <<at, seen, completed>>

DemoNext == CallNext \/ NotThereBefore \/ RunAgain \/ InCall

DemoSpec == DemoInit /\ [][DemoNext]_demoVars
-----------------------------------------------------------------------------
\* "If demo.db exists, it reads previous data and resumes the tree from the
\* persisted root page": once a run came to its end, exists(101) and exists(201)
\* return TRUE at the start of every later one.
PreviousDataFound ==
  completed > 0 /\ pc = "idle" /\ at \in {2, 3} => answer.object = answer.key
=============================================================================
