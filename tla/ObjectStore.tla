----------------------------- MODULE ObjectStore ------------------------------
(***************************************************************************)
(* storeObject and retrieveObjectBuffer with the models below them: an     *)
(* object becomes bytes, the bytes a record of a new page, and the record  *)
(* an object again.  Lengths are 16 bits wide in the bytes, in the slot,   *)
(* and in the call of insertRecord, but not in the object.                 *)
(*                                                                         *)
(* Texts and student lists are told apart by their lengths: all that can   *)
(* happen to one is to be cut short, or to be read from the wrong place.   *)
(***************************************************************************)
EXTENDS SlottedPage

CONSTANTS
  Lengths,   \* lengths of names and titles
  Students,  \* numbers of students of a course
  Unknown    \* what a field reads as when other bytes are in its place

ASSUME LengthsAssumption == Lengths \subseteq Nat /\ Students \subseteq Nat
ASSUME UnknownAssumption == Unknown \notin Nat

VARIABLE stored  \* history: the object in this page and its slot_num

objectVars == <<vars, stored>>

NoObject == [kind |-> "none"]

User(name) == [kind |-> "user", id |-> 1, age |-> 2, name |-> name]
SensorData == [kind |-> "sensor", id |-> 1, value |-> 2, timestamp |-> 3]
Course(title, students) ==
  [kind |-> "course", id |-> 1, title |-> title, students |-> students]

Objects == {SensorData} \cup {User(n) : n \in Lengths}
           \cup {Course(t, s) : t \in Lengths, s \in Students}

\* A text and its length.  A size that forgets the length:
TextSize_NoLength(text) == text

TextSize(text) == 2 + text

\* getSerializedSize, a size_t.
SerializedSize(o) ==
  CASE o.kind = "user"   -> 4 + 2 + TextSize(o.name)
    [] o.kind = "sensor" -> 4 + 8 + 8
    [] o.kind = "course" -> 4 + TextSize(o.title) + 2 + 4 * o.students

\* Serialized bytes are pieces: where one begins, its length, what it says.
Piece(at, len, value) == [at |-> at, len |-> len, value |-> value]

\* serializeToBuffer.
Serialized(o) ==
  CASE o.kind = "user" ->
         LET name_len == o.name % Word
         IN  {Piece(0, 4, o.id), Piece(4, 2, o.age), Piece(6, 2, name_len),
              Piece(8, name_len, name_len)}
    [] o.kind = "sensor" ->
         {Piece(0, 4, o.id), Piece(4, 8, o.value), Piece(12, 8, o.timestamp)}
    [] o.kind = "course" ->
         LET title_len     == o.title % Word
             student_count == o.students % Word
         IN  {Piece(0, 4, o.id), Piece(4, 2, title_len),
              Piece(6, title_len, title_len),
              Piece(6 + title_len, 2, student_count),
              Piece(8 + title_len, 4 * student_count, student_count)}

\* What is read from a buffer: a piece that is there, and whole.
Reads(buffer, at, len) ==
  LET there == {piece \in buffer.pieces : /\ piece.at = at /\ piece.len = len
                                          /\ at + len <= buffer.size}
  IN  IF there = {} THEN Unknown ELSE (CHOOSE piece \in there : TRUE).value

\* A text or list as long as an earlier field says.
ReadsCounted(buffer, at, count, width) ==
  IF count = Unknown THEN Unknown ELSE Reads(buffer, at, count * width)

\* deserializeFromBuffer of the three models, which deserialize<T> calls.
UserFrom(buffer) ==
  [kind |-> "user", id |-> Reads(buffer, 0, 4), age |-> Reads(buffer, 4, 2),
   name |-> ReadsCounted(buffer, 8, Reads(buffer, 6, 2), 1)]

SensorDataFrom(buffer) ==
  [kind |-> "sensor", id |-> Reads(buffer, 0, 4),
   value |-> Reads(buffer, 4, 8), timestamp |-> Reads(buffer, 12, 8)]

\* A course whose reader does not move on over the title.
StudentsFrom_TitleNotSkipped(buffer, title_len) ==
  ReadsCounted(buffer, 8, Reads(buffer, 6, 2), 4)

StudentsFrom(buffer, title_len) ==
  IF title_len = Unknown THEN Unknown
  ELSE ReadsCounted(buffer, 8 + title_len, Reads(buffer, 6 + title_len, 2), 4)

CourseFrom(buffer) ==
  LET title_len == Reads(buffer, 4, 2)
  IN  [kind |-> "course", id |-> Reads(buffer, 0, 4),
       title |-> ReadsCounted(buffer, 6, title_len, 1),
       students |-> StudentsFrom(buffer, title_len)]

Deserialized(kind, buffer) ==
  CASE kind = "user"   -> UserFrom(buffer)
    [] kind = "sensor" -> SensorDataFrom(buffer)
    [] kind = "course" -> CourseFrom(buffer)

(***************************************************************************)
(* storeObject: a new page, as Init describes it, takes the object.        *)
(***************************************************************************)
ObjectInit == Init /\ stored = [object |-> NoObject, slot_num |-> 0]

\* The size is cast to uint16_t.
RecordSize(o) == SerializedSize(o) % Word

StoreObject(o) ==
  /\ slots = << >>
  /\ InsertRecord(RecordSize(o))
  /\ stored' = [object |-> o, slot_num |-> Len(slots')]

\* insertRecord returns FALSE, storeObject throws.
StoreThrows(o) ==
  /\ slots = << >>
  /\ RefuseRecord(RecordSize(o))
  /\ UNCHANGED stored

\* Other users of the page.
PutRecord == Next /\ UNCHANGED stored

ObjectNext == (\E o \in Objects : StoreObject(o) \/ StoreThrows(o)) \/ PutRecord

ObjectSpec == ObjectInit /\ [][ObjectNext]_objectVars

\* retrieveObjectBuffer: the bytes of the record, whoever wrote them last.
RetrievedBuffer(slot) ==
  [pieces |-> IF \A b \in RecordBytes(slots[slot]) :
                   b \in Bytes /\ bytes[b] = OfRecord(slot)
              THEN Serialized(stored.object) ELSE {},
   size   |-> slots[slot].size]

Found == Deserialized(stored.object.kind, RetrievedBuffer(stored.slot_num))
-----------------------------------------------------------------------------
\* find returns the object that was inserted, however full its page is by now -
\* unless its serialized size takes more than 16 bits: then storeObject keeps
\* a part of it, and insert returns TRUE all the same.
RoundTrip ==
  stored.object # NoObject /\ SerializedSize(stored.object) < Word
    => Found = stored.object

\* serializeToBuffer stays inside the buffer of getSerializedSize bytes that
\* storeObject gives it, for objects of any size; and its pieces do not overlap.
SerializedInBuffer ==
  stored.object # NoObject =>
    LET pieces == Serialized(stored.object)
    IN  /\ \A p \in pieces : p.at + p.len <= SerializedSize(stored.object)
        /\ \A p, q \in pieces : p = q \/ p.at + p.len <= q.at \/ q.at + q.len <= p.at
=============================================================================
