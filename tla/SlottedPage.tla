----------------------------- MODULE SlottedPage -----------------------------
(***************************************************************************)
(* Page: one page of records.  The header is at the bottom, behind it the  *)
(* slot directory grows upward, and the records grow downward from the end *)
(* of the page.  The fields are 16 bits wide and their arithmetic wraps.   *)
(*                                                                         *)
(* The contents of a record do not matter, only whether they survive: what *)
(* stands in a byte is named by who wrote it last.                         *)
(***************************************************************************)
EXTENDS Integers, SequencesExt

CONSTANTS
  PageSize,  \* PAGE_SIZE (4096 in the code)
  Sizes      \* the record_size arguments callers pass

Word       == 65536  \* uint16_t
HeaderSize == 12     \* sizeof(PageHeader)
SlotSize   == 4      \* sizeof(Slot)

ASSUME PageSizeAssumption == PageSize \in HeaderSize .. Word - 1
ASSUME SizesAssumption    == Sizes \subseteq 0 .. Word - 1

VARIABLES
  slots,     \* the directory; slot_count is its length
  free_ptr,
  bytes      \* who wrote each byte: see OfNobody, OfRecord and OfSlot

vars == <<slots, free_ptr, bytes>>

Bytes == 0 .. PageSize - 1

OfNobody    == 0
OfRecord(i) == i
OfSlot(i)   == -i

\* The bytes of the i-th entry of the directory, and of a record.
SlotBytes(i)    == HeaderSize + (i - 1) * SlotSize .. HeaderSize + i * SlotSize - 1
RecordBytes(sl) == sl.offset .. sl.offset + sl.size - 1

\* init: what newPage makes of a frame.
Init ==
  /\ slots = << >>
  /\ free_ptr = PageSize
  /\ bytes = [b \in Bytes |-> OfNobody]

GetFreeSpace ==
  LET slots_end == (HeaderSize + Len(slots) * SlotSize) % Word
  IN  (free_ptr - slots_end) % Word

\* A test that forgets the new entry of the directory.
Fits_SlotForgotten(record_size) ==
  record_size # 0 /\ GetFreeSpace >= record_size

Fits(record_size) == record_size # 0 /\ GetFreeSpace >= record_size + SlotSize

\* A record that is put where the last one begins.
Place_NotMoved(record_size) == free_ptr

Place(record_size) == (free_ptr - record_size) % Word

\* insertRecord: the record is copied first, then the directory is extended.
InsertRecord(record_size) ==
  LET n    == Len(slots) + 1
      slot == [offset |-> Place(record_size), size |-> record_size]
  IN  /\ Fits(record_size)
      /\ free_ptr' = Place(record_size)
      /\ slots' = Append(slots, slot)
      /\ bytes' = [b \in Bytes |-> IF b \in SlotBytes(n) THEN OfSlot(n)
                                  ELSE IF b \in RecordBytes(slot) THEN OfRecord(n)
                                  ELSE bytes[b]]

\* insertRecord returns FALSE.
RefuseRecord(record_size) == ~ Fits(record_size) /\ UNCHANGED vars

Next == \E record_size \in Sizes :
          InsertRecord(record_size) \/ RefuseRecord(record_size)

Spec == Init /\ [][Next]_vars
-----------------------------------------------------------------------------
TypeOK ==
  /\ slots \in Seq([offset : 0 .. Word - 1, size : 0 .. Word - 1])
  /\ free_ptr \in 0 .. Word - 1
  /\ bytes \in [Bytes -> Int]

\* getRecord returns what insertRecord was given, for every slot and for ever:
\* all bytes of a record are in the page and nothing was written over them.
RecordsIntact ==
  \A i \in DOMAIN slots : \A b \in RecordBytes(slots[i]) :
     b \in Bytes /\ bytes[b] = OfRecord(i)

\* Nor over the directory, which getRecord finds the record by.
DirectoryIntact ==
  \A i \in DOMAIN slots : \A b \in SlotBytes(i) :
     b \in Bytes /\ bytes[b] = OfSlot(i)

\* getFreeSpace never wraps and loses no byte: it is the size of the page less
\* header, directory and records.
FreeSpaceExact ==
  GetFreeSpace = FoldLeft(LAMBDA room, sl : room - SlotSize - sl.size,
                          PageSize - HeaderSize, slots)

\* Directory, gap and records, from the bottom to the end of the page.
Layout ==
  /\ HeaderSize + Len(slots) * SlotSize <= free_ptr
  /\ free_ptr <= PageSize
  /\ \A i \in DOMAIN slots : /\ free_ptr <= slots[i].offset
                             /\ slots[i].offset + slots[i].size <= PageSize

\* The inductive invariant.
IndInv == TypeOK /\ Layout /\ RecordsIntact /\ DirectoryIntact
=============================================================================
