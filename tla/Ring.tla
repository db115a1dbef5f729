-------------------------------- MODULE Ring --------------------------------
(***************************************************************************)
(* The byte ring of the client: struct ring_buffer of client/client.h and  *)
(* the copying that ring_buffer_write (client/recv_thr.c) and              *)
(* ring_buffer_read (client/writer_thr.c) do while they hold its mutex.    *)
(*                                                                         *)
(* A ring is a record with the fields of the C structure.  The bytes it    *)
(* holds, oldest first, are Contents(r): what the two functions promise is *)
(* stated in terms of it.                                                  *)
(***************************************************************************)
EXTENDS Integers, Sequences

CONSTANTS
  Size,    \* RING_BUFFER_SIZE, the number of cells of data[]
  Byte     \* the values a cell can hold; memset() fills the cells with 0

ASSUME SizeAssumption == Size \in Nat \ {0}
ASSUME ByteAssumption == 0 \in Byte

Index == 0 .. Size - 1

Ring == [data : [Index -> Byte], head : Index, tail : Index, count : 0 .. Size]

-----------------------------------------------------------------------------
(* memcpy(&cells[at], bytes, len): the cells at .. at+len-1 take the bytes. *)
CopyIn(cells, at, bytes) ==
  [i \in Index |-> IF i >= at /\ i < at + Len(bytes)
                     THEN bytes[i - at + 1] ELSE cells[i]]

(* memcpy(dest, &cells[at], len), as the sequence of bytes copied. *)
CopyOut(cells, at, len) == [i \in 1 .. len |-> cells[at + i - 1]]

(* ring_buffer_init. *)
EmptyRing == [data |-> [i \in Index |-> 0], head |-> 0, tail |-> 0, count |-> 0]

(* The loop condition of ring_buffer_write, negated. *)
Fits(r, len) == r.count + len <= Size

(* Mutant of Written: after a wrapped copy the tail is the length of the    *)
(* first part instead of the second.                                        *)
WrittenTailAtFirstPart(r, bytes) ==
  LET len       == Len(bytes)
      available == Size - r.tail
  IN IF len <= available
       THEN [r EXCEPT !.data  = CopyIn(@, r.tail, bytes),
                      !.tail  = (@ + len) % Size,
                      !.count = @ + len]
       ELSE [r EXCEPT !.data  = CopyIn(CopyIn(@, r.tail, SubSeq(bytes, 1, available)),
                                       0, SubSeq(bytes, available + 1, len)),
                      !.tail  = available,
                      !.count = @ + len]

(* ring_buffer_write once the bytes fit: one memcpy up to the end of the    *)
(* array, or two when the bytes wrap around it.                             *)
Written(r, bytes) ==
  LET len       == Len(bytes)
      available == Size - r.tail
  IN IF len <= available
       THEN [r EXCEPT !.data  = CopyIn(@, r.tail, bytes),
                      !.tail  = (@ + len) % Size,
                      !.count = @ + len]
       ELSE [r EXCEPT !.data  = CopyIn(CopyIn(@, r.tail, SubSeq(bytes, 1, available)),
                                       0, SubSeq(bytes, available + 1, len)),
                      !.tail  = len - available,
                      !.count = @ + len]

(* ring_buffer_read, the number of bytes it returns: all, up to max_len. *)
ReadLen(r, max_len) == IF r.count < max_len THEN r.count ELSE max_len

(* Mutant of ReadBytes: the two parts of a wrapped read are swapped.        *)
ReadBytesSwapped(r, len) ==
  LET available == Size - r.head
  IN IF len <= available
       THEN CopyOut(r.data, r.head, len)
       ELSE CopyOut(r.data, 0, len - available) \o CopyOut(r.data, r.head, available)

(* ring_buffer_read, the bytes it copies to the caller. *)
ReadBytes(r, len) ==
  LET available == Size - r.head
  IN IF len <= available
       THEN CopyOut(r.data, r.head, len)
       ELSE CopyOut(r.data, r.head, available) \o CopyOut(r.data, 0, len - available)

(* Mutant of AfterRead: the head is not taken modulo the size.              *)
AfterReadNoWrap(r, len) ==
  LET available == Size - r.head
  IN [r EXCEPT !.head  = IF len <= available THEN @ + len ELSE len - available,
               !.count = @ - len]

(* ring_buffer_read, the ring it leaves. *)
AfterRead(r, len) ==
  LET available == Size - r.head
  IN [r EXCEPT !.head  = IF len <= available THEN (@ + len) % Size ELSE len - available,
               !.count = @ - len]

-----------------------------------------------------------------------------
(* The bytes in the ring, oldest first. *)
Contents(r) == [i \in 1 .. r.count |-> r.data[(r.head + (i - 1)) % Size]]

(* head, tail and count agree. *)
Coherent(r) == r.tail = (r.head + r.count) % Size
=============================================================================
