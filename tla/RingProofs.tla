----------------------------- MODULE RingProofs -----------------------------
(***************************************************************************)
(* Proofs about the client's ring buffer, for every capacity, every set of *)
(* packets and every read size: its operators keep the ring coherent and   *)
(* act on Contents as the operations of a queue, and the two-threaded      *)
(* RingBuffer implements ByteQueue.                                        *)
(***************************************************************************)
EXTENDS RingBuffer, SequenceTheorems, TLAPS

(***************************************************************************)
(* Arithmetic of positions.                                                *)
(***************************************************************************)

(* Positions never reach twice the capacity, so the remainder is one        *)
(* subtraction at most.                                                     *)
LEMMA ModSize ==
  ASSUME NEW x \in Int, 0 <= x, x < 2 * Size
  PROVE  /\ x % Size = IF x < Size THEN x ELSE x - Size
         /\ x % Size \in Index
<1>1. CASE x < Size
  BY <1>1, SizeAssumption DEF Index
<1>2. CASE x >= Size
  BY <1>2, SizeAssumption DEF Index
<1>3. QED
  BY <1>1, <1>2, SizeAssumption

(* The code's case split moves an index by n positions around the ring. *)
LEMMA Advance ==
  ASSUME NEW x \in Index, NEW n \in 0 .. Size
  PROVE  /\ x \in Int /\ n \in Int /\ x + n \in Int
         /\ (x + n) % Size = IF n < Size - x THEN x + n ELSE n - (Size - x)
         /\ (x + n) % Size \in Index
<1>1. 0 <= x + n /\ x + n < 2 * Size /\ x \in Int /\ n \in Int
  BY SizeAssumption DEF Index
<1>2. QED
  BY <1>1, ModSize, SizeAssumption

(* Moving by c and then by n is moving by c + n. *)
LEMMA AdvanceTwice ==
  ASSUME NEW x \in Index, NEW c \in Nat, NEW n \in Nat, c + n <= Size
  PROVE  (((x + c) % Size) + n) % Size = (x + (c + n)) % Size
<1> DEFINE y == (x + c) % Size
           z == (x + (c + n)) % Size
<1>1. /\ c \in 0 .. Size /\ n \in 0 .. Size /\ c + n \in 0 .. Size
      /\ x \in Int /\ 0 <= x /\ x < Size
  BY SizeAssumption DEF Index
<1>2. y = (IF c < Size - x THEN x + c ELSE c - (Size - x)) /\ y \in Index
  BY <1>1, Advance
<1>3. z = IF c + n < Size - x THEN x + (c + n) ELSE (c + n) - (Size - x)
  BY <1>1, Advance
<1>4. (y + n) % Size = IF n < Size - y THEN y + n ELSE n - (Size - y)
  BY <1>1, <1>2, Advance
<1> HIDE DEF y, z
<1>5. (y + n) % Size = z
  BY <1>1, <1>2, <1>3, <1>4, SizeAssumption DEF Index
<1>6. QED
  BY <1>5 DEF y, z

(***************************************************************************)
(* Sequences and cells.                                                    *)
(***************************************************************************)

LEMMA FunctionIsSequence ==
  ASSUME NEW S, NEW n \in Nat, NEW f \in [1 .. n -> S]
  PROVE  f \in Seq(S) /\ Len(f) = n
  OBVIOUS

(* Contents is a sequence of bytes of length count. *)
LEMMA ContentsType ==
  ASSUME NEW r \in Ring
  PROVE  /\ Contents(r) \in Seq(Byte)
         /\ Len(Contents(r)) = r.count
         /\ \A i \in 1 .. r.count :
              Contents(r)[i] = r.data[(r.head + (i - 1)) % Size]
<1>1. r.count \in Nat /\ r.data \in [Index -> Byte] /\ r.head \in Nat
  BY SizeAssumption DEF Ring, Index
<1>2. \A i \in 1 .. r.count : (r.head + (i - 1)) % Size \in Index
  BY <1>1, SizeAssumption DEF Index
<1>3. \A i \in 1 .. r.count : r.data[(r.head + (i - 1)) % Size] \in Byte
  BY <1>1, <1>2
<1>4. Contents(r) \in [1 .. r.count -> Byte]
  BY <1>3 DEF Contents
<1>5. Contents(r) \in Seq(Byte) /\ Len(Contents(r)) = r.count
  BY <1>1, <1>4, FunctionIsSequence
<1>6. QED
  BY <1>5 DEF Contents

(* memcpy into the array: which cells change. *)
LEMMA CopyInCells ==
  ASSUME NEW cells \in [Index -> Byte], NEW at \in Index, NEW b \in Seq(Byte)
  PROVE  /\ CopyIn(cells, at, b) \in [Index -> Byte]
         /\ \A i \in Index : CopyIn(cells, at, b)[i] =
              IF i >= at /\ i < at + Len(b) THEN b[i - at + 1] ELSE cells[i]
<1>1. at \in Int /\ Len(b) \in Nat /\ \A i \in Index : i \in Int
  BY SizeAssumption DEF Index
<1>2. ASSUME NEW i \in Index, i >= at, i < at + Len(b)
      PROVE  b[i - at + 1] \in Byte
  <2>1. i - at + 1 \in 1 .. Len(b)
    BY <1>1, <1>2
  <2>2. QED
    BY <2>1
<1>3. QED
  BY <1>2 DEF CopyIn

(* The two halves of a packet that wraps around the end of the array. *)
LEMMA Halves ==
  ASSUME NEW p \in Seq(Byte), NEW k \in 1 .. Len(p)
  PROVE  /\ SubSeq(p, 1, k) \in Seq(Byte)
         /\ Len(SubSeq(p, 1, k)) = k
         /\ \A i \in 1 .. k : SubSeq(p, 1, k)[i] = p[i]
         /\ SubSeq(p, k + 1, Len(p)) \in Seq(Byte)
         /\ Len(SubSeq(p, k + 1, Len(p))) = Len(p) - k
         /\ \A i \in 1 .. Len(p) - k : SubSeq(p, k + 1, Len(p))[i] = p[k + i]
  OBVIOUS

(***************************************************************************)
(* The cells of a packet that goes around the end: those before the tail    *)
(* that it reaches, those it does not, and those from the tail on.          *)
(***************************************************************************)
LEMMA CellsAroundEnd ==
  ASSUME NEW i \in Nat, NEW tail \in Nat, NEW size \in Nat, NEW len \in Nat,
         NEW available \in Nat, available = size - tail,
         i < size, tail < size, len <= size, available <= len
  PROVE  /\ i < len - available
              => /\ i < tail /\ i + 1 \in 1 .. len - available
                 /\ i - tail + size < len
                 /\ i - tail + size + 1 = available + (i + 1)
         /\ i >= len - available /\ i < tail => ~ (i - tail + size < len)
         /\ i >= tail => i - tail + 1 \in 1 .. available /\ i - tail < len
         /\ i < tail + available /\ i - 0 + 1 = i + 1 /\ i >= 0
         /\ 0 + (len - available) = len - available
OBVIOUS

(***************************************************************************)
(* ring_buffer_write: the ring it leaves.  A cell at distance j from tail   *)
(* holds byte j+1 of the packet if j < Len(p), and is unchanged otherwise.  *)
(***************************************************************************)
LEMMA WrittenFields ==
  ASSUME NEW r \in Ring, NEW p \in Seq(Byte), Len(p) <= Size,
         r.count + Len(p) <= Size
  PROVE  /\ Written(r, p) \in Ring
         /\ Written(r, p).head = r.head
         /\ Written(r, p).tail = (r.tail + Len(p)) % Size
         /\ Written(r, p).count = r.count + Len(p)
         /\ \A i \in Index : Written(r, p).data[i] =
              LET j == IF i >= r.tail THEN i - r.tail ELSE i - r.tail + Size
              IN  IF j < Len(p) THEN p[j + 1] ELSE r.data[i]
<1> DEFINE len == Len(p)
           available == Size - r.tail
           w == Written(r, p)
           first == SubSeq(p, 1, available)
           rest == SubSeq(p, available + 1, len)
           once == CopyIn(r.data, r.tail, p)
           inner == CopyIn(r.data, r.tail, first)
           twice == CopyIn(inner, 0, rest)
           j(i) == IF i >= r.tail THEN i - r.tail ELSE i - r.tail + Size
<1>1. /\ r.data \in [Index -> Byte]
      /\ r.head \in Index /\ r.tail \in Index
      /\ r.count \in 0 .. Size
  BY DEF Ring
<1>2. /\ r.tail \in Int /\ 0 <= r.tail /\ r.tail < Size
      /\ Size \in Nat /\ len \in Nat /\ len <= Size
      /\ r.count + len \in 0 .. Size
      /\ \A i \in Index : i \in Int /\ 0 <= i /\ i < Size
  BY <1>1, SizeAssumption DEF Index
<1>3. CASE len <= available
  <2>1. w = [r EXCEPT !.data = once,
                      !.tail = (r.tail + len) % Size,
                      !.count = r.count + len]
    BY <1>3 DEF Written
  <2>2. /\ once \in [Index -> Byte]
        /\ \A i \in Index : once[i] =
             IF i >= r.tail /\ i < r.tail + len THEN p[i - r.tail + 1] ELSE r.data[i]
    BY <1>1, CopyInCells
  <2>3. (r.tail + len) % Size \in Index
    BY <1>1, <1>2, Advance
  <2>4. /\ w \in Ring /\ w.head = r.head /\ w.data = once
        /\ w.tail = (r.tail + len) % Size /\ w.count = r.count + len
    BY <1>1, <1>2, <2>1, <2>2, <2>3 DEF Ring
  <2>5. ASSUME NEW i \in Index
        PROVE  once[i] = IF j(i) < len THEN p[j(i) + 1] ELSE r.data[i]
    <3> HIDE DEF once, w, len
    <3>1. (i >= r.tail /\ i < r.tail + len) <=> j(i) < len
      BY <1>2, <1>3
    <3>2. j(i) < len => j(i) = i - r.tail
      BY <1>2, <1>3
    <3>3. QED
      BY <2>2, <3>1, <3>2 DEF len
  <2>6. QED
    BY <2>4, <2>5
<1>4. CASE ~ (len <= available)
  <2>1. w = [r EXCEPT !.data = twice,
                      !.tail = len - available,
                      !.count = r.count + len]
    BY <1>4 DEF Written
  <2>2. available \in 1 .. len /\ 0 \in Index
    BY <1>2, <1>4 DEF Index
  <2>3. /\ first \in Seq(Byte) /\ Len(first) = available
        /\ \A i \in 1 .. available : first[i] = p[i]
        /\ rest \in Seq(Byte) /\ Len(rest) = len - available
        /\ \A i \in 1 .. len - available : rest[i] = p[available + i]
    BY <2>2, Halves
  <2>4. /\ inner \in [Index -> Byte]
        /\ \A i \in Index : inner[i] =
             IF i >= r.tail /\ i < r.tail + Len(first)
               THEN first[i - r.tail + 1] ELSE r.data[i]
    <3> HIDE DEF first
    <3>1. QED
      BY <1>1, <2>3, CopyInCells
  <2>5. /\ twice \in [Index -> Byte]
        /\ \A i \in Index : twice[i] =
             IF i >= 0 /\ i < 0 + Len(rest) THEN rest[i - 0 + 1] ELSE inner[i]
    <3> HIDE DEF inner, rest
    <3>1. QED
      BY <2>2, <2>3, <2>4, CopyInCells
  <2>6. len - available = (r.tail + len) % Size /\ len - available \in Index
    <3>1. /\ (r.tail + len) % Size =
               IF len < Size - r.tail THEN r.tail + len ELSE len - (Size - r.tail)
          /\ (r.tail + len) % Size \in Index
      <4> HIDE DEF len
      <4>1. len \in 0 .. Size
        BY <1>2
      <4>2. QED
        BY <1>1, <4>1, Advance
    <3>2. available = Size - r.tail
      OBVIOUS
    <3> HIDE DEF len, available
    <3>3. available \in Int /\ len \in Int /\ ~ (len < available)
      BY <1>2, <1>4, <3>2
    <3>4. QED
      BY <3>1, <3>2, <3>3
  <2>7. /\ w \in Ring /\ w.head = r.head /\ w.data = twice
        /\ w.tail = (r.tail + len) % Size /\ w.count = r.count + len
    BY <1>1, <1>2, <2>1, <2>5, <2>6 DEF Ring
  <2>8. ASSUME NEW i \in Index
        PROVE  twice[i] = IF j(i) < len THEN p[j(i) + 1] ELSE r.data[i]
    <3> HIDE DEF twice, inner, w, len, available, first, rest
    <3>0. /\ available = Size - r.tail /\ available \in Nat
          /\ len \in Nat /\ i \in Nat /\ i < Size /\ len <= Size
          /\ r.tail \in Nat /\ r.tail < Size /\ Size \in Nat
          /\ Len(rest) = len - available /\ Len(first) = available
      BY <1>2, <2>2, <2>3 DEF available
    <3>7. /\ i < len - available
               => /\ i < r.tail /\ i + 1 \in 1 .. len - available
                  /\ i - r.tail + Size < len
                  /\ i - r.tail + Size + 1 = available + (i + 1)
          /\ i >= len - available /\ i < r.tail => ~ (i - r.tail + Size < len)
          /\ i >= r.tail => i - r.tail + 1 \in 1 .. available /\ i - r.tail < len
          /\ i < r.tail + available /\ i - 0 + 1 = i + 1 /\ i >= 0
          /\ 0 + (len - available) = len - available
      <4>1. available <= len
        BY <1>2, <1>4, <3>0
      <4> DEFINE t == r.tail
                 n == Size
      <4>2. /\ i \in Nat /\ t \in Nat /\ n \in Nat /\ len \in Nat /\ available \in Nat
            /\ available = n - t /\ i < n /\ t < n /\ len <= n
        BY <3>0
      <4>3. r.tail = t /\ Size = n
        OBVIOUS
      <4> HIDE DEF t, n
      <4>4. QED
        BY <4>1, <4>2, <4>3, CellsAroundEnd
    <3>1. /\ i < len - available => twice[i] = rest[i + 1]
          /\ ~ (i < len - available) => twice[i] = inner[i]
      <4>1. twice[i] = IF i >= 0 /\ i < 0 + Len(rest)
                         THEN rest[i - 0 + 1] ELSE inner[i]
        BY <2>5
      <4>2. i >= 0 /\ 0 + Len(rest) = len - available /\ i - 0 + 1 = i + 1
        BY <3>0, <3>7
      <4> HIDE DEF len
      <4>3. QED
        BY <4>1, <4>2, Zenon
    <3>2. /\ i >= r.tail => inner[i] = first[i - r.tail + 1]
          /\ ~ (i >= r.tail) => inner[i] = r.data[i]
      <4>1. inner[i] = IF i >= r.tail /\ i < r.tail + Len(first)
                         THEN first[i - r.tail + 1] ELSE r.data[i]
        BY <2>4
      <4>2. i < r.tail + Len(first)
        BY <3>0, <3>7
      <4>3. QED
        BY <4>1, <4>2, Zenon
    <3>3. CASE i < len - available
      <4>1. twice[i] = p[available + (i + 1)]
        BY <2>3, <3>1, <3>3, <3>7
      <4>2. j(i) = i - r.tail + Size
        BY <3>0, <3>3, <3>7, SMTT(30)
      <4>3. QED
        BY <3>3, <3>7, <4>1, <4>2
    <3>4. CASE i >= len - available /\ i < r.tail
      <4>1. j(i) = i - r.tail + Size /\ ~ (i < len - available) /\ ~ (i >= r.tail)
        BY <3>0, <3>4
      <4>2. ~ (j(i) < len)
        BY <3>4, <3>7, <4>1
      <4>3. QED
        BY <3>1, <3>2, <4>1, <4>2
    <3>5. CASE i >= len - available /\ i >= r.tail
      <4>1. ~ (i < len - available)
        BY <3>0, <3>5
      <4>2. j(i) = i - r.tail /\ j(i) < len
        BY <3>5, <3>7
      <4>3. first[i - r.tail + 1] = p[i - r.tail + 1]
        BY <2>3, <3>5, <3>7
      <4>4. QED
        BY <3>1, <3>2, <3>5, <4>1, <4>2, <4>3
    <3>6. QED
      BY <3>0, <3>3, <3>4, <3>5
  <2>9. QED
    BY <2>7, <2>8
<1>5. QED
  BY <1>3, <1>4

(* The distance, going up, from the cell c places after h to the cell m     *)
(* places after h.                                                          *)
LEMMA Distance ==
  ASSUME NEW h \in Index, NEW c \in 0 .. Size, NEW m \in 0 .. Size - 1,
         NEW t, t = (h + c) % Size,
         NEW i, i = (h + m) % Size
  PROVE  /\ i \in Index /\ t \in Index
         /\ (IF i >= t THEN i - t ELSE i - t + Size) =
               (IF m >= c THEN m - c ELSE m - c + Size)
<1>1. /\ t = (IF c < Size - h THEN h + c ELSE c - (Size - h)) /\ t \in Index
  BY Advance
<1>2. m \in 0 .. Size
  BY SizeAssumption
<1>3. /\ i = (IF m < Size - h THEN h + m ELSE m - (Size - h)) /\ i \in Index
  BY <1>2, Advance
<1>4. /\ h \in Int /\ 0 <= h /\ h < Size /\ Size \in Int
      /\ c \in Int /\ 0 <= c /\ c <= Size
      /\ m \in Int /\ 0 <= m /\ m < Size
  BY SizeAssumption DEF Index
<1>5. i \in Int /\ t \in Int
  BY <1>1, <1>3 DEF Index
<1>6. (IF i >= t THEN i - t ELSE i - t + Size) =
        (IF m >= c THEN m - c ELSE m - c + Size)
  <2>1. CASE c < Size - h /\ m < Size - h
    BY <1>1, <1>3, <1>4, <1>5, <2>1
  <2>2. CASE c < Size - h /\ ~ (m < Size - h)
    BY <1>1, <1>3, <1>4, <1>5, <2>2
  <2>3. CASE ~ (c < Size - h) /\ m < Size - h
    BY <1>1, <1>3, <1>4, <1>5, <2>3
  <2>4. CASE ~ (c < Size - h) /\ ~ (m < Size - h)
    BY <1>1, <1>3, <1>4, <1>5, <2>4
  <2>5. QED
    BY <2>1, <2>2, <2>3, <2>4
<1>7. QED
  BY <1>1, <1>3, <1>6

(* ring_buffer_write appends the packet to the contents of a coherent ring, *)
(* and leaves it coherent.                                                  *)
LEMMA WrittenContents ==
  ASSUME NEW r \in Ring, Coherent(r), NEW p \in Seq(Byte), Len(p) <= Size,
         r.count + Len(p) <= Size
  PROVE  /\ Written(r, p) \in Ring
         /\ Coherent(Written(r, p))
         /\ Contents(Written(r, p)) = Contents(r) \o p
<1> DEFINE w == Written(r, p)
           len == Len(p)
           j(i) == IF i >= r.tail THEN i - r.tail ELSE i - r.tail + Size
<1>1. /\ w \in Ring /\ w.head = r.head
      /\ w.tail = (r.tail + len) % Size /\ w.count = r.count + len
      /\ \A i \in Index : w.data[i] = IF j(i) < len THEN p[j(i) + 1] ELSE r.data[i]
  BY WrittenFields
<1>2. /\ r.head \in Index /\ r.count \in 0 .. Size /\ r.count \in Nat
      /\ len \in Nat /\ Size \in Nat /\ r.count + len <= Size
  BY SizeAssumption DEF Ring
<1>3. r.tail = (r.head + r.count) % Size
  BY DEF Coherent
<1> HIDE DEF w
<1>4. Coherent(w)
  <2>1. (((r.head + r.count) % Size) + len) % Size = (r.head + (r.count + len)) % Size
    BY <1>2, AdvanceTwice
  <2>2. QED
    BY <1>1, <1>3, <2>1 DEF Coherent
<1>5. /\ Contents(w) \in Seq(Byte) /\ Len(Contents(w)) = r.count + len
      /\ \A k \in 1 .. r.count + len : Contents(w)[k] = w.data[(r.head + (k - 1)) % Size]
  BY <1>1, ContentsType
<1>6. /\ Contents(r) \in Seq(Byte) /\ Len(Contents(r)) = r.count
      /\ \A k \in 1 .. r.count : Contents(r)[k] = r.data[(r.head + (k - 1)) % Size]
  BY ContentsType
<1>7. ASSUME NEW k \in 1 .. r.count + len
      PROVE  Contents(w)[k] = IF k <= r.count THEN Contents(r)[k] ELSE p[k - r.count]
  <2> DEFINE i == (r.head + (k - 1)) % Size
             d == j(i)
  <2>1. k - 1 \in 0 .. Size - 1
    BY <1>2
  <2>2. /\ i \in Index
        /\ d = IF k - 1 >= r.count THEN (k - 1) - r.count ELSE (k - 1) - r.count + Size
    BY <1>2, <1>3, <2>1, Distance, SMTT(30)
  <2>3. w.data[i] = IF d < len THEN p[d + 1] ELSE r.data[i]
    BY <1>1, <2>2
  <2>4. Contents(w)[k] = w.data[i]
    BY <1>5
  <2> HIDE DEF i, d, len
  <2>5. CASE k <= r.count
    <3>1. ~ (d < len)
      BY <1>2, <2>2, <2>5
    <3>2. Contents(r)[k] = r.data[i]
      BY <1>2, <1>6, <2>5 DEF i
    <3>3. QED
      BY <2>3, <2>4, <2>5, <3>1, <3>2
  <2>6. CASE k > r.count
    <3>1. d < len /\ d + 1 = k - r.count
      BY <1>2, <2>2, <2>6
    <3>2. ~ (k <= r.count)
      BY <1>2, <2>6
    <3>3. QED
      BY <2>3, <2>4, <3>1, <3>2
  <2>7. QED
    BY <1>2, <2>5, <2>6
<1> DEFINE s == Contents(r)
           c == Contents(w)
<1>8. s \in Seq(Byte) /\ Len(s) = r.count /\ c \in Seq(Byte) /\ Len(c) = r.count + len
  BY <1>5, <1>6
<1>9. \A k \in 1 .. Len(s) + Len(p) :
         c[k] = IF k <= Len(s) THEN s[k] ELSE p[k - Len(s)]
  BY <1>7, <1>8
<1> HIDE DEF s, c
<1>10. c = s \o p
  <2>1. /\ s \o p \in Seq(Byte) /\ Len(s \o p) = Len(s) + Len(p)
        /\ \A k \in 1 .. Len(s) + Len(p) : (s \o p)[k] =
             IF k <= Len(s) THEN s[k] ELSE p[k - Len(s)]
    BY <1>8, ConcatProperties
  <2>2. Len(c) = Len(s \o p)
    BY <1>8, <2>1
  <2>3. \A k \in 1 .. Len(c) : c[k] = (s \o p)[k]
    BY <1>8, <1>9, <2>1, <2>2
  <2>4. QED
    BY <1>8, <2>1, <2>2, <2>3, SeqEqual
<1>11. QED
  BY <1>1, <1>4, <1>10 DEF s, c, w

(***************************************************************************)
(* ring_buffer_read.                                                       *)
(***************************************************************************)

(* The bytes read are the oldest len bytes of the contents.                 *)
LEMMA ReadBytesPrefix ==
  ASSUME NEW r \in Ring, NEW len \in 1 .. r.count
  PROVE  /\ ReadBytes(r, len) \in Seq(Byte)
         /\ ReadBytes(r, len) = SubSeq(Contents(r), 1, len)
<1> DEFINE available == Size - r.head
           b == ReadBytes(r, len)
           s == Contents(r)
<1>1. /\ r.data \in [Index -> Byte] /\ r.head \in Index /\ r.count \in 0 .. Size
      /\ r.head \in Int /\ 0 <= r.head /\ r.head < Size /\ Size \in Nat
      /\ len \in Nat /\ 1 <= len /\ len <= r.count /\ r.count \in Nat
  BY SizeAssumption DEF Ring, Index
<1>2. /\ s \in Seq(Byte) /\ Len(s) = r.count
      /\ \A k \in 1 .. r.count : s[k] = r.data[(r.head + (k - 1)) % Size]
  BY ContentsType
<1>3. ASSUME NEW k \in 1 .. len
      PROVE  s[k] = IF k <= available THEN r.data[r.head + k - 1]
                                      ELSE r.data[0 + (k - available) - 1]
  <2>1. k - 1 \in 0 .. Size /\ k \in 1 .. r.count
    BY <1>1
  <2>2. (r.head + (k - 1)) % Size =
          IF k - 1 < Size - r.head THEN r.head + (k - 1) ELSE (k - 1) - (Size - r.head)
    BY <1>1, <2>1, Advance
  <2>3. s[k] = r.data[(r.head + (k - 1)) % Size]
    BY <1>2, <2>1
  <2> HIDE DEF s
  <2>4. CASE k <= available
    <3>1. k - 1 < Size - r.head /\ r.head + (k - 1) = r.head + k - 1
      BY <1>1, <2>4
    <3>2. QED
      BY <2>2, <2>3, <2>4, <3>1
  <2>5. CASE ~ (k <= available)
    <3>1. /\ ~ (k - 1 < Size - r.head)
          /\ (k - 1) - (Size - r.head) = 0 + (k - available) - 1
      BY <1>1, <2>5
    <3>2. QED
      BY <2>2, <2>3, <2>5, <3>1
  <2>6. QED
    BY <2>4, <2>5
<1>4. \A k \in 1 .. len : s[k] \in Byte
  BY <1>1, <1>2
<1>5. /\ SubSeq(s, 1, len) \in Seq(Byte) /\ Len(SubSeq(s, 1, len)) = len
      /\ \A k \in 1 .. len : SubSeq(s, 1, len)[k] = s[k]
  <2> HIDE DEF s
  <2>1. len \in 1 .. Len(s)
    BY <1>1, <1>2
  <2>2. QED
    BY <1>2, <2>1, Halves
<1> HIDE DEF s
<1>6. CASE len <= available
  <2>1. b = CopyOut(r.data, r.head, len)
    BY <1>6 DEF ReadBytes
  <2>2. \A k \in 1 .. len : k <= available
    BY <1>1, <1>6
  <2>3. \A k \in 1 .. len : r.data[r.head + k - 1] = s[k]
    BY <1>3, <2>2
  <2>4. b = [k \in 1 .. len |-> r.data[r.head + k - 1]]
    BY <2>1 DEF CopyOut
  <2> HIDE DEF b, available
  <2>5. b \in [1 .. len -> Byte] /\ \A k \in 1 .. len : b[k] = s[k]
    BY <1>4, <2>3, <2>4
  <2>6. b \in Seq(Byte) /\ Len(b) = len
    BY <1>1, <2>5, FunctionIsSequence
  <2>7. b = SubSeq(s, 1, len)
    BY <1>5, <2>5, <2>6, SeqEqual
  <2>8. QED
    BY <2>6, <2>7 DEF b, s
<1>7. CASE ~ (len <= available)
  <2> DEFINE low == CopyOut(r.data, r.head, available)
             high == CopyOut(r.data, 0, len - available)
  <2>1. b = low \o high
    BY <1>7 DEF ReadBytes
  <2>2. available \in Nat /\ len - available \in Nat /\ available < len
    BY <1>1, <1>7
  <2> HIDE DEF b, available
  <2>3. \A k \in 1 .. available : k \in 1 .. len /\ k <= available
    BY <1>1, <2>2
  <2>4. \A k \in 1 .. len - available :
          /\ k + available \in 1 .. len /\ ~ (k + available <= available)
          /\ (k + available) - available = k
    BY <1>1, <2>2
  <2>5. \A k \in 1 .. available : r.data[r.head + k - 1] = s[k]
    BY <1>3, <2>3
  <2>6. \A k \in 1 .. len - available : r.data[0 + k - 1] = s[k + available]
    BY <1>3, <2>4
  <2>7. low = [k \in 1 .. available |-> r.data[r.head + k - 1]]
    BY DEF CopyOut
  <2>8. high = [k \in 1 .. len - available |-> r.data[0 + k - 1]]
    BY DEF CopyOut
  <2> HIDE DEF low, high
  <2>9. low \in [1 .. available -> Byte] /\ \A k \in 1 .. available : low[k] = s[k]
    BY <1>4, <2>3, <2>5, <2>7
  <2>10. /\ high \in [1 .. len - available -> Byte]
         /\ \A k \in 1 .. len - available : high[k] = s[k + available]
    BY <1>4, <2>4, <2>6, <2>8
  <2>11. low \in Seq(Byte) /\ Len(low) = available
    BY <2>2, <2>9, FunctionIsSequence
  <2>12. high \in Seq(Byte) /\ Len(high) = len - available
    BY <2>2, <2>10, FunctionIsSequence
  <2>13. /\ b \in Seq(Byte) /\ Len(b) = available + (len - available)
         /\ \A k \in 1 .. available + (len - available) :
              b[k] = IF k <= available THEN low[k] ELSE high[k - available]
    BY <2>1, <2>11, <2>12, ConcatProperties
  <2>14. Len(b) = len
    BY <1>1, <2>2, <2>13
  <2>15. ASSUME NEW k \in 1 .. len
         PROVE  b[k] = s[k]
    <3>1. k \in Int /\ available + (len - available) = len
      BY <1>1, <2>2
    <3>2. b[k] = IF k <= available THEN low[k] ELSE high[k - available]
      BY <2>13, <3>1
    <3>3. k <= available => k \in 1 .. available
      BY <3>1
    <3>4. ~ (k <= available) =>
            k - available \in 1 .. len - available /\ (k - available) + available = k
      BY <1>1, <2>2, <3>1
    <3>5. QED
      BY <2>9, <2>10, <3>2, <3>3, <3>4
  <2>16. b = SubSeq(s, 1, len)
    BY <1>5, <2>13, <2>14, <2>15, SeqEqual
  <2>17. QED
    BY <2>13, <2>16 DEF b, s
<1>8. QED
  BY <1>6, <1>7

(* What stays is the rest of the contents, in a coherent ring.              *)
LEMMA AfterReadContents ==
  ASSUME NEW r \in Ring, Coherent(r), NEW len \in 1 .. r.count
  PROVE  /\ AfterRead(r, len) \in Ring
         /\ Coherent(AfterRead(r, len))
         /\ Contents(AfterRead(r, len)) = SubSeq(Contents(r), len + 1, r.count)
<1> DEFINE a == AfterRead(r, len)
           s == Contents(r)
           c == Contents(a)
           h == (r.head + len) % Size
           n == r.count - len
<1>1. /\ r.head \in Index /\ r.count \in 0 .. Size /\ r.head \in Int
      /\ Size \in Nat /\ len \in Nat /\ len \in 0 .. Size /\ r.count \in Nat
      /\ n \in Nat /\ n \in 0 .. Size /\ len + n = r.count
  BY SizeAssumption DEF Ring, Index
<1>2. /\ h = (IF len < Size - r.head THEN r.head + len ELSE len - (Size - r.head))
      /\ h \in Index
  BY <1>1, Advance
<1>3. a = [r EXCEPT !.head = h, !.count = n]
  <2>1. h = IF len <= Size - r.head THEN (r.head + len) % Size
                                    ELSE len - (Size - r.head)
    <3> HIDE DEF h
    <3>1. ~ (len <= Size - r.head) => ~ (len < Size - r.head)
      BY <1>1
    <3>2. ~ (len <= Size - r.head) => h = len - (Size - r.head)
      BY <1>2, <3>1
    <3>3. h = (r.head + len) % Size
      BY DEF h
    <3>4. QED
      BY <3>2, <3>3
  <2>2. QED
    BY <2>1 DEF AfterRead
<1> HIDE DEF a, h, n
<1>4. /\ a \in Ring /\ a.head = h /\ a.count = n
      /\ a.data = r.data /\ a.tail = r.tail
  BY <1>1, <1>2, <1>3 DEF Ring
<1>5. Coherent(a)
  <2>1. (((r.head + len) % Size) + n) % Size = (r.head + (len + n)) % Size
    BY <1>1, AdvanceTwice
  <2>2. QED
    BY <1>1, <1>4, <2>1 DEF Coherent, h
<1>6. /\ s \in Seq(Byte) /\ Len(s) = r.count
      /\ \A k \in 1 .. r.count : s[k] = r.data[(r.head + (k - 1)) % Size]
  BY ContentsType
<1>7. /\ c \in Seq(Byte) /\ Len(c) = n
      /\ \A k \in 1 .. n : c[k] = r.data[(h + (k - 1)) % Size]
  BY <1>4, ContentsType
<1> HIDE DEF s, c
<1>8. ASSUME NEW k \in 1 .. n
      PROVE  c[k] = s[len + k]
  <2>1. /\ k - 1 \in Nat /\ len + (k - 1) <= Size
        /\ len + k \in 1 .. r.count /\ (len + k) - 1 = len + (k - 1)
    BY <1>1
  <2>2. (((r.head + len) % Size) + (k - 1)) % Size = (r.head + (len + (k - 1))) % Size
    BY <1>1, <2>1, AdvanceTwice
  <2>3. s[len + k] = r.data[(r.head + ((len + k) - 1)) % Size]
    BY <1>6, <2>1
  <2>4. QED
    BY <1>7, <2>1, <2>2, <2>3 DEF h
<1>9. /\ SubSeq(s, len + 1, r.count) \in Seq(Byte)
      /\ Len(SubSeq(s, len + 1, r.count)) = n
      /\ \A k \in 1 .. n : SubSeq(s, len + 1, r.count)[k] = s[len + k]
  <2>1. len \in 1 .. Len(s) /\ Len(s) - len = n
    BY <1>1, <1>6
  <2>2. QED
    BY <1>6, <2>1, Halves
<1>10. c = SubSeq(s, len + 1, r.count)
  BY <1>7, <1>8, <1>9, SeqEqual
<1>11. QED
  BY <1>4, <1>5, <1>10 DEF a, c, s

(* ring_buffer_init leaves a coherent ring without contents.                *)
LEMMA EmptyRingContents ==
  EmptyRing \in Ring /\ Coherent(EmptyRing) /\ Contents(EmptyRing) = <<>>
<1>1. EmptyRing \in Ring
  BY SizeAssumption, ByteAssumption DEF EmptyRing, Ring, Index
<1>2. EmptyRing.count = 0 /\ EmptyRing.head = 0 /\ EmptyRing.tail = 0
  BY DEF EmptyRing
<1>3. Coherent(EmptyRing)
  <2>1. (0 + 0) % Size = 0
    BY SizeAssumption
  <2>2. QED
    BY <1>2, <2>1 DEF Coherent
<1>4. Contents(EmptyRing) \in Seq(Byte) /\ Len(Contents(EmptyRing)) = 0
  BY <1>1, <1>2, ContentsType
<1>5. QED
  BY <1>1, <1>3, <1>4, EmptySeq

(* ring_buffer_read returns between 1 and count bytes of a non-empty ring.  *)
LEMMA ReadLenBounds ==
  ASSUME NEW r \in Ring, r.count # 0
  PROVE  ReadLen(r, MaxRead) \in 1 .. r.count
BY SizeAssumption, MaxReadAssumption DEF Ring, ReadLen

(***************************************************************************)
(* The two threads.  The invariants the runs check are inductive together. *)
(***************************************************************************)
RingInv == RingTypeOK /\ RingCoherent /\ NoLostWakeup

(* The argument of a call fits an empty ring.                               *)
LEMMA PendingType ==
  ASSUME RingTypeOK
  PROVE  pending \in Seq(Byte) /\ Len(pending) <= Size /\ Len(pending) \in Nat
<1>1. CASE pending \in Packets
  BY <1>1, PacketsAssumption, SizeAssumption
<1>2. CASE pending = <<>>
  BY <1>2, SizeAssumption
<1>3. QED
  BY <1>1, <1>2 DEF RingTypeOK

(* A Write step.                                                            *)
LEMMA WriteStep ==
  ASSUME RingInv, Write
  PROVE  /\ rb' \in Ring /\ Coherent(rb')
         /\ Contents(rb') = Contents(rb) \o pending
         /\ rb.count + Len(pending) <= Size
BY PendingType, WrittenContents
   DEF RingInv, RingTypeOK, RingCoherent, Write, Fits

(* A Read step.                                                             *)
LEMMA ReadStep ==
  ASSUME RingInv, Read
  PROVE  LET len == ReadLen(rb, MaxRead)
         IN  /\ len \in 1 .. rb.count
             /\ rb' \in Ring /\ Coherent(rb')
             /\ buffer' \in Seq(Byte)
             /\ buffer' = SubSeq(Contents(rb), 1, len)
             /\ Contents(rb') = SubSeq(Contents(rb), len + 1, rb.count)
<1> DEFINE len == ReadLen(rb, MaxRead)
<1>1. /\ rb \in Ring /\ Coherent(rb) /\ rb.count # 0
      /\ buffer' = ReadBytes(rb, len) /\ rb' = AfterRead(rb, len)
  BY DEF RingInv, RingTypeOK, RingCoherent, Read
<1>2. len \in 1 .. rb.count
  BY <1>1, ReadLenBounds
<1> HIDE DEF len
<1>3. /\ ReadBytes(rb, len) \in Seq(Byte)
      /\ ReadBytes(rb, len) = SubSeq(Contents(rb), 1, len)
  BY <1>1, <1>2, ReadBytesPrefix
<1>4. /\ AfterRead(rb, len) \in Ring
      /\ Coherent(AfterRead(rb, len))
      /\ Contents(AfterRead(rb, len)) = SubSeq(Contents(rb), len + 1, rb.count)
  BY <1>1, <1>2, AfterReadContents
<1>5. QED
  BY <1>1, <1>2, <1>3, <1>4 DEF len

LEMMA RingInvInit == RingInit => RingInv
BY EmptyRingContents
   DEF RingInit, RingInv, RingTypeOK, RingCoherent, NoLostWakeup

LEMMA RingInvNext == RingInv /\ [RingNext]_ringVars => RingInv'
<1> SUFFICES ASSUME RingInv, [RingNext]_ringVars
             PROVE  RingInv'
  OBVIOUS
<1> USE DEF RingInv, RingTypeOK, RingCoherent, NoLostWakeup
<1>1. ASSUME NEW p \in Packets, WriteCall(p)
      PROVE  RingInv'
  BY <1>1 DEF WriteCall
<1>2. CASE Write
  <2>1. rb' \in Ring /\ Coherent(rb')
    BY <1>2, WriteStep
  <2>2. QED
    BY <1>2, <2>1 DEF Write
<1>3. CASE WriteWait
  BY <1>3 DEF WriteWait
<1>4. CASE WriteExpire
  BY <1>4 DEF WriteExpire
<1>5. CASE WriteTimeout
  BY <1>5 DEF WriteTimeout
<1>6. CASE WriteSpurious
  BY <1>6 DEF WriteSpurious
<1>7. CASE ReadCall
  BY <1>7 DEF ReadCall
<1>8. CASE Read
  <2>1. rb' \in Ring /\ Coherent(rb') /\ buffer' \in Seq(Byte)
    BY <1>8, ReadStep
  <2>2. QED
    BY <1>8, <2>1 DEF Read
<1>9. CASE ReadWait
  BY <1>9 DEF ReadWait
<1>10. CASE ReadSpurious
  BY <1>10 DEF ReadSpurious
<1>11. CASE UNCHANGED ringVars
  BY <1>11 DEF ringVars
<1>12. QED
  BY <1>1, <1>2, <1>3, <1>4, <1>5, <1>6, <1>7, <1>8, <1>9, <1>10, <1>11
     DEF RingNext

(* RingInv, the inductive invariant of the ring buffer: types, indices that *)
(* agree with count, and no thread asleep on a condition that holds         *)
(* (recv_thr.c:22-62, writer_thr.c:11-37).                                  *)
THEOREM RingInvariance == RingSafety => []RingInv
<1>1. RingInit => RingInv
  BY RingInvInit
<1>2. RingInv /\ [RingNext]_ringVars => RingInv'
  BY RingInvNext
<1>3. QED
  BY <1>1, <1>2, PTL DEF RingSafety

(* Type correctness of the two-threaded ring buffer, of any capacity.       *)
THEOREM RingTypeCorrect == RingSafety => []RingTypeOK
BY RingInvariance, PTL DEF RingInv

(* head, tail and count always agree, however the writes and reads wrap.    *)
THEOREM RingStaysCoherent == RingSafety => []RingCoherent
BY RingInvariance, PTL DEF RingInv

(* No thread sleeps on a condition that holds.                              *)
THEOREM RingLosesNoWakeup == RingSafety => []NoLostWakeup
BY RingInvariance, PTL DEF RingInv

(***************************************************************************)
(* The ring buffer implements the byte queue.                              *)
(***************************************************************************)
LEMMA QueueInit == RingInit => Queue!Init
BY EmptyRingContents DEF RingInit, Queue!Init

LEMMA QueueStep ==
  RingInv /\ [RingNext]_ringVars => [Queue!Next]_(Queue!vars)
<1> SUFFICES ASSUME RingInv, [RingNext]_ringVars
             PROVE  [Queue!Next]_(Queue!vars)
  OBVIOUS
<1>1. rb \in Ring
  BY DEF RingInv, RingTypeOK
<1>2. Contents(rb) \in Seq(Byte) /\ Len(Contents(rb)) = rb.count
  BY <1>1, ContentsType
<1>3. CASE Write
  <2>1. /\ Contents(rb') = Contents(rb) \o pending
        /\ Len(Contents(rb)) + Len(pending) <= Size
    BY <1>2, <1>3, WriteStep
  <2>2. pending \in Packets \/ pending = <<>>
    BY DEF RingInv, RingTypeOK
  <2>3. CASE pending \in Packets
    BY <1>3, <2>1, <2>3 DEF Write, Queue!Next, Queue!Accept
  <2>4. CASE pending = <<>>
    <3>1. Contents(rb) \o pending = Contents(rb)
      BY <1>2, <2>4, ConcatEmptySeq
    <3>2. QED
      BY <1>3, <2>1, <3>1 DEF Write, Queue!vars
  <2>5. QED
    BY <2>2, <2>3, <2>4
<1>4. CASE Read
  <2> DEFINE len == ReadLen(rb, MaxRead)
  <2>1. /\ len \in 1 .. rb.count
        /\ buffer' = SubSeq(Contents(rb), 1, len)
        /\ Contents(rb') = SubSeq(Contents(rb), len + 1, rb.count)
    BY <1>4, ReadStep
  <2>2. len = IF Len(Contents(rb)) < MaxRead THEN Len(Contents(rb)) ELSE MaxRead
    BY <1>2 DEF ReadLen
  <2>3. Contents(rb) # <<>>
    BY <1>1, <1>2, <1>4 DEF Read
  <2> HIDE DEF len
  <2>4. Queue!Take
    BY <1>2, <2>1, <2>2, <2>3 DEF Queue!Take
  <2>5. QED
    BY <2>4 DEF Queue!Next
<1>5. CASE UNCHANGED <<rb, buffer>>
  BY <1>5 DEF Queue!vars
<1>6. QED
  BY <1>3, <1>4, <1>5
     DEF RingNext, ringVars, WriteCall, WriteWait, WriteExpire, WriteTimeout,
         WriteSpurious, ReadCall, ReadWait, ReadSpurious

(* Every behaviour of the two threads is one of a bounded FIFO queue of     *)
(* bytes: packets enter whole or not at all, no byte is lost, duplicated or *)
(* reordered between ring_buffer_write and ring_buffer_read.                *)
THEOREM RingImplementsQueue == RingSafety => QueueSafety
<1>1. RingInit => Queue!Init
  BY QueueInit
<1>2. RingInv /\ [RingNext]_ringVars => [Queue!Next]_(Queue!vars)
  BY QueueStep
<1>3. QED
  BY <1>1, <1>2, RingInvariance, PTL DEF RingSafety, QueueSafety, Queue!Safety

=============================================================================
