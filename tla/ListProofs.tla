----------------------------- MODULE ListProofs -----------------------------
(***************************************************************************)
(* Proofs about the list of channels, for any list: what the server's      *)
(* encoder lays into the packet, and that the client reads the same list   *)
(* out of it.  Offset and Laid are recursive functions; what is said of    *)
(* them is proved by induction over the entries, in the form of lemmas     *)
(* about sets of numbers.                                                  *)
(***************************************************************************)
EXTENDS ChannelList, SequenceTheorems, WellFoundedInduction, TLAPS

(***************************************************************************)
(* Induction                                                               *)
(***************************************************************************)

(* A set of natural numbers has a least one.                                *)
LEMMA LeastNat ==
  ASSUME NEW T \in SUBSET Nat, T # {}
  PROVE  \E m \in T : \A k \in T : m <= k
<1>1. PICK m \in T : \A k \in T : ~ (<<k, m>> \in OpToRel(<, Nat))
  BY WFMin, NatLessThanWellFounded, Zenon
<1>2. ASSUME NEW k \in T, k < m
      PROVE  FALSE
  <2>1. <<k, m>> \in Nat \X Nat /\ <<k, m>>[1] < <<k, m>>[2]
    BY <1>2
  <2>2. <<k, m>> \in OpToRel(<, Nat)
    BY <2>1, Zenon DEF OpToRel
  <2>3. QED
    BY <1>1, <2>2
<1>3. QED
  BY <1>2

(* Induction up to n, the property being membership in a set.               *)
LEMMA SetInduction ==
  ASSUME NEW n \in Nat, NEW S, 0 \in S, \A i \in 0 .. n - 1 : i \in S => i + 1 \in S
  PROVE  0 .. n \subseteq S
<1> DEFINE T == (0 .. n) \ S
<1>1. SUFFICES ASSUME T # {} PROVE FALSE
  OBVIOUS
<1>2. T \in SUBSET Nat
  OBVIOUS
<1>3. PICK m \in T : \A k \in T : m <= k
  <2> HIDE DEF T
  <2>1. QED
    BY <1>1, <1>2, LeastNat
<1>4. m - 1 \in 0 .. n - 1 /\ m - 1 \in S
  BY <1>3
<1>5. QED
  BY <1>3, <1>4

(* f is c at 0, and h[i] leads from one value to the next; f[i] is in T[i].  *)
Recursion(f, n, T, c, h) ==
  /\ f = [i \in 0 .. n |-> IF i = 0 THEN c ELSE h[i][f[i - 1]]]
  /\ \A i \in 0 .. n : f[i] \in T[i]

(* There is a function for a recursive definition, if each step leads from  *)
(* one of the sets to the next.                                             *)
LEMMA RecursionExists ==
  ASSUME NEW n \in Nat, NEW T, NEW c \in T[0], NEW h,
         \A i \in 1 .. n : h[i] \in [T[i - 1] -> T[i]]
  PROVE  \E f : Recursion(f, n, T, c, h)
<1> DEFINE Rec(f, m) == /\ f = [i \in 0 .. m |-> IF i = 0 THEN c ELSE h[i][f[i - 1]]]
                        /\ \A i \in 0 .. m : f[i] \in T[i]
           S == {m \in 0 .. n : \E f : Rec(f, m)}
<1>1. 0 \in S
  <2> DEFINE f == [i \in 0 .. 0 |-> c]
  <2>1. f = [i \in 0 .. 0 |-> IF i = 0 THEN c ELSE h[i][f[i - 1]]]
    OBVIOUS
  <2>2. \A i \in 0 .. 0 : f[i] \in T[i]
    OBVIOUS
  <2>3. Rec(f, 0)
    BY <2>1, <2>2
  <2> HIDE DEF f
  <2>4. QED
    BY <2>3
<1>2. ASSUME NEW m \in 0 .. n - 1, m \in S
      PROVE  m + 1 \in S
  <2>1. PICK f : Rec(f, m)
    BY <1>2
  <2> DEFINE g == [i \in 0 .. m + 1 |-> IF i <= m THEN f[i] ELSE h[m + 1][f[m]]]
  <2>2. \A i \in 0 .. m : g[i] = f[i]
    OBVIOUS
  <2>3. f[m] \in T[m] /\ h[m + 1] \in [T[m] -> T[m + 1]]
    <3>1. m + 1 \in 1 .. n /\ (m + 1) - 1 = m
      OBVIOUS
    <3>2. QED
      BY <2>1, <3>1
  <2>4. g[m + 1] = h[m + 1][f[m]] /\ g[m + 1] \in T[m + 1]
    BY <2>3
  <2>5. \A i \in 0 .. m + 1 : g[i] = IF i = 0 THEN c ELSE h[i][g[i - 1]]
    <3>1. ASSUME NEW i \in 0 .. m
          PROVE  g[i] = IF i = 0 THEN c ELSE h[i][g[i - 1]]
      <4>1. f[i] = IF i = 0 THEN c ELSE h[i][f[i - 1]]
        BY <2>1
      <4>2. g[i] = f[i] /\ (i # 0 => g[i - 1] = f[i - 1])
        BY <2>2
      <4> HIDE DEF g
      <4>3. QED
        BY <4>1, <4>2
    <3>2. g[m + 1] = h[m + 1][g[(m + 1) - 1]] /\ m + 1 # 0
      BY <2>2, <2>4
    <3> HIDE DEF g
    <3>3. QED
      BY <3>1, <3>2
  <2>6. \A i \in 0 .. m + 1 : g[i] \in T[i]
    <3>1. \A i \in 0 .. m : g[i] \in T[i]
      BY <2>1, <2>2
    <3> HIDE DEF g
    <3>2. QED
      BY <2>4, <3>1
  <2>7. g = [i \in 0 .. m + 1 |-> g[i]]
    OBVIOUS
  <2> HIDE DEF g
  <2>8. g = [i \in 0 .. m + 1 |-> IF i = 0 THEN c ELSE h[i][g[i - 1]]]
    BY <2>5, <2>7, Zenon
  <2>9. Rec(g, m + 1)
    BY <2>6, <2>8
  <2>10. m + 1 \in 0 .. n
    OBVIOUS
  <2>11. QED
    BY <2>9, <2>10
<1>3. n \in S
  <2> HIDE DEF S
  <2>1. 0 .. n \subseteq S
    BY <1>1, <1>2, SetInduction
  <2>2. QED
    BY <2>1
<1>4. QED
  BY <1>3 DEF Recursion

(***************************************************************************)
(* The encoder                                                             *)
(***************************************************************************)
Octet == 0 .. 255

LEMMA ListFacts ==
  /\ Len(List) \in Nat
  /\ \A i \in 1 .. Len(List) : List[i] \in Entry
BY ListAssumption, LenProperties, ElementOfSeq

LEMMA EntryFacts ==
  ASSUME NEW e \in Entry
  PROVE  /\ e.chnid \in 1 .. 255 /\ e.desc \in Seq(CharByte)
         /\ Len(e.desc) \in Nat /\ EntrySize(e) = Len(e.desc) + 4
         /\ EntrySize(e) \in Nat /\ EntrySize(e) >= 4
         /\ \A k \in 1 .. Len(e.desc) : e.desc[k] \in 1 .. 255
<1>1. e.chnid \in 1 .. 255 /\ e.desc \in Seq(CharByte)
  BY DEF Entry, CharByte
<1>2. Len(e.desc) \in Nat /\ \A k \in 1 .. Len(e.desc) : e.desc[k] \in CharByte
  BY <1>1, LenProperties, ElementOfSeq
<1>3. QED
  BY <1>1, <1>2 DEF EntrySize, SizeofEntry, CharByte

(* An entry is chnid, the two bytes of len, the description and a 0.        *)
LEMMA EntryBytesFacts ==
  ASSUME NEW e \in Entry
  PROVE  /\ EntryBytes(e) \in Seq(Octet)
         /\ Len(EntryBytes(e)) = EntrySize(e)
         /\ EntryBytes(e)[1] = e.chnid
         /\ EntryBytes(e)[2] = (EntrySize(e) \div 256) % 256
         /\ EntryBytes(e)[3] = EntrySize(e) % 256
         /\ \A k \in 1 .. Len(e.desc) : EntryBytes(e)[3 + k] = e.desc[k]
         /\ EntryBytes(e)[EntrySize(e)] = 0
<1> DEFINE head == <<e.chnid, (EntrySize(e) \div 256) % 256, EntrySize(e) % 256>>
           text == head \o e.desc
           end == <<0>>
<1>1. head \in Seq(Octet) /\ Len(head) = 3
  <2>1. e.chnid \in Octet
    BY EntryFacts DEF Octet
  <2>2. (EntrySize(e) \div 256) % 256 \in Octet /\ EntrySize(e) % 256 \in Octet
    <3>1. EntrySize(e) \in Nat
      BY EntryFacts
    <3>2. QED
      BY <3>1 DEF Octet
  <2>3. QED
    BY <2>1, <2>2
<1>2. e.desc \in Seq(Octet)
  BY EntryFacts, SeqMonotonic DEF Octet, CharByte
<1>3. end \in Seq(Octet) /\ Len(end) = 1 /\ end[1] = 0
  BY DEF Octet
<1>4. head[1] = e.chnid /\ head[2] = (EntrySize(e) \div 256) % 256 /\ head[3] = EntrySize(e) % 256
  OBVIOUS
<1> HIDE DEF head
<1>5. /\ text \in Seq(Octet) /\ Len(text) = 3 + Len(e.desc)
      /\ \A i \in 1 .. 3 + Len(e.desc) : text[i] = IF i <= 3 THEN head[i] ELSE e.desc[i - 3]
  <2>1. /\ text \in Seq(Octet) /\ Len(text) = Len(head) + Len(e.desc)
        /\ \A i \in 1 .. Len(head) + Len(e.desc) :
             text[i] = IF i <= Len(head) THEN head[i] ELSE e.desc[i - Len(head)]
    BY <1>1, <1>2, ConcatProperties, Zenon
  <2> HIDE DEF text
  <2>2. QED
    BY <1>1, <2>1
<1> HIDE DEF text, end
<1>6. /\ text \o end \in Seq(Octet) /\ Len(text \o end) = 3 + Len(e.desc) + 1
      /\ \A i \in 1 .. 3 + Len(e.desc) + 1 :
           (text \o end)[i] = IF i <= 3 + Len(e.desc) THEN text[i] ELSE end[i - (3 + Len(e.desc))]
  <2>1. /\ text \o end \in Seq(Octet) /\ Len(text \o end) = Len(text) + Len(end)
        /\ \A i \in 1 .. Len(text) + Len(end) :
             (text \o end)[i] = IF i <= Len(text) THEN text[i] ELSE end[i - Len(text)]
    BY <1>3, <1>5, ConcatProperties, Zenon
  <2> DEFINE all == text \o end
  <2> HIDE DEF all
  <2>2. all = text \o end
    BY DEF all
  <2>3. QED
    BY <1>3, <1>5, <2>1
<1>7. EntryBytes(e) = text \o end
  BY DEF EntryBytes, text, head, end
<1> DEFINE all == text \o end
           n == Len(e.desc)
<1> HIDE DEF all, n
<1>8. /\ n \in Nat /\ EntrySize(e) = n + 4 /\ n = Len(e.desc)
      /\ all \in Seq(Octet) /\ Len(all) = n + 4 /\ all[n + 4] = 0
      /\ \A i \in 1 .. n + 3 : all[i] = IF i <= 3 THEN head[i] ELSE e.desc[i - 3]
  <2>1. n \in Nat /\ EntrySize(e) = n + 4 /\ n = Len(e.desc) /\ all = text \o end
    BY EntryFacts DEF n, all
  <2>2. QED
    BY <1>3, <1>5, <1>6, <2>1
<1>9. all[1] = head[1] /\ all[2] = head[2] /\ all[3] = head[3]
  BY <1>8
<1>10. \A k \in 1 .. n : all[3 + k] = e.desc[k]
  <2>1. ASSUME NEW k \in 1 .. n
        PROVE  all[3 + k] = e.desc[k]
    <3>1. 3 + k \in 1 .. n + 3 /\ ~ (3 + k <= 3) /\ (3 + k) - 3 = k
      BY <1>8
    <3>2. QED
      BY <1>8, <3>1
  <2>2. QED
    BY <2>1
<1>11. EntryBytes(e) = all
  BY <1>7 DEF all
<1>12. QED
  BY <1>4, <1>8, <1>9, <1>10, <1>11

LEMMA SizeFacts ==
  \A i \in 1 .. Len(List) : EntrySize(List[i]) \in Nat /\ EntrySize(List[i]) >= 4
BY ListFacts, EntryFacts

LEMMA OffsetEquation ==
  /\ Offset = [i \in 0 .. Len(List) |-> IF i = 0 THEN 1 ELSE Offset[i - 1] + EntrySize(List[i])]
  /\ \A i \in 0 .. Len(List) : Offset[i] \in Nat
<1> DEFINE T == [i \in 0 .. Len(List) |-> Nat]
           h == [i \in 1 .. Len(List) |-> [x \in Nat |-> x + EntrySize(List[i])]]
<1>1. 1 \in T[0]
  BY ListFacts
<1>2. \A i \in 1 .. Len(List) : h[i] \in [T[i - 1] -> T[i]]
  BY ListFacts, EntryFacts
<1>3. \E f : /\ f = [i \in 0 .. Len(List) |-> IF i = 0 THEN 1 ELSE h[i][f[i - 1]]]
             /\ \A i \in 0 .. Len(List) : f[i] \in T[i]
  <2> DEFINE n == Len(List)
             c == 1
  <2>1. n \in Nat /\ c \in T[0] /\ \A i \in 1 .. n : h[i] \in [T[i - 1] -> T[i]]
    BY <1>1, <1>2, ListFacts
  <2> HIDE DEF T, h, n, c
  <2>2. \E f : Recursion(f, n, T, c, h)
    BY <2>1, RecursionExists, Zenon
  <2>3. QED
    BY <2>2 DEF n, c, Recursion
<1>4. PICK f : /\ f = [i \in 0 .. Len(List) |-> IF i = 0 THEN 1 ELSE h[i][f[i - 1]]]
               /\ \A i \in 0 .. Len(List) : f[i] \in T[i]
  BY <1>3
<1>5. f = [i \in 0 .. Len(List) |-> IF i = 0 THEN 1 ELSE f[i - 1] + EntrySize(List[i])]
  <2>1. ASSUME NEW i \in 1 .. Len(List)
        PROVE  h[i][f[i - 1]] = f[i - 1] + EntrySize(List[i])
    <3>1. i - 1 \in 0 .. Len(List)
      BY ListFacts
    <3>2. T[i - 1] = Nat
      BY <3>1
    <3> HIDE DEF T, h
    <3>3. f[i - 1] \in Nat
      BY <1>4, <3>1, <3>2
    <3>4. QED
      BY <3>3 DEF h
  <2> HIDE DEF T, h
  <2>2. \A i \in 0 .. Len(List) : (IF i = 0 THEN 1 ELSE h[i][f[i - 1]])
                                 = IF i = 0 THEN 1 ELSE f[i - 1] + EntrySize(List[i])
    BY <2>1, ListFacts
  <2>3. f = [i \in 0 .. Len(List) |-> IF i = 0 THEN 1 ELSE h[i][f[i - 1]]]
    BY <1>4
  <2>4. QED
    BY <2>2, <2>3, Zenon
<1>6. Offset = [i \in 0 .. Len(List) |-> IF i = 0 THEN 1 ELSE Offset[i - 1] + EntrySize(List[i])]
  BY <1>5, Zenon DEF Offset
<1>7. \A i \in 0 .. Len(List) : Offset[i] \in Nat
  <2> DEFINE S == {i \in 0 .. Len(List) : Offset[i] \in Nat}
  <2>1. 0 \in S
    BY <1>6, ListFacts
  <2>2. ASSUME NEW i \in 0 .. Len(List) - 1, i \in S
        PROVE  i + 1 \in S
    <3>1. i + 1 \in 1 .. Len(List) /\ (i + 1) - 1 = i
      BY ListFacts
    <3>2. Offset[i + 1] = Offset[i] + EntrySize(List[i + 1])
      BY <1>6, <3>1
    <3>3. EntrySize(List[i + 1]) \in Nat
      BY <3>1, SizeFacts
    <3>4. QED
      BY <2>2, <3>1, <3>2, <3>3
  <2>3. QED
    <3> HIDE DEF S
    <3>1. 0 .. Len(List) \subseteq S
      BY <2>1, <2>2, SetInduction, ListFacts
    <3>2. QED
      BY <3>1 DEF S
<1>8. QED
  BY <1>6, <1>7

LEMMA OffsetFacts ==
  /\ Offset[0] = 1
  /\ \A i \in 1 .. Len(List) : Offset[i] = Offset[i - 1] + EntrySize(List[i])
  /\ \A i \in 0 .. Len(List) : Offset[i] \in Nat /\ Offset[i] >= 1
<1>1. Offset[0] = 1
  BY OffsetEquation, ListFacts
<1>2. ASSUME NEW i \in 1 .. Len(List)
      PROVE  Offset[i] = Offset[i - 1] + EntrySize(List[i])
  BY OffsetEquation, ListFacts
<1>3. ASSUME NEW i \in 0 .. Len(List)
      PROVE  Offset[i] \in Nat /\ Offset[i] >= 1
  <2>1. CASE i = 0
    BY <1>1, <2>1
  <2>2. CASE i # 0
    <3>1. i \in 1 .. Len(List) /\ i - 1 \in 0 .. Len(List)
      BY <2>2, ListFacts
    <3>2. Offset[i - 1] \in Nat /\ EntrySize(List[i]) \in Nat /\ EntrySize(List[i]) >= 4
      BY <3>1, OffsetEquation, SizeFacts
    <3>3. QED
      BY <1>2, <3>1, <3>2
  <2>3. QED
    BY <2>1, <2>2
<1>4. QED
  BY <1>1, <1>2, <1>3

(* Each entry begins behind the ones before it.                             *)
LEMMA OffsetGrows ==
  ASSUME NEW i \in 0 .. Len(List), NEW j \in 0 .. Len(List), i <= j
  PROVE  Offset[i] <= Offset[j]
<1> DEFINE S == {k \in 0 .. Len(List) : i <= k => Offset[i] <= Offset[k]}
<1>1. 0 \in S
  BY OffsetFacts, ListFacts
<1>2. ASSUME NEW k \in 0 .. Len(List) - 1, k \in S
      PROVE  k + 1 \in S
  <2>1. k + 1 \in 1 .. Len(List) /\ (k + 1) - 1 = k
    BY ListFacts
  <2>2. Offset[k + 1] = Offset[k] + EntrySize(List[k + 1])
    BY <2>1, OffsetFacts
  <2>3. EntrySize(List[k + 1]) \in Nat /\ Offset[k] \in Nat /\ Offset[i] \in Nat
    BY <2>1, ListFacts, SizeFacts, OffsetFacts
  <2>4. QED
    BY <1>2, <2>1, <2>2, <2>3
<1>3. 0 .. Len(List) \subseteq S
  <2> HIDE DEF S
  <2>1. QED
    BY <1>1, <1>2, SetInduction, ListFacts
<1>4. QED
  BY <1>3

(* s is the list's packet after i entries: each lies where the one before   *)
(* it ends.                                                                 *)
LaidOut(s, i) ==
  /\ s \in Seq(Octet) /\ Len(s) = Offset[i] /\ s[1] = LISTCHNID
  /\ \A k \in 1 .. i : \A j \in 1 .. EntrySize(List[k]) :
       s[Offset[k - 1] + j] = EntryBytes(List[k])[j]

LEMMA LayEntry ==
  ASSUME NEW i \in 1 .. Len(List), NEW s, LaidOut(s, i - 1)
  PROVE  LaidOut(SubSeq(s, 1, Offset[i - 1]) \o EntryBytes(List[i]), i)
<1> DEFINE e == EntryBytes(List[i])
           t == s \o e
           o == Offset[i - 1]
           n == EntrySize(List[i])
<1>1. /\ e \in Seq(Octet) /\ Len(e) = n /\ n \in Nat /\ n >= 4
      /\ s \in Seq(Octet) /\ Len(s) = o /\ o \in Nat /\ o >= 1 /\ Offset[i] = o + n
  <2>1. List[i] \in Entry /\ i - 1 \in 0 .. Len(List)
    BY ListFacts
  <2>2. e \in Seq(Octet) /\ Len(e) = n
    BY <2>1, EntryBytesFacts
  <2>3. QED
    BY <2>1, <2>2, SizeFacts, OffsetFacts DEF LaidOut
<1>2. SubSeq(s, 1, o) \o e = t
  BY <1>1, SubSeqFull
<1>3. /\ t \in Seq(Octet) /\ Len(t) = o + n
      /\ \A j \in 1 .. o + n : t[j] = IF j <= o THEN s[j] ELSE e[j - o]
  <2>1. /\ t \in Seq(Octet) /\ Len(t) = Len(s) + Len(e)
        /\ \A j \in 1 .. Len(s) + Len(e) : t[j] = IF j <= Len(s) THEN s[j] ELSE e[j - Len(s)]
    BY <1>1, ConcatProperties, Zenon
  <2> HIDE DEF t, e, n, o
  <2>2. QED
    BY <1>1, <2>1
<1>4. t[1] = LISTCHNID
  <2>1. s[1] = LISTCHNID
    BY DEF LaidOut
  <2> HIDE DEF t, e, n, o
  <2>2. 1 \in 1 .. o + n /\ 1 <= o
    BY <1>1
  <2>3. QED
    BY <1>3, <2>1, <2>2
<1>5. ASSUME NEW k \in 1 .. i, NEW j \in 1 .. EntrySize(List[k])
      PROVE  t[Offset[k - 1] + j] = EntryBytes(List[k])[j]
  <2>1. CASE k = i
    <3>1. j \in 1 .. n
      BY <2>1
    <3> HIDE DEF t, e, n, o
    <3>2. o + j \in 1 .. o + n /\ ~ (o + j <= o) /\ (o + j) - o = j
      BY <1>1, <3>1
    <3>3. t[o + j] = e[j]
      BY <1>3, <3>2
    <3>4. QED
      BY <2>1, <3>3 DEF o, e
  <2>2. CASE k # i
    <3>1. k \in 1 .. i - 1 /\ k \in 1 .. Len(List) /\ k - 1 \in 0 .. Len(List)
          /\ k \in 0 .. Len(List) /\ i - 1 \in 0 .. Len(List) /\ k <= i - 1
      BY <2>2, ListFacts
    <3>2. s[Offset[k - 1] + j] = EntryBytes(List[k])[j]
      BY <3>1 DEF LaidOut
    <3>3. Offset[k] <= o
      BY <3>1, OffsetGrows
    <3>4. Offset[k] = Offset[k - 1] + EntrySize(List[k]) /\ Offset[k - 1] \in Nat
          /\ Offset[k] \in Nat /\ EntrySize(List[k]) \in Nat
      BY <3>1, OffsetFacts, SizeFacts
    <3> HIDE DEF t, e, n, o
    <3>5. Offset[k - 1] + j \in 1 .. o + n /\ Offset[k - 1] + j <= o
      BY <1>1, <3>3, <3>4, SMTT(30)
    <3>6. QED
      BY <1>3, <3>2, <3>5
  <2>3. QED
    BY <2>1, <2>2
<1>6. LaidOut(t, i)
  <2> HIDE DEF t
  <2>1. QED
    BY <1>1, <1>3, <1>4, <1>5 DEF LaidOut
<1>7. QED
  BY <1>2, <1>6

(* The packet the list thread sends: the entries of all channels, one       *)
(* behind the other, and nothing else.                                      *)
LEMMA ListPacketFacts == LaidOut(ListPacket, Len(List))
<1> DEFINE n == Len(List)
           T == [i \in 0 .. n |-> {s \in Seq(Octet) : LaidOut(s, i)}]
           c == <<LISTCHNID>>
           h == [i \in 1 .. n |->
                  [s \in T[i - 1] |-> SubSeq(s, 1, Offset[i - 1]) \o EntryBytes(List[i])]]
<1>1. n \in Nat
  BY ListFacts
<1>2. LaidOut(c, 0)
  <2>1. c \in Seq(Octet) /\ Len(c) = 1 /\ c[1] = LISTCHNID
    BY DEF Octet, LISTCHNID
  <2> HIDE DEF c
  <2>2. QED
    BY <2>1, OffsetFacts DEF LaidOut
<1>3. c \in T[0]
  <2>1. c \in Seq(Octet)
    BY <1>2 DEF LaidOut
  <2> HIDE DEF c
  <2>2. QED
    BY <1>1, <1>2, <2>1
<1> HIDE DEF c
<1>4. ASSUME NEW i \in 1 .. n
      PROVE  h[i] \in [T[i - 1] -> T[i]]
  <2>1. ASSUME NEW s \in T[i - 1]
        PROVE  SubSeq(s, 1, Offset[i - 1]) \o EntryBytes(List[i]) \in T[i]
    <3>1. i - 1 \in 0 .. n /\ i \in 0 .. n
      BY <1>1
    <3>2. LaidOut(s, i - 1)
      BY <2>1, <3>1
    <3> DEFINE t == SubSeq(s, 1, Offset[i - 1]) \o EntryBytes(List[i])
    <3>3. LaidOut(t, i)
      BY <3>2, LayEntry
    <3> HIDE DEF t
    <3>4. t \in Seq(Octet)
      BY <3>3 DEF LaidOut
    <3>5. t \in T[i]
      BY <3>1, <3>3, <3>4
    <3>6. QED
      BY <3>5 DEF t
  <2>2. h[i] = [s \in T[i - 1] |-> SubSeq(s, 1, Offset[i - 1]) \o EntryBytes(List[i])]
    BY Zenon
  <2> HIDE DEF h, T
  <2>3. QED
    BY <2>1, <2>2
<1>5. PICK f : Recursion(f, n, T, c, h)
  <2> HIDE DEF n, T, h
  <2>1. QED
    BY <1>1, <1>3, <1>4, RecursionExists, Zenon
<1>6. \A i \in 0 .. n : LaidOut(f[i], i)
  <2>1. \A i \in 0 .. n : f[i] \in T[i]
    BY <1>5 DEF Recursion
  <2>2. QED
    BY <2>1
<1>7. f = [i \in 0 .. Len(List) |->
            IF i = 0 THEN <<LISTCHNID>>
                     ELSE SubSeq(f[i - 1], 1, Offset[i - 1]) \o EntryBytes(List[i])]
  <2>1. ASSUME NEW i \in 1 .. n
        PROVE  h[i][f[i - 1]] = SubSeq(f[i - 1], 1, Offset[i - 1]) \o EntryBytes(List[i])
    <3>1. i - 1 \in 0 .. n
      BY <1>1
    <3>2. f[i - 1] \in T[i - 1]
      BY <1>5, <3>1 DEF Recursion
    <3>3. h[i] = [s \in T[i - 1] |-> SubSeq(s, 1, Offset[i - 1]) \o EntryBytes(List[i])]
      BY Zenon
    <3> HIDE DEF h, T
    <3>4. QED
      BY <3>2, <3>3, Zenon
  <2> HIDE DEF h, T
  <2>2. \A i \in 0 .. n : (IF i = 0 THEN c ELSE h[i][f[i - 1]])
           = IF i = 0 THEN <<LISTCHNID>>
                      ELSE SubSeq(f[i - 1], 1, Offset[i - 1]) \o EntryBytes(List[i])
    <3>1. ASSUME NEW i \in 0 .. n, i # 0
          PROVE  i \in 1 .. n
      BY <1>1, <3>1
    <3>2. QED
      BY <2>1, <3>1, Zenon DEF c
  <2>3. f = [i \in 0 .. n |-> IF i = 0 THEN c ELSE h[i][f[i - 1]]]
    BY <1>5 DEF Recursion
  <2>4. QED
    BY <2>2, <2>3, Zenon
<1>8. Laid = [i \in 0 .. Len(List) |->
               IF i = 0 THEN <<LISTCHNID>>
                        ELSE SubSeq(Laid[i - 1], 1, Offset[i - 1]) \o EntryBytes(List[i])]
  BY <1>7, Zenon DEF Laid
<1>9. LaidOut(Laid[n], n)
  <2> DEFINE S == {i \in 0 .. n : LaidOut(Laid[i], i)}
  <2>1. 0 \in S
    <3>1. 0 \in 0 .. n
      BY <1>1
    <3>2. Laid[0] = c
      BY <1>8, <3>1 DEF c
    <3>3. QED
      BY <1>2, <3>1, <3>2
  <2>2. ASSUME NEW i \in 0 .. n - 1, i \in S
        PROVE  i + 1 \in S
    <3>1. i + 1 \in 1 .. n /\ i + 1 \in 0 .. n /\ (i + 1) - 1 = i /\ i + 1 # 0
      BY <1>1
    <3>2. Laid[i + 1] = SubSeq(Laid[i], 1, Offset[i]) \o EntryBytes(List[i + 1])
      <4>1. Laid[i + 1] = SubSeq(Laid[(i + 1) - 1], 1, Offset[(i + 1) - 1])
                            \o EntryBytes(List[i + 1])
        BY <1>8, <3>1, Zenon
      <4>2. QED
        BY <3>1, <4>1
    <3>3. LaidOut(SubSeq(Laid[i], 1, Offset[i]) \o EntryBytes(List[i + 1]), i + 1)
      <4>1. LaidOut(Laid[i], (i + 1) - 1)
        BY <2>2, <3>1
      <4>2. LaidOut(SubSeq(Laid[i], 1, Offset[(i + 1) - 1]) \o EntryBytes(List[i + 1]), i + 1)
        BY <3>1, <4>1, LayEntry
      <4>3. QED
        BY <3>1, <4>2
    <3>4. QED
      BY <3>1, <3>2, <3>3
  <2>3. n \in S
    <3> HIDE DEF S, n
    <3>1. 0 .. n \subseteq S
      BY <1>1, <2>1, <2>2, SetInduction
    <3>2. QED
      BY <1>1, <3>1
  <2>4. QED
    BY <2>3
<1>10. ListPacket = Laid[n]
  <2>1. Laid[n] \in Seq(Octet) /\ Len(Laid[n]) = Offset[n]
    BY <1>9 DEF LaidOut
  <2>2. QED
    BY <2>1, SubSeqFull DEF ListPacket
<1>11. QED
  BY <1>9, <1>10

(***************************************************************************)
(* The client                                                              *)
(***************************************************************************)
Buffer == [0 .. ListMax - 1 -> Octet]
Row == [chnid : Octet, desc : Seq(CharByte)]

LEMMA PacketFacts ==
  /\ ListMax \in Nat /\ ListMax >= HeaderSize
  /\ \A p \in Packet : p \in Seq(Octet) /\ Len(p) \in 0 .. ListMax - HeaderSize
<1>1. ASSUME NEW p \in Packet
      PROVE  p \in Seq(Octet)
  <2>1. CASE p = ListPacket
    BY <2>1, ListPacketFacts DEF LaidOut
  <2>2. CASE p = <<>> \/ p = <<LISTCHNID>>
    <3>1. 0 \in Octet
      BY DEF Octet
    <3>2. <<>> \in Seq(Octet) /\ <<LISTCHNID>> \in Seq(Octet)
      BY <3>1 DEF LISTCHNID
    <3>3. QED
      BY <2>2, <3>2
  <2>3. CASE \E seq \in ListSeqs, i \in 1 .. Len(List), data \in {<<>>, <<1>>} :
               p = ChannelPacket(seq, List[i].chnid, data)
    <3>1. PICK seq \in ListSeqs, i \in 1 .. Len(List), data \in {<<>>, <<1>>} :
            p = ChannelPacket(seq, List[i].chnid, data)
      BY <2>3
    <3> DEFINE number == [k \in 1 .. 4 |-> (seq \div 256 ^ (k - 1)) % 256]
               id == <<List[i].chnid>>
    <3>2. number \in Seq(Octet)
      <4>1. \A k \in 1 .. 4 : (seq \div 256 ^ (k - 1)) % 256 \in Octet
        BY ListSeqsAssumption DEF Octet
      <4>2. QED
        BY <4>1
    <3>3. id \in Seq(Octet)
      <4>1. List[i].chnid \in Octet
        <5>1. List[i].chnid \in 1 .. 255
          BY ListFacts, EntryFacts
        <5>2. QED
          BY <5>1 DEF Octet
      <4>2. QED
        BY <4>1
    <3>4. data \in Seq(Octet)
      <4>1. 1 \in Octet
        BY DEF Octet
      <4>2. <<>> \in Seq(Octet) /\ <<1>> \in Seq(Octet)
        BY <4>1
      <4>3. data = <<>> \/ data = <<1>>
        OBVIOUS
      <4>4. QED
        BY <4>2, <4>3
    <3> HIDE DEF number, id
    <3>5. number \o id \in Seq(Octet)
      BY <3>2, <3>3, ConcatProperties, Zenon
    <3>6. (number \o id) \o data \in Seq(Octet)
      BY <3>4, <3>5, ConcatProperties, Zenon
    <3>7. QED
      BY <3>1, <3>6 DEF ChannelPacket, number, id
  <2>4. QED
    BY <2>1, <2>2, <2>3 DEF Packet
<1>2. ASSUME NEW p \in Packet
      PROVE  Len(p) \in 0 .. ListMax - HeaderSize
  <2>1. Len(p) \in Nat /\ Len(p) + HeaderSize <= ListMax
    BY <1>1, ListMaxAssumption, LenProperties
  <2>2. QED
    BY <2>1, ListMaxAssumption DEF HeaderSize
<1>3. <<>> \in Packet
  BY DEF Packet
<1>4. QED
  BY <1>1, <1>2, <1>3, ListMaxAssumption DEF HeaderSize

(* Where the description of an entry ends: at the first 0, or at the end of *)
(* the buffer.                                                              *)
DescEnd(first, j) ==
  /\ j \in first .. ListMax
  /\ j = ListMax \/ msg_list[j] = 0
  /\ \A k \in first .. j - 1 : msg_list[k] # 0

LEMMA DescEndExists ==
  ASSUME NEW first \in Nat, first <= ListMax
  PROVE  \E j \in first .. ListMax : DescEnd(first, j)
<1> DEFINE T == {j \in first .. ListMax : j = ListMax \/ msg_list[j] = 0}
<1>1. T \in SUBSET Nat /\ T # {}
  BY ListMaxAssumption
<1>2. PICK j \in T : \A k \in T : j <= k
  <2> HIDE DEF T
  <2>1. QED
    BY <1>1, LeastNat
<1>3. \A k \in first .. j - 1 : msg_list[k] # 0
  <2>1. ASSUME NEW k \in first .. j - 1, msg_list[k] = 0
        PROVE  FALSE
    <3>1. k \in T /\ k < j
      BY <2>1, ListMaxAssumption
    <3>2. QED
      BY <1>2, <3>1
  <2>2. QED
    BY <2>1
<1>4. QED
  BY <1>2, <1>3 DEF DescEnd

LEMMA DescAtEnd ==
  ASSUME NEW i \in Nat, i + HeaderSize <= ListMax
  PROVE  \E j \in i + HeaderSize .. ListMax :
           /\ DescEnd(i + HeaderSize, j)
           /\ DescAt(i) = [k \in 1 .. j - (i + HeaderSize) |-> msg_list[i + HeaderSize + k - 1]]
<1> DEFINE first == i + HeaderSize
           end == CHOOSE j \in first .. ListMax :
                    /\ j = ListMax \/ msg_list[j] = 0
                    /\ \A k \in first .. j - 1 : msg_list[k] # 0
<1>1. first \in Nat /\ first <= ListMax
  BY DEF HeaderSize
<1>2. DescAt(i) = [k \in 1 .. end - first |-> msg_list[first + k - 1]]
  BY DEF DescAt
<1> HIDE DEF first
<1>3. /\ end \in first .. ListMax
      /\ end = ListMax \/ msg_list[end] = 0
      /\ \A k \in first .. end - 1 : msg_list[k] # 0
  <2>1. \E j \in first .. ListMax :
          /\ j = ListMax \/ msg_list[j] = 0
          /\ \A k \in first .. j - 1 : msg_list[k] # 0
    BY <1>1, DescEndExists DEF DescEnd
  <2>2. QED
    BY <2>1, Zenon
<1> HIDE DEF end
<1>4. QED
  BY <1>2, <1>3 DEF DescEnd, first

(* A description has no 0, whatever is in the buffer.                       *)
LEMMA DescAtType ==
  ASSUME msg_list \in Buffer, NEW i \in Nat, i + HeaderSize <= ListMax
  PROVE  DescAt(i) \in Seq(CharByte)
<1> DEFINE first == i + HeaderSize
<1>1. PICK j \in first .. ListMax :
        /\ DescEnd(first, j)
        /\ DescAt(i) = [k \in 1 .. j - first |-> msg_list[first + k - 1]]
  BY DescAtEnd
<1>2. first \in Nat
  BY DEF HeaderSize
<1> HIDE DEF first
<1>3. ASSUME NEW k \in 1 .. j - first
      PROVE  msg_list[first + k - 1] \in CharByte
  <2>1. first + k - 1 \in first .. j - 1 /\ first + k - 1 \in 0 .. ListMax - 1
    BY <1>2, ListMaxAssumption
  <2>2. msg_list[first + k - 1] \in Octet /\ msg_list[first + k - 1] # 0
    BY <1>1, <2>1 DEF Buffer, DescEnd
  <2>3. QED
    BY <2>2 DEF Octet, CharByte
<1>4. j - first \in Nat
  BY <1>2, ListMaxAssumption
<1>5. QED
  BY <1>1, <1>3, <1>4

(* A description of n bytes and a 0 is read as it is.                       *)
LEMMA DescAtExact ==
  ASSUME NEW i \in Nat, NEW n \in Nat, i + HeaderSize + n < ListMax,
         msg_list[i + HeaderSize + n] = 0,
         \A k \in 1 .. n : msg_list[i + HeaderSize + k - 1] # 0
  PROVE  DescAt(i) = [k \in 1 .. n |-> msg_list[i + HeaderSize + k - 1]]
<1> DEFINE first == i + HeaderSize
<1>1. first \in Nat /\ i + HeaderSize <= ListMax
  BY ListMaxAssumption DEF HeaderSize
<1>2. PICK j \in first .. ListMax :
        /\ DescEnd(first, j)
        /\ DescAt(i) = [k \in 1 .. j - first |-> msg_list[first + k - 1]]
  BY <1>1, DescAtEnd
<1>3. msg_list[first + n] = 0 /\ first + n < ListMax
  OBVIOUS
<1>4. ASSUME NEW k \in first .. first + n - 1
      PROVE  msg_list[k] # 0
  <2>1. k - first + 1 \in 1 .. n /\ first + (k - first + 1) - 1 = k
    BY <1>1
  <2>2. msg_list[first + (k - first + 1) - 1] # 0
    BY <2>1
  <2>3. QED
    BY <2>1, <2>2
<1> HIDE DEF first
<1>5. j = first + n
  <2>1. ASSUME j < first + n
        PROVE  FALSE
    <3>1. j \in first .. first + n - 1 /\ j # ListMax
      BY <1>1, <1>3, <2>1, ListMaxAssumption
    <3>2. QED
      BY <1>2, <1>4, <3>1 DEF DescEnd
  <2>2. ASSUME j > first + n
        PROVE  FALSE
    <3>1. first + n \in first .. j - 1
      BY <1>1, <2>2, ListMaxAssumption
    <3>2. QED
      BY <1>2, <1>3, <3>1 DEF DescEnd
  <2>3. QED
    BY <1>1, <2>1, <2>2, ListMaxAssumption
<1>6. j - first = n
  BY <1>1, <1>5
<1>7. QED
  BY <1>2, <1>6 DEF first

(* The two bytes htons leaves of a length below 2^16 make that length again. *)
LEMMA TwoBytes ==
  ASSUME NEW s \in Nat, s < 65536
  PROVE  256 * ((s \div 256) % 256) + (s % 256) = s
<1> DEFINE high == s \div 256
           low == s % 256
<1>1. high \in Int /\ low \in 0 .. 255 /\ s = 256 * high + low
  OBVIOUS
<1> HIDE DEF high, low
<1>2. high \in 0 .. 255
  BY <1>1
<1>3. high % 256 = high
  BY <1>2
<1>4. QED
  BY <1>1, <1>3 DEF high, low

(* What the client finds at the offset of an entry of the list.             *)
LEMMA EntryHeld ==
  ASSUME msg_list \in Buffer, HoldsList, len <= ListMax - HeaderSize,
         NEW k \in 1 .. Len(List)
  PROVE  LET i == Offset[k - 1]
         IN  /\ i \in Nat /\ i < len
             /\ SizeAt(i) = EntrySize(List[k])
             /\ [chnid |-> msg_list[i], desc |-> DescAt(i)] = List[k]
<1> DEFINE i == Offset[k - 1]
           e == List[k]
           n == Len(e.desc)
<1>1. /\ k - 1 \in 0 .. Len(List) /\ k \in 0 .. Len(List) /\ Len(List) \in 0 .. Len(List)
      /\ k <= Len(List) /\ Len(List) \in Nat
  BY ListFacts
<1>2. /\ i \in Nat /\ i >= 1 /\ Offset[k] = i + EntrySize(e) /\ Offset[k] <= Offset[Len(List)]
      /\ EntrySize(e) = n + 4 /\ n \in Nat /\ e \in Entry /\ Offset[Len(List)] \in Nat
  BY <1>1, OffsetFacts, OffsetGrows, ListFacts, EntryFacts, SMTT(30)
<1>3. len = Offset[Len(List)]
  BY ListPacketFacts DEF HoldsList, LaidOut
<1>4. ASSUME NEW j \in 1 .. EntrySize(e)
      PROVE  msg_list[i + j - 1] = EntryBytes(e)[j]
  <2>1. ListPacket[i + j] = EntryBytes(e)[j]
    BY <1>1, ListPacketFacts DEF LaidOut
  <2> HIDE DEF i, e, n
  <2>2. i + j - 1 \in 0 .. len - 1 /\ (i + j - 1) + 1 = i + j
    BY <1>2, <1>3
  <2>3. msg_list[i + j - 1] = ListPacket[(i + j - 1) + 1]
    BY <2>2 DEF HoldsList
  <2>4. QED
    BY <2>1, <2>2, <2>3
<1>5. /\ EntryBytes(e)[1] = e.chnid
      /\ EntryBytes(e)[2] = (EntrySize(e) \div 256) % 256
      /\ EntryBytes(e)[3] = EntrySize(e) % 256
      /\ \A m \in 1 .. n : EntryBytes(e)[3 + m] = e.desc[m]
      /\ EntryBytes(e)[EntrySize(e)] = 0
      /\ \A m \in 1 .. n : e.desc[m] \in 1 .. 255
      /\ e.desc \in Seq(CharByte)
  <2>1. e \in Entry
    BY <1>2
  <2> HIDE DEF e
  <2>2. /\ EntryBytes(e)[1] = e.chnid
        /\ EntryBytes(e)[2] = (EntrySize(e) \div 256) % 256
        /\ EntryBytes(e)[3] = EntrySize(e) % 256
        /\ EntryBytes(e)[EntrySize(e)] = 0
    BY <2>1, EntryBytesFacts, Zenon, SMTT(30)
  <2>3. \A m \in 1 .. n : EntryBytes(e)[3 + m] = e.desc[m]
    BY <2>1, EntryBytesFacts, Zenon
  <2>4. e.desc \in Seq(CharByte) /\ \A m \in 1 .. n : e.desc[m] \in 1 .. 255
    BY <2>1, EntryFacts, Zenon
  <2>5. QED
    BY <2>2, <2>3, <2>4, Zenon
<1>6. e = [chnid |-> e.chnid, desc |-> e.desc]
  BY <1>2 DEF Entry
<1> HIDE DEF i, e, n
<1>7. msg_list[i] = e.chnid
  <2>1. msg_list[i + 1 - 1] = EntryBytes(e)[1] /\ i + 1 - 1 = i
    BY <1>2, <1>4
  <2>2. QED
    BY <1>5, <2>1
<1>8. SizeAt(i) = EntrySize(e)
  <2>1. msg_list[i + 2 - 1] = EntryBytes(e)[2] /\ i + 2 - 1 = i + 1
    BY <1>2, <1>4
  <2>2. msg_list[i + 3 - 1] = EntryBytes(e)[3] /\ i + 3 - 1 = i + 2
    BY <1>2, <1>4
  <2>3. SizeAt(i) = 256 * ((EntrySize(e) \div 256) % 256) + (EntrySize(e) % 256)
    BY <1>5, <2>1, <2>2 DEF SizeAt
  <2>4. EntrySize(e) \in Nat /\ EntrySize(e) < 65536
    BY <1>2, <1>3, ListMaxAssumption DEF HeaderSize
  <2> DEFINE s == EntrySize(e)
  <2>5. 256 * ((s \div 256) % 256) + (s % 256) = s
    <3>1. s \in Nat /\ s < 65536
      BY <2>4
    <3> HIDE DEF s
    <3>2. QED
      BY <3>1, TwoBytes
  <2>6. QED
    BY <2>3, <2>5, Zenon
<1>9. ASSUME NEW m \in 1 .. n
      PROVE  msg_list[i + HeaderSize + m - 1] = e.desc[m]
  <2>1. 3 + m \in 1 .. EntrySize(e) /\ i + (3 + m) - 1 = i + HeaderSize + m - 1
    BY <1>2 DEF HeaderSize
  <2>2. msg_list[i + (3 + m) - 1] = EntryBytes(e)[3 + m]
    BY <1>4, <2>1
  <2>3. QED
    BY <1>5, <2>1, <2>2
<1>10. DescAt(i) = [m \in 1 .. n |-> msg_list[i + HeaderSize + m - 1]]
  <2>1. i + HeaderSize + n < ListMax
    BY <1>2, <1>3, ListMaxAssumption DEF HeaderSize
  <2>2. msg_list[i + HeaderSize + n] = 0
    <3>1. n + 4 \in 1 .. EntrySize(e) /\ i + (n + 4) - 1 = i + HeaderSize + n
      BY <1>2 DEF HeaderSize
    <3>2. msg_list[i + (n + 4) - 1] = EntryBytes(e)[n + 4]
      BY <1>4, <3>1
    <3>3. QED
      BY <1>2, <1>5, <3>1, <3>2
  <2>3. \A m \in 1 .. n : msg_list[i + HeaderSize + m - 1] # 0
    <3>1. ASSUME NEW m \in 1 .. n
          PROVE  msg_list[i + HeaderSize + m - 1] # 0
      <4>1. \A c \in 1 .. 255 : c # 0
        OBVIOUS
      <4>2. e.desc[m] \in 1 .. 255 /\ msg_list[i + HeaderSize + m - 1] = e.desc[m]
        BY <1>5, <1>9, Zenon, SMTT(30)
      <4>3. QED
        BY <4>1, <4>2, Zenon
    <3>2. QED
      BY <3>1
  <2>4. QED
    BY <1>2, <2>1, <2>2, <2>3, DescAtExact
<1>11. DescAt(i) = e.desc
  <2>1. e.desc = [m \in 1 .. n |-> e.desc[m]]
    BY <1>5, LenProperties DEF n
  <2>2. QED
    BY <1>9, <1>10, <2>1
<1>12. i \in Nat /\ i < len
  BY <1>2, <1>3
<1>13. [chnid |-> msg_list[i], desc |-> DescAt(i)] = e
  BY <1>6, <1>7, <1>11
<1>14. QED
  BY <1>8, <1>12, <1>13 DEF i, e

(* The list phase: what is in the variables, and how far the client has     *)
(* come in a list of the server.                                            *)
ListTypes ==
  /\ msg_list \in Buffer \cup {<<>>}
  /\ mpc \in {"recv_list", "show", "choose"} => msg_list \in Buffer
  /\ len \in -1 .. ListMax - HeaderSize
  /\ entry \in Nat
  /\ shown \in Seq(Row)
  /\ mpc = "recv_list" => shown = <<>>

WalkAt(k) == k \in 0 .. Len(List) /\ shown = SubSeq(List, 1, k) /\ entry = Offset[k]

ListWalk ==
  /\ mpc \in {"show", "choose"} /\ HoldsList => \E k \in 0 .. Len(List) : WalkAt(k)
  /\ mpc = "choose" => entry >= len

ListInv == ListTypes /\ ListWalk

LEMMA ListInvInit == ListInit => ListInv
<1> SUFFICES ASSUME ListInit
             PROVE  ListInv
  OBVIOUS
<1>1. PICK g \in Garbage : msg_list = [i \in 0 .. ListMax - 1 |-> g]
  BY DEF ListInit
<1>2. g \in Octet
  BY GarbageAssumption DEF Octet
<1>3. msg_list \in Buffer
  BY <1>1, <1>2 DEF Buffer
<1>4. mpc = "recv_list" /\ len = 0 /\ entry = 0 /\ shown = <<>>
  BY DEF ListInit
<1>5. 0 \in -1 .. ListMax - HeaderSize
  BY PacketFacts DEF HeaderSize
<1>6. shown \in Seq(Row)
  BY <1>4
<1>7. QED
  BY <1>3, <1>4, <1>5, <1>6 DEF ListInv, ListTypes, ListWalk

(* A datagram is judged: what is taken for the list is shown from its first *)
(* entry on.                                                                *)
LEMMA JudgeInv ==
  ASSUME NEW b, NEW n, Judge(b, n), mpc = "recv_list", shown = <<>>, UNCHANGED shown,
         entry \in Nat, msg_list' \in Buffer, len' \in -1 .. ListMax - HeaderSize
  PROVE  ListInv'
<1>1. (mpc' = "recv_list" /\ entry' = entry) \/ (mpc' = "show" /\ entry' = 1)
  BY DEF Judge
<1>2. shown' = <<>> /\ shown' \in Seq(Row) /\ entry' \in Nat
  BY <1>1
<1>3. ListTypes'
  BY <1>1, <1>2 DEF ListTypes
<1>4. mpc' = "show" => \E k \in 0 .. Len(List) : WalkAt(k)'
  <2>1. SubSeq(List, 1, 0) = <<>>
    BY SubSeqEmpty
  <2>2. 0 \in 0 .. Len(List)
    BY ListFacts
  <2>3. mpc' = "show" => WalkAt(0)'
    BY <1>1, <1>2, <2>1, <2>2, OffsetFacts DEF WalkAt
  <2>4. QED
    BY <2>2, <2>3
<1>5. ListWalk'
  BY <1>1, <1>4 DEF ListWalk
<1>6. QED
  BY <1>3, <1>5 DEF ListInv

LEMMA RecvListInv ==
  ASSUME ListInv, NEW p \in Packet, RecvList(p)
  PROVE  ListInv'
<1>1. /\ mpc = "recv_list" /\ shown' = shown /\ len' = Len(p) /\ Judge(msg_list', len')
      /\ msg_list' = [i \in 0 .. ListMax - 1 |-> IF i < Len(p) THEN p[i + 1] ELSE msg_list[i]]
  BY DEF RecvList
<1>2. msg_list \in Buffer /\ shown = <<>> /\ entry \in Nat
  BY <1>1 DEF ListInv, ListTypes
<1>3. p \in Seq(Octet) /\ Len(p) \in 0 .. ListMax - HeaderSize
  BY PacketFacts
<1>4. ASSUME NEW i \in 0 .. ListMax - 1
      PROVE  (IF i < Len(p) THEN p[i + 1] ELSE msg_list[i]) \in Octet
  <2>1. CASE i < Len(p)
    <3>1. i + 1 \in 1 .. Len(p)
      BY <1>3, <2>1
    <3>2. QED
      BY <1>3, <2>1, <3>1, ElementOfSeq
  <2>2. CASE ~ (i < Len(p))
    BY <1>2, <2>2 DEF Buffer
  <2>3. QED
    BY <2>1, <2>2
<1>5. msg_list' \in Buffer
  BY <1>1, <1>4 DEF Buffer
<1>6. len' \in -1 .. ListMax - HeaderSize
  BY <1>1, <1>3, PacketFacts DEF HeaderSize
<1>7. QED
  BY <1>1, <1>2, <1>5, <1>6, JudgeInv

LEMMA ShowEntryInv ==
  ASSUME ListInv, ShowEntry
  PROVE  ListInv'
<1> DEFINE row == [chnid |-> msg_list[entry], desc |-> DescAt(entry)]
<1>1. /\ mpc = "show" /\ entry < len /\ shown' = Append(shown, row)
      /\ entry' = entry + SizeAt(entry) /\ UNCHANGED <<mpc, msg_list, len>>
  BY DEF ShowEntry
<1>2. /\ msg_list \in Buffer /\ len \in -1 .. ListMax - HeaderSize /\ entry \in Nat
      /\ shown \in Seq(Row) /\ ListMax \in Nat
  BY <1>1, PacketFacts DEF ListInv, ListTypes
<1>3. entry + HeaderSize <= ListMax /\ entry + 2 <= ListMax - 1 /\ len <= ListMax - HeaderSize
  BY <1>1, <1>2 DEF HeaderSize
<1>4. row \in Row
  <2>1. msg_list[entry] \in Octet
    BY <1>2, <1>3 DEF Buffer
  <2>2. DescAt(entry) \in Seq(CharByte)
    BY <1>2, <1>3, DescAtType
  <2>3. QED
    BY <2>1, <2>2 DEF Row
<1>5. SizeAt(entry) \in Nat
  <2> DEFINE high == msg_list[entry + 1]
             low == msg_list[entry + 2]
  <2>1. high \in Octet /\ low \in Octet
    <3>1. entry + 1 \in 0 .. ListMax - 1 /\ entry + 2 \in 0 .. ListMax - 1
      BY <1>2, <1>3
    <3>2. QED
      BY <1>2, <3>1 DEF Buffer
  <2>2. SizeAt(entry) = 256 * high + low
    BY DEF SizeAt
  <2> HIDE DEF high, low
  <2>3. QED
    BY <2>1, <2>2 DEF Octet
<1>6. ListTypes'
  <2>1. Append(shown, row) \in Seq(Row)
    BY <1>2, <1>4, AppendProperties
  <2> HIDE DEF row
  <2>2. QED
    BY <1>1, <1>2, <1>5, <2>1 DEF ListTypes
<1>7. ASSUME HoldsList
      PROVE  \E k \in 0 .. Len(List) : WalkAt(k)'
  <2>1. PICK k \in 0 .. Len(List) : WalkAt(k)
    BY <1>1, <1>7 DEF ListInv, ListWalk
  <2>2. shown = SubSeq(List, 1, k) /\ entry = Offset[k]
    BY <2>1 DEF WalkAt
  <2>3. len = Offset[Len(List)]
    BY <1>7, ListPacketFacts DEF HoldsList, LaidOut
  <2>4. k + 1 \in 1 .. Len(List) /\ k + 1 \in 0 .. Len(List) /\ (k + 1) - 1 = k
    <3>1. k # Len(List)
      BY <1>1, <1>2, <2>2, <2>3
    <3>2. QED
      BY <3>1, ListFacts
  <2>5. SizeAt(entry) = EntrySize(List[k + 1]) /\ row = List[k + 1]
    <3>1. /\ SizeAt(Offset[(k + 1) - 1]) = EntrySize(List[k + 1])
          /\ [chnid |-> msg_list[Offset[(k + 1) - 1]], desc |-> DescAt(Offset[(k + 1) - 1])]
               = List[k + 1]
      BY <1>2, <1>3, <1>7, <2>4, EntryHeld
    <3>2. QED
      BY <2>2, <2>4, <3>1
  <2> HIDE DEF row
  <2>6. entry' = Offset[k + 1]
    BY <1>1, <2>2, <2>4, <2>5, OffsetFacts
  <2>7. shown' = SubSeq(List, 1, k + 1)
    <3>1. SubSeq(List, 1, k + 1) = Append(SubSeq(List, 1, (k + 1) - 1), List[k + 1])
      BY <2>4, ListAssumption, SubSeqRecursiveSecond
    <3>2. QED
      BY <1>1, <2>2, <2>4, <2>5, <3>1
  <2>8. WalkAt(k + 1)'
    BY <2>4, <2>6, <2>7 DEF WalkAt
  <2>9. QED
    BY <2>4, <2>8
<1>8. HoldsList' <=> HoldsList
  BY <1>1 DEF HoldsList
<1>9. ListWalk'
  BY <1>1, <1>7, <1>8 DEF ListWalk
<1>10. QED
  BY <1>6, <1>9 DEF ListInv

(* A step that leaves the list alone, or is past it.                        *)
LEMMA ListFrame ==
  ASSUME ListInv, UNCHANGED listVars,
         mpc' = mpc \/ mpc' \notin {"recv_list", "show", "choose"}
  PROVE  ListInv'
<1>1. UNCHANGED <<msg_list, len, entry, shown>>
  BY DEF listVars
<1>2. HoldsList' <=> HoldsList
  BY <1>1 DEF HoldsList
<1>3. \A k : WalkAt(k)' <=> WalkAt(k)
  BY <1>1 DEF WalkAt
<1>4. ListTypes'
  BY <1>1 DEF ListInv, ListTypes
<1>5. ListWalk'
  BY <1>1, <1>2, <1>3 DEF ListInv, ListWalk
<1>6. QED
  BY <1>4, <1>5 DEF ListInv

LEMMA ListInvStep ==
  ASSUME ListInv, ListPhase
  PROVE  ListInv'
<1>1. ASSUME NEW p \in Packet, RecvList(p)
      PROVE  ListInv'
  BY <1>1, RecvListInv
<1>2. CASE RecvListError
  <2>1. /\ mpc = "recv_list" /\ len' = -1 /\ Judge(msg_list, -1)
        /\ UNCHANGED <<msg_list, shown>>
    BY <1>2 DEF RecvListError
  <2>2. msg_list' \in Buffer /\ shown = <<>> /\ entry \in Nat
    BY <2>1 DEF ListInv, ListTypes
  <2>3. len' \in -1 .. ListMax - HeaderSize
    BY <2>1, PacketFacts DEF HeaderSize
  <2>4. QED
    BY <2>1, <2>2, <2>3, JudgeInv
<1>3. CASE ShowEntry
  BY <1>3, ShowEntryInv
<1>4. CASE ShowDone
  <2>1. /\ mpc = "show" /\ mpc' = "choose" /\ entry >= len
        /\ UNCHANGED <<msg_list, len, entry, shown>>
    BY <1>4 DEF ShowDone, listVars
  <2>2. HoldsList' <=> HoldsList
    BY <2>1 DEF HoldsList
  <2>3. \A k : WalkAt(k)' <=> WalkAt(k)
    BY <2>1 DEF WalkAt
  <2>4. ListTypes'
    BY <2>1 DEF ListInv, ListTypes
  <2>5. ListWalk'
    BY <2>1, <2>2, <2>3 DEF ListInv, ListWalk
  <2>6. QED
    BY <2>4, <2>5 DEF ListInv
<1>5. CASE Choose
  <2>1. mpc' = "fork" /\ msg_list' = <<>> /\ len' = 0 /\ entry' = 0 /\ shown' = <<>>
    BY <1>5 DEF Choose
  <2>2. 0 \in -1 .. ListMax - HeaderSize /\ <<>> \in Seq(Row)
    BY PacketFacts DEF HeaderSize
  <2>3. QED
    BY <2>1, <2>2 DEF ListInv, ListTypes, ListWalk
<1>6. CASE ChooseOutside
  <2>1. UNCHANGED <<mpc, listVars>>
    BY <1>6 DEF ChooseOutside
  <2>2. QED
    BY <2>1, ListFrame
<1>7. QED
  BY <1>1, <1>2, <1>3, <1>4, <1>5, <1>6 DEF ListPhase

LEMMA ListTypesOK == ListInv => ListTypeOK
<1>1. ListMax \in Nat /\ HeaderSize = 3
  BY PacketFacts DEF HeaderSize
<1>2. QED
  BY <1>1 DEF ListInv, ListTypes, ListTypeOK, Buffer, Row, Octet

LEMMA ListInvDecoded == ListInv => ListDecoded
<1> SUFFICES ASSUME ListInv, mpc \in {"show", "choose"}, HoldsList
             PROVE  /\ shown = SubSeq(List, 1, Len(shown))
                    /\ mpc = "choose" => Len(shown) = Len(List) /\ entry = len
  BY DEF ListDecoded
<1>1. PICK k \in 0 .. Len(List) : WalkAt(k)
  BY DEF ListInv, ListWalk
<1>2. shown = SubSeq(List, 1, k) /\ entry = Offset[k] /\ k \in Nat /\ Len(List) \in Nat
  BY <1>1, ListFacts DEF WalkAt
<1>3. Len(shown) = k
  <2>1. \A i \in 1 .. k : List[i] \in Entry
    BY <1>2, ListFacts
  <2>2. Len(SubSeq(List, 1, k)) = IF 1 <= k THEN k - 1 + 1 ELSE 0
    BY <1>2, <2>1, SubSeqProperties
  <2>3. QED
    BY <1>2, <2>2
<1>4. len = Offset[Len(List)]
  BY ListPacketFacts DEF HoldsList, LaidOut
<1>5. ASSUME mpc = "choose"
      PROVE  k = Len(List)
  <2>1. Offset[k] >= Offset[Len(List)]
    BY <1>2, <1>4, <1>5 DEF ListInv, ListWalk
  <2>2. ASSUME k < Len(List)
        PROVE  FALSE
    <3>1. k + 1 \in 1 .. Len(List) /\ k + 1 \in 0 .. Len(List) /\ Len(List) \in 0 .. Len(List)
          /\ (k + 1) - 1 = k /\ k \in 0 .. Len(List)
      BY <1>2, <2>2
    <3>2. /\ Offset[k + 1] = Offset[k] + EntrySize(List[k + 1])
          /\ EntrySize(List[k + 1]) \in Nat /\ EntrySize(List[k + 1]) >= 4
          /\ Offset[k] \in Nat /\ Offset[k + 1] \in Nat /\ Offset[Len(List)] \in Nat
      BY <3>1, OffsetFacts, SizeFacts
    <3>3. Offset[k + 1] <= Offset[Len(List)]
      BY <3>1, OffsetGrows
    <3>4. QED
      BY <2>1, <3>2, <3>3
  <2>3. QED
    BY <1>2, <2>2
<1>6. QED
  BY <1>2, <1>3, <1>4, <1>5

(* The list is long enough to be taken for one.                             *)
LEMMA ListPacketLong ==
  ListPacket[1] = LISTCHNID /\ Len(ListPacket) \in Nat /\ Len(ListPacket) >= SizeofList
<1>1. 1 \in 1 .. Len(List) /\ 1 \in 0 .. Len(List) /\ Len(List) \in 0 .. Len(List) /\ 1 - 1 = 0
  <2>1. Len(List) # 0
    BY ListAssumption, EmptySeq
  <2>2. QED
    BY <2>1, ListFacts
<1>2. /\ Offset[1] = 1 + EntrySize(List[1]) /\ Offset[1] <= Offset[Len(List)]
      /\ EntrySize(List[1]) \in Nat /\ EntrySize(List[1]) >= 4 /\ Offset[Len(List)] \in Nat
  BY <1>1, OffsetFacts, OffsetGrows, SizeFacts
<1>3. Len(ListPacket) = Offset[Len(List)] /\ ListPacket[1] = LISTCHNID
  BY ListPacketFacts DEF LaidOut
<1>4. QED
  BY <1>2, <1>3 DEF SizeofList

(* Each entry leads to the next one, or to the end of the packet.           *)
LEMMA ListInvWalks ==
  ASSUME ListInv, mpc = "show", HoldsList, entry < len
  PROVE  SizeAt(entry) > 0 /\ entry + SizeAt(entry) <= len
<1>1. PICK k \in 0 .. Len(List) : WalkAt(k)
  BY DEF ListInv, ListWalk
<1>2. entry = Offset[k] /\ msg_list \in Buffer /\ len \in -1 .. ListMax - HeaderSize
  BY <1>1 DEF ListInv, ListTypes, WalkAt
<1>3. len = Offset[Len(List)]
  BY ListPacketFacts DEF HoldsList, LaidOut
<1>4. k + 1 \in 1 .. Len(List) /\ k + 1 \in 0 .. Len(List) /\ (k + 1) - 1 = k
      /\ Len(List) \in 0 .. Len(List)
  <2>1. k # Len(List)
    BY <1>2, <1>3
  <2>2. QED
    BY <2>1, ListFacts
<1>5. SizeAt(Offset[(k + 1) - 1]) = EntrySize(List[k + 1])
  <2>1. len <= ListMax - HeaderSize
    BY <1>2, PacketFacts DEF HeaderSize
  <2>2. QED
    BY <1>2, <1>4, <2>1, EntryHeld
<1>6. SizeAt(entry) = EntrySize(List[k + 1])
  BY <1>2, <1>4, <1>5
<1>7. /\ Offset[k + 1] = Offset[k] + EntrySize(List[k + 1])
      /\ EntrySize(List[k + 1]) \in Nat /\ EntrySize(List[k + 1]) >= 4
      /\ Offset[k + 1] <= Offset[Len(List)]
  BY <1>4, OffsetFacts, OffsetGrows, SizeFacts
<1>8. QED
  BY <1>2, <1>3, <1>6, <1>7
=============================================================================
