----------------------------- MODULE PlayProofs -----------------------------
(***************************************************************************)
(* A channel plays its files in order: proofs about the order in which     *)
(* mlib_readchn reads, for any media directory, any number of channels and *)
(* any size of a read, whichever files fail.                               *)
(***************************************************************************)
EXTENDS BroadcastProofs

-----------------------------------------------------------------------------
(* The inductive invariant *)

(* The file at the channel's position.                                      *)
Place(c) == [dir |-> channel[c].dir, pos |-> channel[c].pos]

(* Part s ends its file.                                                    *)
ReadOut(s) == s.from + s.len = FileLength(s.file)

(* Where channel c is after part s, if no file has failed since: behind s,  *)
(* or at the start of the next file that may have data.                     *)
Continues(c, s) ==
  /\ pc[c] \notin {"next", "open"} =>
       \/ Place(c) = s.file /\ channel[c].offset = s.from + s.len
       \/ channel[c].offset = 0 /\ ReadOut(s) /\ NextAfter(s.file, Place(c))
  /\ pc[c] = "next" =>
       /\ ReadOut(s)
       /\ Place(c) = s.file \/ (NextAfter(s.file, Place(c)) /\ FileLength(Place(c)) = 0)
  /\ pc[c] = "open" => ReadOut(s) /\ NextAfter(s.file, Place(c))

(* The last part read is a part of a file of the channel.                   *)
SegmentRead(c) ==
  /\ segment[c].file \in File /\ segment[c].file.dir = channel[c].dir
  /\ segment[c].len > 0
  /\ segment[c].from + segment[c].len <= FileLength(segment[c].file)

(* After a file has failed the channel goes on at the start of a file.      *)
FreshAfterTrouble(c) ==
  trouble[c] /\ pc[c] \notin {"next", "open"} /\ channel[c].fd \in Fd => channel[c].offset = 0

ChannelPlays(c) ==
  /\ pc[c] \in {"read", "next", "open"} => tbfsize[c] > 0
  /\ ~ Used(c) => segment[c].file = NoFile
  /\ segment[c].file = NoFile => channel[c].offset = 0
  /\ segment[c].file # NoFile => SegmentRead(c)
  /\ segment[c].file # NoFile /\ ~ trouble[c] => Continues(c, segment[c])
  /\ FreshAfterTrouble(c)

PlayInv == \A c \in ChnId : ChannelPlays(c)

-----------------------------------------------------------------------------
(* The order of the files *)

(* One further in a list of n, around its end.                              *)
LEMMA AroundTheList ==
  ASSUME NEW n \in Nat \ {0}, NEW a \in Nat, a < 2 * n
  PROVE  /\ a % n \in 0 .. n - 1
         /\ (a + 1) % n = IF (a % n) + 1 = n THEN 0 ELSE (a % n) + 1
<1>1. CASE a + 1 < n
  BY <1>1
<1>2. CASE a + 1 = n
  <2>1. a % n = a
    BY <1>2
  <2>2. (a + 1) % n = 0
    BY <1>2
  <2>3. QED
    BY <1>2, <2>1, <2>2
<1>3. CASE n <= a /\ a + 1 < 2 * n
  <2>1. a % n = a - n
    BY <1>3
  <2>2. (a + 1) % n = (a + 1) - n
    BY <1>3
  <2>3. QED
    BY <1>3, <2>1, <2>2
<1>4. CASE a + 1 = 2 * n
  <2>1. a % n = a - n
    BY <1>4
  <2>2. (a + 1) % n = 0
    BY <1>4
  <2>3. QED
    BY <1>4, <2>1, <2>2
<1>5. QED
  BY <1>1, <1>2, <1>3, <1>4

(* The file open_next goes to from g.                                       *)
Following(g) ==
  [dir |-> g.dir, pos |-> IF g.pos + 1 = Count(g.dir) THEN 0 ELSE g.pos + 1]

LEMMA FileLengths ==
  ASSUME NEW f \in File
  PROVE  /\ f.dir \in Dir /\ f.pos \in 0 .. Count(f.dir) - 1 /\ Count(f.dir) \in Nat \ {0}
         /\ f = [dir |-> f.dir, pos |-> f.pos]
         /\ FileLength(f) \in Nat
<1>1. PICK d \in Dir : \E p \in 0 .. Count(d) - 1 : f = [dir |-> d, pos |-> p]
  BY FileFacts
<1>2. PICK p \in 0 .. Count(d) - 1 : f = [dir |-> d, pos |-> p]
  BY <1>1
<1>3. Files[d] \in Seq(Nat) /\ Count(d) \in Nat \ {0}
  BY ConstantFacts
<1>4. p + 1 \in 1 .. Len(Files[d])
  BY <1>3 DEF Count
<1>5. Files[d][p + 1] \in Nat
  BY <1>3, <1>4, ElementOfSeq
<1>6. QED
  BY <1>2, <1>3, <1>5 DEF FileLength

(* The file after f.                                                        *)
LEMMA NextIsFollowing ==
  ASSUME NEW f \in File
  PROVE  NextAfter(f, Following(f))
<1> DEFINE n == Count(f.dir)
           p == f.pos
<1>1. n \in Nat \ {0} /\ p \in Nat /\ p < n
  BY FileLengths
<1> HIDE DEF n, p
<1>2. p % n = p
  BY <1>1, SmallMod
<1>3. (p + 1) % n = IF p + 1 = n THEN 0 ELSE p + 1
  <2>1. p < 2 * n
    BY <1>1
  <2>2. (p + 1) % n = IF (p % n) + 1 = n THEN 0 ELSE (p % n) + 1
    BY <1>1, <2>1, AroundTheList
  <2>3. QED
    BY <1>2, <2>2
<1>4. 1 \in 1 .. n /\ 1 .. 1 - 1 = {}
  BY <1>1
<1>5. QED
  BY <1>3, <1>4 DEF NextAfter, Following, n, p

(* An empty file is passed over.                                            *)
LEMMA NextPassesEmpty ==
  ASSUME NEW f \in File, NEW g \in File, NextAfter(f, g), FileLength(g) = 0, FileLength(f) > 0
  PROVE  NextAfter(f, Following(g))
<1> DEFINE n == Count(f.dir)
<1>1. n \in Nat \ {0} /\ f.pos \in Nat /\ f.pos < n
  BY FileLengths
<1>2. PICK k \in 1 .. n :
         /\ g = [dir |-> f.dir, pos |-> (f.pos + k) % n]
         /\ \A j \in 1 .. k - 1 : Files[f.dir][((f.pos + j) % n) + 1] = 0
  BY DEF NextAfter
<1>3. k # n
  <2> SUFFICES ASSUME k = n PROVE FALSE
    OBVIOUS
  <2>1. (f.pos + n) % n = f.pos
    BY <1>1
  <2>2. g = f
    BY <1>2, <2>1, FileLengths
  <2>3. QED
    BY <2>2
<1>4. k + 1 \in 1 .. n /\ k \in Nat /\ k < n
  BY <1>1, <1>2, <1>3
<1>5. (f.pos + (k + 1)) % n = IF ((f.pos + k) % n) + 1 = n THEN 0 ELSE ((f.pos + k) % n) + 1
  <2>1. f.pos + k \in Nat /\ f.pos + k < 2 * n
    BY <1>1, <1>4
  <2>2. f.pos + (k + 1) = (f.pos + k) + 1
    BY <1>1, <1>4
  <2> DEFINE a == f.pos + k
  <2> HIDE DEF n, a
  <2>3. (a + 1) % n = IF (a % n) + 1 = n THEN 0 ELSE (a % n) + 1
    <3>1. a \in Nat /\ a < 2 * n
      BY <2>1 DEF a
    <3>2. QED
      BY <1>1, <3>1, AroundTheList
  <2>4. QED
    BY <2>2, <2>3 DEF a
<1>6. Following(g) = [dir |-> f.dir, pos |-> (f.pos + (k + 1)) % n]
  BY <1>2, <1>5 DEF Following
<1>7. Files[f.dir][((f.pos + k) % n) + 1] = 0
  BY <1>2 DEF FileLength
<1>8. \A j \in 1 .. (k + 1) - 1 : Files[f.dir][((f.pos + j) % n) + 1] = 0
  <2>1. \A j \in 1 .. (k + 1) - 1 : j = k \/ j \in 1 .. k - 1
    BY <1>4
  <2>2. QED
    BY <1>2, <1>7, <2>1
<1>9. QED
  BY <1>4, <1>6, <1>8 DEF NextAfter

-----------------------------------------------------------------------------
(* Steps that preserve the invariant *)

LEMMA PlayTypes ==
  ASSUME MediaInv, NEW c \in ChnId
  PROVE  /\ channel[c].offset \in Nat /\ channel[c].fd \in Fd \cup {NoFd}
         /\ segment[c].from \in Nat /\ segment[c].len \in Nat
         /\ segment[c].file \in File \cup {NoFile}
         /\ trouble[c] \in BOOLEAN /\ tbfsize[c] \in Nat /\ NoFd \notin Fd
<1>1. /\ channel[c] \in [dir : Dir \cup {0}, pos : Nat, fd : Fd \cup {NoFd}, offset : Nat]
      /\ segment[c] \in Segment /\ trouble[c] \in BOOLEAN /\ tbfsize[c] \in 0 .. ReadSize
  BY DEF MediaInv, MediaTypeOK
<1>2. NoFd \notin Fd
  BY DEF NoFd, Fd
<1>3. QED
  BY <1>1, <1>2, ConstantFacts DEF Segment

(* A channel the step leaves alone, or only moves between reads.            *)
LEMMA ChannelFrame ==
  ASSUME NEW c \in ChnId, ChannelPlays(c),
         channel'[c] = channel[c], segment'[c] = segment[c],
         trouble'[c] = trouble[c], tbfsize'[c] = tbfsize[c],
         \/ pc'[c] = pc[c]
         \/ pc[c] \notin {"next", "open"} /\ pc'[c] \notin {"read", "next", "open"}
  PROVE  ChannelPlays(c)'
<1>1. SegmentRead(c)' = SegmentRead(c) /\ Used(c)' = Used(c) /\ Place(c)' = Place(c)
  BY DEF SegmentRead, Used, Place
<1>2. Continues(c, segment[c]) => Continues(c, segment[c])'
  BY <1>1 DEF Continues
<1>3. FreshAfterTrouble(c)'
  BY DEF ChannelPlays, FreshAfterTrouble
<1>4. QED
  BY <1>1, <1>2, <1>3 DEF ChannelPlays

(* mlib_readchn changes nothing of another channel.                         *)
LEMMA OtherChannels ==
  ASSUME MediaInv, PlayInv, NEW c \in ChnId, ReadChannel(c), NEW d \in ChnId, d # c
  PROVE  ChannelPlays(d)'
<1>0. MediaTypeOK /\ ChannelPlays(d)
  BY DEF MediaInv, PlayInv
<1>1. channel'[d] = channel[d]
  BY <1>0 DEF ReadChannel, FetchTokens, ReadData, ReadEnd, ReadFails, NextFile, OpenOk, OpenFails,
              MediaTypeOK
<1>2. segment'[d] = segment[d] /\ trouble'[d] = trouble[d]
  BY <1>0 DEF ReadChannel, FetchTokens, ReadData, ReadEnd, ReadFails, NextFile, OpenOk, OpenFails,
              MediaTypeOK, readVars
<1>3. tbfsize'[d] = tbfsize[d] /\ pc'[d] = pc[d]
  BY <1>0, SMTT(30) DEF ReadChannel, FetchTokens, ReadData, ReadEnd, ReadFails, NextFile, OpenOk, OpenFails,
              AfterOpenNext, MediaTypeOK, readVars
<1>4. QED
  BY <1>0, <1>1, <1>2, <1>3, ChannelFrame

(* What a channel reads is the file at its position.                        *)
LEMMA ReadsPlace ==
  ASSUME MediaInv, NEW c \in ChnId, pc[c] = "read", OpenFile(c) # NoFile
  PROVE  /\ channel[c].fd \in Fd /\ Used(c)
         /\ OpenFile(c) = Place(c) /\ Place(c) \in File
         /\ FileLength(Place(c)) \in Nat
<1>1. channel[c].fd \in Fd /\ OpenFile(c) = fds[channel[c].fd]
  BY DEF OpenFile
<1>2. Used(c)
  BY <1>1 DEF MediaInv, OnlyUsed
<1>3. OwnsDescriptor(c)
  BY DEF MediaInv, DescriptorsOwned
<1>4. OpenFile(c) = Place(c)
  BY <1>1, <1>3 DEF OwnsDescriptor, Place
<1>5. Place(c) \in File
  BY <1>2, ChannelFile DEF Place
<1>6. QED
  BY <1>1, <1>2, <1>4, <1>5, FileLengths

LEMMA FetchPlays ==
  ASSUME MediaInv, PlayInv, NEW c \in ChnId, FetchTokens(c)
  PROVE  ChannelPlays(c)'
<1>0. MediaTypeOK /\ ChannelPlays(c)
  BY DEF MediaInv, PlayInv
<1>1. PICK n \in 1 .. ReadSize : tbfsize' = [tbfsize EXCEPT ![c] = n]
  BY DEF FetchTokens
<1>2. /\ pc[c] = "fetch" /\ pc'[c] = "read" /\ tbfsize'[c] > 0
      /\ channel' = channel /\ segment' = segment /\ trouble' = trouble
  BY <1>0, <1>1, ConstantFacts DEF FetchTokens, MediaTypeOK
<1>3. SegmentRead(c)' = SegmentRead(c) /\ Used(c)' = Used(c) /\ Place(c)' = Place(c)
  BY <1>2 DEF SegmentRead, Used, Place
<1>4. Continues(c, segment[c]) => Continues(c, segment[c])'
  BY <1>2, <1>3 DEF Continues
<1>5. FreshAfterTrouble(c)'
  BY <1>0, <1>2 DEF ChannelPlays, FreshAfterTrouble
<1>6. QED
  BY <1>0, <1>2, <1>3, <1>4, <1>5 DEF ChannelPlays

LEMMA DataPlays ==
  ASSUME MediaInv, PlayInv, NEW c \in ChnId, ReadData(c)
  PROVE  ChannelPlays(c)' /\ Follows(c, segment'[c])
<1>0. MediaTypeOK /\ ChannelPlays(c)
  BY DEF MediaInv, PlayInv
<1> DEFINE n == IF Rest(c) < tbfsize[c] THEN Rest(c) ELSE tbfsize[c]
           o == channel[c].offset
<1>1. /\ pc[c] = "read" /\ pc'[c] = "send" /\ trouble'[c] = FALSE
      /\ segment'[c] = [file |-> OpenFile(c), from |-> o, len |-> n]
      /\ channel' = [channel EXCEPT ![c].offset = @ + n]
      /\ OpenFile(c) # NoFile /\ Rest(c) > 0
  BY <1>0 DEF ReadData, MediaTypeOK
<1>2. /\ OpenFile(c) = Place(c) /\ Place(c) \in File /\ Used(c) /\ channel[c].fd \in Fd
      /\ FileLength(Place(c)) \in Nat
  BY <1>1, ReadsPlace
<1>3. Rest(c) = FileLength(Place(c)) - o /\ o \in Nat
  BY <1>2, PlayTypes DEF Rest
<1>4. tbfsize[c] \in Nat /\ tbfsize[c] > 0
  BY <1>0, <1>1, PlayTypes DEF ChannelPlays
<1>5. n \in Nat /\ n > 0 /\ o + n <= FileLength(Place(c))
  BY <1>1, <1>2, <1>3, <1>4
<1>6. /\ channel'[c].dir = channel[c].dir /\ channel'[c].pos = channel[c].pos
      /\ channel'[c].offset = o + n /\ channel'[c].fd = channel[c].fd
  BY <1>0, <1>1 DEF MediaTypeOK
<1> HIDE DEF n, o
<1>7. Place(c)' = Place(c) /\ Used(c)' = Used(c)
  BY <1>6 DEF Place, Used
<1>8. segment'[c].file = Place(c) /\ segment'[c].from = o /\ segment'[c].len = n
  BY <1>1, <1>2
<1>9. ChannelPlays(c)'
  <2>1. SegmentRead(c)'
    BY <1>2, <1>5, <1>6, <1>8 DEF SegmentRead, Place
  <2>2. Continues(c, segment[c])'
    BY <1>1, <1>6, <1>7, <1>8 DEF Continues
  <2>3. segment'[c].file # NoFile
    BY <1>2, <1>8, FileFacts
  <2>4. FreshAfterTrouble(c)'
    BY <1>1 DEF FreshAfterTrouble
  <2>5. QED
    BY <1>1, <1>2, <1>7, <2>1, <2>2, <2>3, <2>4 DEF ChannelPlays
<1>10. Follows(c, segment'[c])
  <2>1. segment'[c].file.dir = channel[c].dir
    BY <1>8 DEF Place
  <2>2. CASE segment[c].file = NoFile
    <3>1. o = 0
      BY <1>0, <2>2 DEF ChannelPlays, o
    <3>2. QED
      BY <1>8, <2>1, <2>2, <3>1 DEF Follows
  <2>3. CASE trouble[c]
    <3>1. o = 0
      BY <1>0, <1>1, <1>2, <2>3 DEF ChannelPlays, FreshAfterTrouble, o
    <3>2. QED
      BY <1>8, <2>1, <2>3, <3>1 DEF Follows
  <2>4. CASE segment[c].file # NoFile /\ ~ trouble[c]
    <3>1. Continues(c, segment[c])
      BY <1>0, <2>4 DEF ChannelPlays
    <3>2. \/ Place(c) = segment[c].file /\ o = segment[c].from + segment[c].len
          \/ o = 0 /\ ReadOut(segment[c]) /\ NextAfter(segment[c].file, Place(c))
      BY <1>1, <3>1 DEF Continues, o
    <3>3. QED
      BY <1>8, <2>1, <2>4, <3>2 DEF Follows, ReadOut
  <2>5. QED
    BY <2>2, <2>3, <2>4
<1>11. QED
  BY <1>9, <1>10

LEMMA EndPlays ==
  ASSUME MediaInv, PlayInv, NEW c \in ChnId, ReadEnd(c)
  PROVE  ChannelPlays(c)'
<1>0. MediaTypeOK /\ ChannelPlays(c)
  BY DEF MediaInv, PlayInv
<1>1. /\ pc[c] = "read" /\ pc'[c] = "next" /\ OpenFile(c) # NoFile /\ Rest(c) <= 0
      /\ UNCHANGED <<channel, tbfsize, segment, trouble>>
  BY <1>0 DEF ReadEnd, MediaTypeOK
<1>2. /\ OpenFile(c) = Place(c) /\ Place(c) \in File /\ Used(c)
      /\ FileLength(Place(c)) \in Nat
  BY <1>1, ReadsPlace
<1>3. FileLength(Place(c)) <= channel[c].offset /\ channel[c].offset \in Nat
  BY <1>1, <1>2, PlayTypes DEF Rest
<1>4. SegmentRead(c)' = SegmentRead(c) /\ Used(c)' = Used(c) /\ Place(c)' = Place(c)
  BY <1>1 DEF SegmentRead, Used, Place
<1>5. ASSUME segment[c].file # NoFile, ~ trouble[c]
      PROVE  Continues(c, segment[c])'
  <2>1. SegmentRead(c) /\ Continues(c, segment[c])
    BY <1>0, <1>5 DEF ChannelPlays
  <2>2. segment[c].from \in Nat /\ segment[c].len \in Nat
    BY PlayTypes
  <2>3. CASE Place(c) = segment[c].file /\ channel[c].offset = segment[c].from + segment[c].len
    <3>1. ReadOut(segment[c])
      BY <1>2, <1>3, <2>1, <2>2, <2>3 DEF ReadOut, SegmentRead
    <3>2. QED
      BY <1>1, <1>4, <2>3, <3>1 DEF Continues, ReadOut
  <2>4. CASE channel[c].offset = 0 /\ ReadOut(segment[c]) /\ NextAfter(segment[c].file, Place(c))
    <3>1. FileLength(Place(c)) = 0
      BY <1>2, <1>3, <2>4
    <3>2. QED
      BY <1>1, <1>4, <2>4, <3>1 DEF Continues, ReadOut
  <2>5. QED
    BY <1>1, <2>1, <2>3, <2>4 DEF Continues
<1>6. FreshAfterTrouble(c)'
  BY <1>1 DEF FreshAfterTrouble
<1>7. QED
  BY <1>0, <1>1, <1>4, <1>5, <1>6 DEF ChannelPlays

LEMMA FailurePlays ==
  ASSUME MediaInv, PlayInv, NEW c \in ChnId, ReadFails(c)
  PROVE  ChannelPlays(c)'
<1>0. MediaTypeOK /\ ChannelPlays(c)
  BY DEF MediaInv, PlayInv
<1>1. /\ pc[c] = "read" /\ pc'[c] = "next" /\ trouble'[c] = TRUE
      /\ UNCHANGED <<channel, tbfsize, segment>>
  BY <1>0 DEF ReadFails, MediaTypeOK
<1>2. SegmentRead(c)' = SegmentRead(c) /\ Used(c)' = Used(c)
  BY <1>1 DEF SegmentRead, Used
<1>3. FreshAfterTrouble(c)'
  BY <1>1 DEF FreshAfterTrouble
<1>4. QED
  BY <1>0, <1>1, <1>2, <1>3 DEF ChannelPlays

LEMMA NextPlays ==
  ASSUME MediaInv, PlayInv, NEW c \in ChnId, NextFile(c)
  PROVE  ChannelPlays(c)'
<1>0. MediaTypeOK /\ ChannelPlays(c)
  BY DEF MediaInv, PlayInv
<1>1. /\ pc[c] = "next" /\ pc'[c] = "open"
      /\ channel' = [channel EXCEPT ![c].pos =
                       IF @ + 1 = Count(channel[c].dir) THEN 0 ELSE @ + 1]
      /\ UNCHANGED <<tbfsize, segment, trouble>>
  BY <1>0 DEF NextFile, MediaTypeOK, readVars
<1>2. /\ channel'[c].dir = channel[c].dir /\ channel'[c].fd = channel[c].fd
      /\ channel'[c].offset = channel[c].offset
      /\ channel'[c].pos = IF channel[c].pos + 1 = Count(channel[c].dir) THEN 0
                                                                        ELSE channel[c].pos + 1
  BY <1>0, <1>1 DEF MediaTypeOK
<1>3. Place(c)' = Following(Place(c))
  BY <1>2 DEF Place, Following
<1>4. SegmentRead(c)' = SegmentRead(c) /\ Used(c)' = Used(c)
  BY <1>1, <1>2 DEF SegmentRead, Used
<1>5. ASSUME segment[c].file # NoFile, ~ trouble[c]
      PROVE  Continues(c, segment[c])'
  <2>1. SegmentRead(c) /\ Continues(c, segment[c])
    BY <1>0, <1>5 DEF ChannelPlays
  <2>2. /\ ReadOut(segment[c])
        /\ \/ Place(c) = segment[c].file
           \/ NextAfter(segment[c].file, Place(c)) /\ FileLength(Place(c)) = 0
    BY <1>1, <2>1 DEF Continues
  <2>3. segment[c].file \in File /\ FileLength(segment[c].file) > 0
    <3>1. segment[c].from \in Nat /\ segment[c].len \in Nat /\ segment[c].len > 0
      BY <2>1, PlayTypes DEF SegmentRead
    <3>2. segment[c].file \in File /\ FileLength(segment[c].file) \in Nat
      BY <2>1, FileLengths DEF SegmentRead
    <3>3. QED
      BY <2>2, <3>1, <3>2 DEF ReadOut
  <2>4. Place(c) \in File
    <3>1. Used(c)
      BY <1>0, <1>5 DEF ChannelPlays
    <3>2. QED
      BY <3>1, ChannelFile DEF Place
  <2>5. NextAfter(segment[c].file, Following(Place(c)))
    BY <2>2, <2>3, <2>4, NextIsFollowing, NextPassesEmpty
  <2>6. QED
    BY <1>1, <1>3, <2>2, <2>5 DEF Continues, ReadOut
<1>6. FreshAfterTrouble(c)'
  BY <1>1 DEF FreshAfterTrouble
<1>7. QED
  BY <1>0, <1>1, <1>2, <1>4, <1>5, <1>6 DEF ChannelPlays

(* After open_next the channel reads on, with its tokens, or sends.         *)
LEMMA AfterOpenPlays ==
  ASSUME MediaInv, NEW c \in ChnId, tbfsize[c] > 0,
         AfterOpenNext(c)
  PROVE  /\ pc'[c] \in {"read", "send"}
         /\ pc'[c] = "read" => tbfsize'[c] > 0
BY DEF AfterOpenNext, MediaInv, MediaTypeOK

LEMMA OpenPlays ==
  ASSUME MediaInv, PlayInv, NEW c \in ChnId, OpenOk(c)
  PROVE  ChannelPlays(c)'
<1>0. MediaTypeOK /\ ChannelPlays(c)
  BY DEF MediaInv, PlayInv
<1>1. PICK f \in Fd : channel' = [channel EXCEPT ![c].fd = f, ![c].offset = 0]
  BY DEF OpenOk
<1>2. pc[c] = "open" /\ AfterOpenNext(c) /\ UNCHANGED <<segment, trouble>>
  BY DEF OpenOk
<1>3. /\ channel'[c].dir = channel[c].dir /\ channel'[c].pos = channel[c].pos
      /\ channel'[c].offset = 0
  BY <1>0, <1>1 DEF MediaTypeOK
<1>4. pc'[c] \in {"read", "send"} /\ (pc'[c] = "read" => tbfsize'[c] > 0)
  BY <1>0, <1>2, AfterOpenPlays DEF ChannelPlays
<1>5. SegmentRead(c)' = SegmentRead(c) /\ Used(c)' = Used(c) /\ Place(c)' = Place(c)
  BY <1>2, <1>3 DEF SegmentRead, Used, Place
<1>6. ASSUME segment[c].file # NoFile, ~ trouble[c]
      PROVE  Continues(c, segment[c])'
  <2>1. ReadOut(segment[c]) /\ NextAfter(segment[c].file, Place(c))
    BY <1>0, <1>2, <1>6 DEF ChannelPlays, Continues
  <2>2. QED
    BY <1>2, <1>3, <1>4, <1>5, <2>1 DEF Continues, ReadOut
<1>7. FreshAfterTrouble(c)'
  BY <1>3 DEF FreshAfterTrouble
<1>8. QED
  BY <1>0, <1>2, <1>3, <1>4, <1>5, <1>6, <1>7 DEF ChannelPlays

LEMMA OpenFailurePlays ==
  ASSUME MediaInv, PlayInv, NEW c \in ChnId, OpenFails(c)
  PROVE  ChannelPlays(c)'
<1>0. MediaTypeOK /\ ChannelPlays(c)
  BY DEF MediaInv, PlayInv
<1>1. /\ pc[c] = "open" /\ channel' = [channel EXCEPT ![c].fd = NoFd]
      /\ trouble' = [trouble EXCEPT ![c] = TRUE] /\ segment' = segment
  BY DEF OpenFails
<1>2. /\ channel'[c].dir = channel[c].dir /\ channel'[c].offset = channel[c].offset
      /\ channel'[c].fd = NoFd /\ trouble'[c] = TRUE
  BY <1>0, <1>1 DEF MediaTypeOK
<1>3. pc'[c] \in {"read", "next", "open"} => tbfsize'[c] > 0
  <2>1. tbfsize[c] > 0
    BY <1>0, <1>1 DEF ChannelPlays
  <2>2. CASE tried[c] + 1 < Count(channel[c].dir)
    BY <2>1, <2>2 DEF OpenFails
  <2>3. CASE ~ (tried[c] + 1 < Count(channel[c].dir))
    <3>1. AfterOpenNext(c)
      BY <2>3 DEF OpenFails
    <3>2. QED
      BY <2>1, <3>1, AfterOpenPlays
  <2>4. QED
    BY <2>2, <2>3
<1>4. SegmentRead(c)' = SegmentRead(c) /\ Used(c)' = Used(c)
  BY <1>1, <1>2 DEF SegmentRead, Used
<1>5. FreshAfterTrouble(c)'
  BY <1>2, PlayTypes DEF FreshAfterTrouble
<1>6. QED
  BY <1>0, <1>1, <1>2, <1>3, <1>4, <1>5 DEF ChannelPlays

LEMMA ReadPlays ==
  ASSUME MediaInv, PlayInv, NEW c \in ChnId, ReadChannel(c)
  PROVE  PlayInv'
<1>1. ChannelPlays(c)'
  BY FetchPlays, DataPlays, EndPlays, FailurePlays, NextPlays, OpenPlays, OpenFailurePlays
     DEF ReadChannel
<1>2. QED
  BY <1>1, OtherChannels DEF PlayInv

(* The scan gives a context to a channel that has none yet.                 *)
LEMMA ScanPlays ==
  ASSUME MediaInv, PlayInv, Scan
  PROVE  PlayInv'
<1>0. MediaTypeOK
  BY DEF MediaInv
<1>1. CASE ScanFails \/ NotAChannel \/ NoMp3 \/ EnterPastEnd \/ ScanDone
  <2>1. UNCHANGED <<channel, pc, segment, trouble, tbfsize>>
    BY <1>1 DEF ScanFails, NotAChannel, NoMp3, EnterPastEnd, ScanDone, readVars
  <2>2. QED
    BY <2>1, ChannelFrame DEF PlayInv
<1>2. CASE EnterChannel
  <2>1. PICK f \in Fd : channel' = [channel EXCEPT ![curr_id] =
                                      [dir |-> current, pos |-> 0, fd |-> f, offset |-> 0]]
    BY <1>2 DEF EnterChannel
  <2>2. curr_id \in ChnId /\ current \in Dir /\ UNCHANGED <<pc, segment, trouble, tbfsize>>
    BY <1>2 DEF EnterChannel, Scanning, readVars
  <2>3. \A c \in ChnId : c # curr_id => ChannelPlays(c)'
    BY <1>0, <2>1, <2>2, ChannelFrame DEF PlayInv, MediaTypeOK
  <2>4. ASSUME NEW c \in ChnId, c = curr_id
        PROVE  ChannelPlays(c)'
    <3>1. ~ Used(c) /\ pc[c] = "none"
      BY <2>4 DEF MediaInv, MediaTypeOK, IdsBounded, OnlyUsed
    <3>2. segment'[c].file = NoFile
      BY <2>2, <3>1 DEF PlayInv, ChannelPlays
    <3>3. channel'[c].offset = 0 /\ pc'[c] = "none"
      BY <1>0, <2>1, <2>2, <2>4, <3>1 DEF MediaTypeOK
    <3>4. QED
      BY <3>2, <3>3 DEF ChannelPlays, FreshAfterTrouble
  <2>5. QED
    BY <2>3, <2>4 DEF PlayInv
<1>3. QED
  BY <1>1, <1>2 DEF Scan

(* Steps of main() and of thr_channel_snder.                                *)
LEMMA SendingPlays ==
  ASSUME MediaInv, NotStarted, PlayInv,
         \/ CreateList \/ CreateChannel \/ CreateFails \/ CreateDone
         \/ \E c \in ChnId : SenderStart(c) \/ SenderNoMemory(c) \/ Send(c) \/ SendFails(c)
  PROVE  PlayInv'
<1>0. MediaTypeOK
  BY DEF MediaInv
<1>1. UNCHANGED <<channel, segment, trouble, tbfsize>>
  BY DEF CreateList, CreateChannel, CreateFails, CreateDone, SenderStart, SenderNoMemory, Send,
         SendFails, readVars
<1>2. ASSUME NEW d \in ChnId, NEW l \in {"start", "fetch", "ended"},
             pc[d] \notin {"next", "open"}, pc' = [pc EXCEPT ![d] = l]
      PROVE  PlayInv'
  <2>1. \A c \in ChnId : \/ pc'[c] = pc[c]
                         \/ /\ pc[c] \notin {"next", "open"}
                            /\ pc'[c] \notin {"read", "next", "open"}
    BY <1>0, <1>2 DEF MediaTypeOK
  <2>2. QED
    BY <1>1, <2>1, ChannelFrame DEF PlayInv
<1>3. ASSUME pc' = pc
      PROVE  PlayInv'
  BY <1>1, <1>3, ChannelFrame DEF PlayInv
<1>4. CASE CreateChannel
  <2> DEFINE d == chnlist[created + 1]
  <2>1. created + 1 \in 1 .. Len(chnlist) /\ chnlist \in Seq(ChnId) /\ created + 1 > created
    BY <1>4, LenProperties DEF CreateChannel, MediaInv, MediaTypeOK
  <2>2. d \in ChnId
    BY <2>1, ElementOfSeq
  <2>3. pc[d] = "none"
    BY <2>1 DEF NotStarted
  <2>4. pc' = [pc EXCEPT ![d] = "start"]
    BY <1>4 DEF CreateChannel
  <2> HIDE DEF d
  <2>5. QED
    BY <1>2, <2>2, <2>3, <2>4
<1>5. ASSUME NEW c \in ChnId, SenderStart(c) \/ Send(c) \/ SendFails(c)
      PROVE  PlayInv'
  <2>1. /\ pc[c] \notin {"next", "open"}
        /\ \E l \in {"fetch", "ended"} : pc' = [pc EXCEPT ![c] = l]
    BY <1>5 DEF SenderStart, Send, SendFails
  <2>2. QED
    BY <1>2, <2>1
<1>6. CASE \/ CreateList \/ CreateFails \/ CreateDone
           \/ \E c \in ChnId : SenderNoMemory(c)
  BY <1>3, <1>6 DEF CreateList, CreateFails, CreateDone, SenderNoMemory
<1>7. QED
  BY <1>4, <1>5, <1>6

LEMMA PlayStep == MediaInv /\ NotStarted /\ PlayInv /\ [Next]_vars => PlayInv'
<1> SUFFICES ASSUME MediaInv, NotStarted, PlayInv, [Next]_vars
             PROVE  PlayInv'
  OBVIOUS
<1>1. CASE UNCHANGED vars
  <2>1. UNCHANGED <<channel, pc, segment, trouble, tbfsize>>
    BY <1>1 DEF vars, mediaVars, readVars
  <2>2. QED
    BY <2>1, ChannelFrame DEF PlayInv
<1>2. CASE Main \/ CreateFails
  BY <1>2, ScanPlays, SendingPlays DEF Main
<1>3. ASSUME NEW c \in ChnId, Sender(c) \/ SenderNoMemory(c)
      PROVE  PlayInv'
  BY <1>3, ReadPlays, SendingPlays DEF Sender, Read
<1>4. QED
  BY <1>1, <1>2, <1>3 DEF Next

(* A part of a file that is read follows the last one.                      *)
LEMMA OrderStep ==
  ASSUME MediaInv, PlayInv, [Next]_vars, NEW c \in ChnId, segment'[c] # segment[c]
  PROVE  Follows(c, segment'[c])
<1>1. CASE UNCHANGED vars
  BY <1>1 DEF vars, mediaVars, readVars
<1>2. CASE Main \/ CreateFails
  <2>1. segment' = segment
    BY <1>2 DEF Main, Scan, ScanFails, NotAChannel, NoMp3, EnterChannel, EnterPastEnd, ScanDone,
                CreateList, CreateChannel, CreateDone, CreateFails, readVars
  <2>2. QED
    BY <2>1
<1>3. ASSUME NEW d \in ChnId, SenderStart(d) \/ SenderNoMemory(d) \/ Send(d) \/ SendFails(d)
      PROVE  segment' = segment
  BY <1>3 DEF SenderStart, SenderNoMemory, Send, SendFails, readVars
<1>4. ASSUME NEW d \in ChnId,
             \/ FetchTokens(d) \/ ReadEnd(d) \/ ReadFails(d) \/ NextFile(d)
             \/ OpenOk(d) \/ OpenFails(d)
      PROVE  segment' = segment
  BY <1>4 DEF FetchTokens, ReadEnd, ReadFails, NextFile, OpenOk, OpenFails, readVars
<1>5. ASSUME NEW d \in ChnId, ReadData(d)
      PROVE  Follows(c, segment'[c])
  <2>1. c = d
    BY <1>5 DEF ReadData, MediaInv, MediaTypeOK
  <2>2. QED
    BY <1>5, <2>1, DataPlays
<1>6. QED
  BY <1>1, <1>2, <1>3, <1>4, <1>5 DEF Next, Sender, Read, ReadChannel

LEMMA PlayInit == Init => PlayInv /\ NotStarted
<1> SUFFICES ASSUME Init
             PROVE  PlayInv /\ NotStarted
  OBVIOUS
<1>1. NotStarted
  BY EmptySeq DEF Init, MediaInit, NotStarted
<1>2. ASSUME NEW c \in ChnId
      PROVE  ChannelPlays(c)
  <2>1. channel[c].offset = 0 /\ segment[c].file = NoFile /\ pc[c] = "none"
    BY DEF Init, MediaInit, NoContext, NoSegment
  <2>2. QED
    BY <2>1 DEF ChannelPlays, FreshAfterTrouble
<1>3. QED
  BY <1>1, <1>2 DEF PlayInv

(* For any media directory and any size of a read, whatever the threads     *)
(* interleave: each channel plays its files one after another, from start   *)
(* to end and around the list, and a part is left out only where a file has *)
(* failed (medialib.c:161-184,197-217).                                     *)
THEOREM FilesPlayInOrder == SafetySpec => PlaysInOrder
<1> DEFINE InOrder == \A c \in ChnId : segment'[c] # segment[c] => Follows(c, segment'[c])
<1>1. MediaInv /\ NotStarted /\ PlayInv /\ [Next]_vars => NotStarted' /\ PlayInv'
  BY NotStartedStep, PlayStep
<1>2. MediaInv /\ PlayInv /\ [Next]_vars => [InOrder]_mediaVars
  BY OrderStep
<1>3. QED
  BY <1>1, <1>2, PlayInit, MediaInvariant, PTL DEF SafetySpec, PlaysInOrder
=============================================================================
