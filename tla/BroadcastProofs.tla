-------------------------- MODULE BroadcastProofs --------------------------
(***************************************************************************)
(* Proofs about the media library and the channel threads, for any media   *)
(* directory and any number of channels: the list agrees with the          *)
(* channels, every channel reads its own descriptor, and the scan does not *)
(* write past the end of channel[] if there are not too many directories;  *)
(* and the client that listens counts its losses exactly.                  *)
(***************************************************************************)
EXTENDS Broadcast, SeqProofs, SequenceTheorems

-----------------------------------------------------------------------------
(* The inductive invariant *)

(* Identifiers are given out in order, at most one for a directory.         *)
IdsBounded ==
  /\ curr_id <= current
  /\ \A c \in ChnId : Used(c) => c < curr_id /\ channel[c].dir < current

ChannelsOrdered ==
  \A c, d \in ChnId : Used(c) /\ Used(d) /\ c < d => channel[c].dir < channel[d].dir

ListSorted == \A i, j \in 1 .. Len(chnlist) : i < j => chnlist[i] < chnlist[j]

ListUsed == \A c \in ChnId : Used(c) <=> \E i \in 1 .. Len(chnlist) : chnlist[i] = c

(* Only a channel that is used has a descriptor, or a thread.               *)
OnlyUsed ==
  \A c \in ChnId : channel[c].fd \in Fd \/ pc[c] # "none" => Used(c)

MediaInv ==
  /\ MediaTypeOK /\ created \in Nat
  /\ IdsBounded /\ ChannelsOrdered /\ ListSorted /\ ListUsed /\ OnlyUsed
  /\ DescriptorsOwned

(* main() creates the thread of a channel once.                             *)
NotStarted ==
  \A i \in 1 .. Len(chnlist) : i > created => pc[chnlist[i]] = "none"

-----------------------------------------------------------------------------
(* Facts about the constants *)

LEMMA SmallMod ==
  ASSUME NEW x \in Nat, NEW m \in Nat, x < m
  PROVE  x % m = x
BY SMT

LEMMA ConstantFacts ==
  /\ MAXCHNID \in Nat \ {0} /\ IdMod \in Nat /\ ReadSize \in Nat \ {0}
  /\ Len(Files) \in Nat /\ Len(Files) + 1 < IdMod
  /\ \A d \in Dir : d \in Nat /\ d > 0 /\ Files[d] \in Seq(Nat) /\ Count(d) \in Nat \ {0}
<1>1. \A d \in Dir : Files[d] \in Seq(Nat) /\ Files[d] # <<>>
  BY FilesAssumption DEF Dir
<1>2. \A d \in Dir : Count(d) \in Nat \ {0}
  BY <1>1, EmptySeq, LenProperties DEF Count
<1>3. Len(Files) \in Nat
  BY FilesAssumption
<1>4. \A d \in Dir : d \in Nat /\ d > 0
  BY <1>3 DEF Dir
<1>5. QED
  BY <1>1, <1>2, <1>3, <1>4, IdAssumption, ReadSizeAssumption

LEMMA FileFacts ==
  /\ \A f : f \in File <=> \E d \in Dir : \E p \in 0 .. Count(d) - 1 : f = [dir |-> d, pos |-> p]
  /\ NoFile \notin File
<1>1. \A f : f \in File <=> \E d \in Dir : \E p \in 0 .. Count(d) - 1 : f = [dir |-> d, pos |-> p]
  BY DEF File
<1>2. NoFile \notin File
  BY <1>1, ConstantFacts DEF NoFile
<1>3. QED
  BY <1>1, <1>2

(* What a channel's descriptor may stand for is a file.                     *)
LEMMA ChannelFile ==
  ASSUME MediaInv, NEW c \in ChnId, Used(c)
  PROVE  /\ [dir |-> channel[c].dir, pos |-> channel[c].pos] \in File
         /\ [dir |-> channel[c].dir, pos |-> channel[c].pos] # NoFile
BY ConstantFacts, FileFacts DEF MediaInv, MediaTypeOK, Used

(* Two channels never hold the same descriptor.                             *)
LEMMA DescriptorsDistinct ==
  ASSUME MediaInv, NEW c \in ChnId, NEW d \in ChnId, c # d,
         pc[c] # "open", pc[d] # "open", channel[c].fd \in Fd
  PROVE  channel[c].fd # channel[d].fd
<1> SUFFICES ASSUME channel[c].fd = channel[d].fd
             PROVE  FALSE
  OBVIOUS
<1>1. Used(c) /\ Used(d)
  BY DEF MediaInv, OnlyUsed
<1>2. channel[c].dir = channel[d].dir
  <2>1. OwnsDescriptor(c) /\ OwnsDescriptor(d)
    BY DEF MediaInv, DescriptorsOwned
  <2>2. [dir |-> channel[c].dir, pos |-> channel[c].pos]
          = [dir |-> channel[d].dir, pos |-> channel[d].pos]
    BY <2>1 DEF OwnsDescriptor
  <2>3. QED
    BY <2>2
<1>3. c < d \/ d < c
  BY ConstantFacts DEF ChnId, MINCHNID
<1>4. channel[c].dir \in Nat
  BY <1>1, ConstantFacts DEF Used
<1>5. QED
  BY <1>1, <1>2, <1>3, <1>4 DEF MediaInv, ChannelsOrdered

(* curr_id does not wrap.                                                   *)
LEMMA NextId ==
  ASSUME MediaInv, current \in Dir
  PROVE  /\ curr_id + 1 \in 1 .. IdMod - 1 /\ current + 1 \in 1 .. Len(Files) + 1
         /\ (curr_id + 1) % IdMod = curr_id + 1
<1>1. curr_id \in Nat /\ current \in Nat /\ curr_id <= current /\ current <= Len(Files)
  BY ConstantFacts DEF MediaInv, MediaTypeOK, IdsBounded, Dir
<1>2. curr_id + 1 \in Nat /\ curr_id + 1 < IdMod
  BY <1>1, ConstantFacts
<1>3. QED
  BY <1>1, <1>2, ConstantFacts, SmallMod DEF MediaInv, MediaTypeOK

-----------------------------------------------------------------------------
(* Types *)

LEMMA ScanType ==
  ASSUME MediaInv, Scan
  PROVE  MediaTypeOK'
<1> USE DEF MediaInv, MediaTypeOK, scanVars, readVars, Running, Scanning, Used
<1>1. CASE ScanFails \/ EnterPastEnd
  BY <1>1 DEF ScanFails, EnterPastEnd
<1>2. CASE ScanDone
  BY <1>2 DEF ScanDone
<1>3. CASE NotAChannel
  BY <1>3 DEF NotAChannel, Dir
<1>4. CASE NoMp3
  BY <1>4, NextId DEF NoMp3
<1>5. CASE EnterChannel
  <2>1. PICK f \in Fd :
          /\ fds' = [fds EXCEPT ![f] = [dir |-> current, pos |-> 0]]
          /\ channel' = [channel EXCEPT ![curr_id] =
                           [dir |-> current, pos |-> 0, fd |-> f, offset |-> 0]]
    BY <1>5 DEF EnterChannel
  <2>2. current \in Dir /\ curr_id \in ChnId
    BY <1>5 DEF EnterChannel
  <2>3. [dir |-> current, pos |-> 0] \in File
    <3>1. 0 \in 0 .. Count(current) - 1
      BY <2>2, ConstantFacts
    <3>2. QED
      BY <2>2, <3>1, FileFacts
  <2>4. fds' \in [Fd -> File \cup {NoFile}]
    BY <2>1, <2>3
  <2>5. channel' \in [ChnId -> [dir : Dir \cup {0}, pos : Nat, fd : Fd \cup {NoFd}, offset : Nat]]
    BY <2>1, <2>2
  <2>6. \A c \in ChnId : channel'[c].dir \in Dir => channel'[c].pos < Count(channel'[c].dir)
    BY <2>1, <2>2, ConstantFacts, SMTT(30)
  <2>7. chnlist' \in Seq(ChnId)
    BY <1>5, <2>2, AppendProperties DEF EnterChannel
  <2>8. curr_id' \in 1 .. IdMod - 1 /\ current' \in 1 .. Len(Files) + 1
    BY <1>5, <2>2, NextId DEF EnterChannel
  <2>9. QED
    BY <1>5, <2>4, <2>5, <2>6, <2>7, <2>8 DEF EnterChannel
<1>6. QED
  BY <1>1, <1>2, <1>3, <1>4, <1>5 DEF Scan

LEMMA AfterOpenNextType ==
  ASSUME MediaTypeOK, NEW c \in ChnId, AfterOpenNext(c)
  PROVE  /\ pc' \in [ChnId -> {"none", "start", "fetch", "read", "next", "open", "send", "ended"}]
         /\ tbfsize' \in [ChnId -> 0 .. ReadSize]
<1>1. [tbfsize EXCEPT ![c] = 0] \in [ChnId -> 0 .. ReadSize]
  BY ReadSizeAssumption DEF MediaTypeOK
<1>2. tbfsize' \in [ChnId -> 0 .. ReadSize]
  BY <1>1 DEF MediaTypeOK, AfterOpenNext
<1>3. \A x \in {"read", "send"} :
        [pc EXCEPT ![c] = x]
          \in [ChnId -> {"none", "start", "fetch", "read", "next", "open", "send", "ended"}]
  BY DEF MediaTypeOK
<1>4. QED
  BY <1>2, <1>3 DEF AfterOpenNext

(* A channel whose position, descriptor or offset changes is still a channel. *)
Channels == [ChnId -> [dir : Dir \cup {0}, pos : Nat, fd : Fd \cup {NoFd}, offset : Nat]]

LEMMA ChannelsKept ==
  ASSUME channel \in Channels, NEW c \in ChnId
  PROVE  /\ \A p \in Nat : [channel EXCEPT ![c].pos = p] \in Channels
         /\ \A o \in Nat : [channel EXCEPT ![c].offset = o] \in Channels
         /\ \A f \in Fd \cup {NoFd} : [channel EXCEPT ![c].fd = f] \in Channels
         /\ \A f \in Fd \cup {NoFd} :
              [channel EXCEPT ![c] = [@ EXCEPT !.fd = f, !.offset = 0]] \in Channels
<1> DEFINE Dirs == Dir \cup {0}
           Fds == Fd \cup {NoFd}
           R == [dir : Dirs, pos : Nat, fd : Fds, offset : Nat]
<1> HIDE DEF Dirs, Fds
<1>1. channel[c] \in R /\ \A r \in R : [channel EXCEPT ![c] = r] \in [ChnId -> R]
  BY DEF Channels, Dirs, Fds
<1>2. \A r \in R, p \in Nat : [r EXCEPT !.pos = p] \in R
  OBVIOUS
<1>3. \A r \in R, o \in Nat : [r EXCEPT !.offset = o] \in R
  OBVIOUS
<1>4. \A r \in R, f \in Fds : [r EXCEPT !.fd = f] \in R
  OBVIOUS
<1>5. \A r \in R, f \in Fds : [r EXCEPT !.fd = f, !.offset = 0] \in R
  OBVIOUS
<1> HIDE DEF R
<1>6. Channels = [ChnId -> R]
  BY DEF Channels, R, Dirs, Fds
<1>7. QED
  BY <1>1, <1>2, <1>3, <1>4, <1>5, <1>6 DEF Fds

LEMMA ReadType ==
  ASSUME MediaInv, NEW c \in ChnId, ReadChannel(c)
  PROVE  MediaTypeOK'
<1> USE DEF MediaInv, MediaTypeOK, scanVars, readVars, Running, Used
<1>0. Used(c) /\ channel \in Channels
  BY DEF Channels, OnlyUsed, ReadChannel, FetchTokens, ReadData, ReadEnd, ReadFails, NextFile, OpenOk, OpenFails
<1>1. CASE FetchTokens(c)
  BY <1>1, ConstantFacts, SMTT(30) DEF FetchTokens
<1>2. CASE ReadData(c)
  <2>1. channel[c].fd \in Fd /\ OpenFile(c) \in File
    BY <1>2 DEF ReadData, OpenFile
  <2>2. FileLength(OpenFile(c)) \in Nat /\ Rest(c) \in Int
    <3>1. PICK d \in Dir : \E p \in 0 .. Count(d) - 1 : OpenFile(c) = [dir |-> d, pos |-> p]
      BY <2>1, FileFacts
    <3>2. PICK p \in 0 .. Count(d) - 1 : OpenFile(c) = [dir |-> d, pos |-> p]
      BY <3>1
    <3>3. p + 1 \in 1 .. Len(Files[d]) /\ Files[d] \in Seq(Nat)
      BY <3>2, ConstantFacts DEF Count
    <3>4. Files[d][p + 1] \in Nat
      BY <3>3, ElementOfSeq
    <3>5. FileLength(OpenFile(c)) = Files[d][p + 1]
      BY <3>2 DEF FileLength
    <3>6. QED
      BY <3>4, <3>5, SMTT(30) DEF Rest
  <2> DEFINE n == IF Rest(c) < tbfsize[c] THEN Rest(c) ELSE tbfsize[c]
  <2> DEFINE m == channel[c].offset + n
  <2>3. n \in Nat /\ m \in Nat
    BY <1>2, <2>2, SMTT(30) DEF ReadData
  <2> HIDE DEF n
  <2>4. /\ len' = [len EXCEPT ![c] = n]
        /\ segment' = [segment EXCEPT ![c] =
                         [file |-> OpenFile(c), from |-> channel[c].offset, len |-> n]]
        /\ channel' = [channel EXCEPT ![c].offset = m]
    BY <1>2 DEF ReadData, n
  <2> HIDE DEF m
  <2>5. segment' \in [ChnId -> Segment]
    BY <2>1, <2>3, <2>4 DEF Segment
  <2>6. len' \in [ChnId -> Int]
    BY <2>3, <2>4
  <2>7. channel' \in Channels
    BY <1>0, <2>3, <2>4, ChannelsKept, Zenon
  <2>8. \A e \in ChnId : channel'[e].dir = channel[e].dir /\ channel'[e].pos = channel[e].pos
    BY <2>4
  <2>9. QED
    BY <1>2, <2>5, <2>6, <2>7, <2>8, ReadSizeAssumption, SMTT(30) DEF ReadData, Channels
<1>3. CASE ReadEnd(c)
  BY <1>3 DEF ReadEnd
<1>4. CASE ReadFails(c)
  BY <1>4, SMTT(30) DEF ReadFails
<1>5. CASE NextFile(c)
  <2> DEFINE q == IF channel[c].pos + 1 = Count(channel[c].dir) THEN 0 ELSE channel[c].pos + 1
  <2>1. q \in Nat /\ q < Count(channel[c].dir)
    BY <1>0, ConstantFacts, SMTT(30)
  <2> HIDE DEF q
  <2>2. channel' = [channel EXCEPT ![c].pos = q]
    BY <1>5 DEF NextFile, q
  <2>3. fds' \in [Fd -> File \cup {NoFile}]
    BY <1>5 DEF NextFile, Closed
  <2>4. channel' \in Channels
    BY <1>0, <2>1, <2>2, ChannelsKept, Zenon
  <2>5. \A e \in ChnId : channel'[e].dir \in Dir => channel'[e].pos < Count(channel'[e].dir)
    BY <2>1, <2>2, SMTT(30)
  <2>6. QED
    BY <1>5, <2>3, <2>4, <2>5 DEF NextFile, Channels
<1>6. CASE OpenOk(c)
  <2>1. PICK f \in Fd :
          /\ fds' = [fds EXCEPT ![f] = [dir |-> channel[c].dir, pos |-> channel[c].pos]]
          /\ channel' = [channel EXCEPT ![c] = [@ EXCEPT !.fd = f, !.offset = 0]]
    BY <1>6 DEF OpenOk
  <2>2. fds' \in [Fd -> File \cup {NoFile}]
    BY <1>0, <2>1, ChannelFile
  <2>3. channel' \in Channels
    BY <1>0, <2>1, ChannelsKept, Zenon
  <2>4. \A e \in ChnId : channel'[e].dir = channel[e].dir /\ channel'[e].pos = channel[e].pos
    BY <2>1
  <2>5. QED
    BY <1>6, <2>2, <2>3, <2>4, AfterOpenNextType DEF OpenOk, Channels
<1>7. CASE OpenFails(c)
  <2>1. channel' \in Channels
    <3>1. channel' = [channel EXCEPT ![c].fd = NoFd]
      BY <1>7 DEF OpenFails
    <3>2. QED
      BY <1>0, <3>1, ChannelsKept, Zenon
  <2>2. \A e \in ChnId : channel'[e].dir = channel[e].dir /\ channel'[e].pos = channel[e].pos
    BY <1>7 DEF OpenFails
  <2>3. pc' \in [ChnId -> {"none", "start", "fetch", "read", "next", "open", "send", "ended"}]
          /\ tbfsize' \in [ChnId -> 0 .. ReadSize]
    BY <1>7, AfterOpenNextType DEF OpenFails
  <2>4. process' \in {"running", "exited", "crashed"}
    BY <1>7 DEF OpenFails, Logged, MediaInv, MediaTypeOK
  <2>5. trouble' \in [ChnId -> BOOLEAN] /\ tried' \in [ChnId -> Nat]
    BY <1>7 DEF OpenFails, MediaInv, MediaTypeOK
  <2>6. QED
    BY <1>7, <2>1, <2>2, <2>3, <2>4, <2>5, SMTT(30) DEF OpenFails, Channels
<1>8. QED
  BY <1>1, <1>2, <1>3, <1>4, <1>5, <1>6, <1>7 DEF ReadChannel

(* A step that is not one of the scan or of mlib_readchn.                   *)
LEMMA OtherType ==
  ASSUME MediaInv,
         \/ CreateList \/ CreateChannel \/ CreateFails \/ CreateDone
         \/ \E c \in ChnId : SenderStart(c) \/ SenderNoMemory(c) \/ Send(c) \/ SendFails(c)
  PROVE  MediaTypeOK'
<1> USE DEF MediaInv, MediaTypeOK, scanVars, readVars, Running, Used
<1>1. CASE CreateList
  BY <1>1 DEF CreateList
<1>2. CASE CreateChannel
  BY <1>2 DEF CreateChannel
<1>3. CASE CreateFails \/ CreateDone
  BY <1>3 DEF CreateFails, CreateDone
<1>4. ASSUME NEW c \in ChnId, SenderStart(c) \/ SenderNoMemory(c) \/ SendFails(c)
      PROVE  MediaTypeOK'
  BY <1>4 DEF SenderStart, SenderNoMemory, SendFails
<1>5. ASSUME NEW c \in ChnId, Send(c)
      PROVE  MediaTypeOK'
  BY <1>5 DEF Send
<1>6. QED
  BY <1>1, <1>2, <1>3, <1>4, <1>5

-----------------------------------------------------------------------------
(* Steps that preserve the rest of the invariant *)

(* Steps that leave identifiers, list and descriptors as they are.          *)
LEMMA SameStructure ==
  ASSUME MediaInv, MediaTypeOK', created' \in Nat,
         curr_id' = curr_id, current' = current, chnlist' = chnlist, fds' = fds,
         \A c \in ChnId : /\ channel'[c].dir = channel[c].dir
                          /\ channel'[c].pos = channel[c].pos
                          /\ channel'[c].fd = channel[c].fd
                          /\ pc'[c] = "open" <=> pc[c] = "open"
                          /\ pc'[c] # "none" => Used(c)
  PROVE  MediaInv'
<1> USE DEF MediaInv, Used
<1>1. IdsBounded' /\ ChannelsOrdered' /\ ListSorted' /\ ListUsed'
  BY DEF IdsBounded, ChannelsOrdered, ListSorted, ListUsed
<1>2. OnlyUsed'
  BY DEF OnlyUsed
<1>3. DescriptorsOwned'
  BY DEF DescriptorsOwned, OwnsDescriptor
<1>4. QED
  BY <1>1, <1>2, <1>3

LEMMA ScanStep ==
  ASSUME MediaInv, Scan, created' = created
  PROVE  MediaInv'
<1>1. MediaTypeOK' /\ created' \in Nat
  BY ScanType DEF MediaInv
<1>2. CASE ScanFails \/ EnterPastEnd \/ ScanDone
  BY <1>1, <1>2, SameStructure
     DEF ScanFails, EnterPastEnd, ScanDone, scanVars, MediaInv, OnlyUsed
<1>3. CASE NotAChannel \/ NoMp3
  <2>1. /\ current' = current + 1 /\ curr_id' \in {curr_id, curr_id + 1}
        /\ UNCHANGED <<chnlist, channel, fds, pc>>
    BY <1>3, NextId DEF NotAChannel, NoMp3, Scanning
  <2>2. IdsBounded'
    <3>1. curr_id \in Int /\ current \in Int
      BY DEF MediaInv, MediaTypeOK
    <3>2. \A c \in ChnId : Used(c) => c \in Int /\ channel[c].dir \in Int
      BY ConstantFacts DEF Used, ChnId, MINCHNID
    <3>3. QED
      BY <2>1, <3>1, <3>2 DEF MediaInv, IdsBounded, Used
  <2>3. QED
    BY <1>1, <2>1, <2>2
       DEF MediaInv, ChannelsOrdered, ListSorted, ListUsed, OnlyUsed,
           DescriptorsOwned, OwnsDescriptor, Used
<1>4. CASE EnterChannel
  <2>1. PICK f \in Fd :
          /\ LowestFree(f)
          /\ fds' = [fds EXCEPT ![f] = [dir |-> current, pos |-> 0]]
          /\ channel' = [channel EXCEPT ![curr_id] =
                           [dir |-> current, pos |-> 0, fd |-> f, offset |-> 0]]
    BY <1>4 DEF EnterChannel
  <2>2. /\ current \in Dir /\ curr_id \in ChnId /\ pc' = pc
        /\ current' = current + 1 /\ chnlist' = Append(chnlist, curr_id)
        /\ curr_id' = curr_id + 1
    BY <1>4, NextId DEF EnterChannel, Scanning
  <2>3. /\ channel'[curr_id].dir = current
        /\ channel'[curr_id] = [dir |-> current, pos |-> 0, fd |-> f, offset |-> 0]
        /\ \A c \in ChnId : c # curr_id => channel'[c] = channel[c]
        /\ fds'[f] = [dir |-> current, pos |-> 0]
        /\ \A g \in Fd : g # f => fds'[g] = fds[g]
    BY <2>1, <2>2 DEF MediaInv, MediaTypeOK
  <2>4. ~ Used(curr_id) /\ pc[curr_id] = "none"
    <3>1. curr_id \in Int
      BY DEF MediaInv, MediaTypeOK
    <3>2. ~ Used(curr_id)
      BY <2>2, <3>1 DEF MediaInv, IdsBounded
    <3>3. QED
      BY <2>2, <3>2 DEF MediaInv, OnlyUsed
  <2>5. \A c \in ChnId : channel'[c].dir \in Dir <=> Used(c) \/ c = curr_id
    BY <2>2, <2>3 DEF Used
  <2>6. \A c \in ChnId : Used(c) => c \in Int /\ channel[c].dir \in Int
    BY ConstantFacts DEF Used, ChnId, MINCHNID
  <2>7. curr_id \in Int /\ current \in Int
    BY DEF MediaInv, MediaTypeOK
  <2>8. IdsBounded'
    <3>1. curr_id' <= current'
      BY <2>2, <2>7 DEF MediaInv, IdsBounded
    <3>2. ASSUME NEW c \in ChnId, Used(c)
          PROVE  c < curr_id' /\ channel'[c].dir < current'
      BY <2>2, <2>3, <2>4, <2>6, <2>7, <3>2 DEF MediaInv, IdsBounded
    <3>3. curr_id < curr_id' /\ channel'[curr_id].dir < current'
      BY <2>2, <2>3, <2>7
    <3>4. QED
      BY <2>5, <3>1, <3>2, <3>3 DEF IdsBounded, Used
  <2>9. ChannelsOrdered'
    <3>1. \A c \in ChnId : Used(c) => c < curr_id /\ channel[c].dir < current
      BY DEF MediaInv, IdsBounded
    <3>2. ASSUME NEW c \in ChnId, NEW d \in ChnId, Used(c), Used(d), c < d
          PROVE  channel'[c].dir < channel'[d].dir
      BY <2>3, <2>4, <3>2 DEF MediaInv, ChannelsOrdered
    <3>3. ASSUME NEW c \in ChnId, Used(c)
          PROVE  channel'[c].dir < channel'[curr_id].dir /\ ~ (curr_id < c)
      <4>1. c < curr_id /\ channel[c].dir < current /\ c \in Int
        BY <2>6, <3>1, <3>3
      <4>2. channel'[c] = channel[c]
        BY <2>3, <2>4, <3>3
      <4>3. QED
        BY <2>3, <2>7, <4>1, <4>2
    <3>4. ASSUME NEW c \in ChnId, NEW d \in ChnId, c < d,
                 channel'[c].dir \in Dir, channel'[d].dir \in Dir
          PROVE  channel'[c].dir < channel'[d].dir
      <4>1. (Used(c) \/ c = curr_id) /\ (Used(d) \/ d = curr_id)
        BY <2>5, <3>4
      <4>2. ~ (c = curr_id /\ d = curr_id)
        BY <2>7, <3>4
      <4>3. QED
        BY <3>2, <3>3, <3>4, <4>1, <4>2
    <3>5. QED
      BY <3>4 DEF ChannelsOrdered, Used
  <2>10. /\ chnlist \in Seq(ChnId) /\ Len(chnlist) \in Nat
         /\ Len(chnlist') = Len(chnlist) + 1
         /\ \A i \in 1 .. Len(chnlist) : chnlist'[i] = chnlist[i] /\ chnlist[i] \in ChnId
         /\ chnlist'[Len(chnlist) + 1] = curr_id
    BY <2>2, AppendProperties, LenProperties, ElementOfSeq DEF MediaInv, MediaTypeOK
  <2>11. \A i \in 1 .. Len(chnlist) : Used(chnlist[i])
    BY <2>10 DEF MediaInv, ListUsed
  <2>12. ListSorted'
    BY <2>7, <2>10, <2>11 DEF MediaInv, IdsBounded, ListSorted
  <2>13. ListUsed'
    <3>1. ASSUME NEW c \in ChnId, channel'[c].dir \in Dir
          PROVE  \E i \in 1 .. Len(chnlist') : chnlist'[i] = c
      <4>1. CASE c = curr_id
        BY <2>10, <4>1
      <4>2. CASE Used(c)
        <5>1. PICK i \in 1 .. Len(chnlist) : chnlist[i] = c
          BY <4>2 DEF MediaInv, ListUsed
        <5>2. QED
          BY <2>10, <5>1
      <4>3. QED
        BY <2>5, <3>1, <4>1, <4>2
    <3>2. ASSUME NEW i \in 1 .. Len(chnlist')
          PROVE  channel'[chnlist'[i]].dir \in Dir
      <4>1. CASE i \in 1 .. Len(chnlist)
        BY <2>5, <2>10, <2>11, <4>1
      <4>2. CASE i = Len(chnlist) + 1
        BY <2>2, <2>5, <2>10, <4>2
      <4>3. QED
        BY <2>10, <4>1, <4>2
    <3>3. QED
      BY <3>1, <3>2 DEF ListUsed, Used
  <2>14. OnlyUsed'
    BY <2>2, <2>3, <2>5 DEF MediaInv, OnlyUsed, Used
  <2>15. fds[f] = NoFile
    BY <2>1 DEF LowestFree
  <2>16. \A c \in ChnId : pc'[c] # "open" => OwnsDescriptor(c)'
    <3>1. ASSUME NEW c \in ChnId, pc'[c] # "open", c # curr_id, channel[c].fd \in Fd
          PROVE  /\ channel[c].fd # f
                 /\ fds[channel[c].fd] = [dir |-> channel[c].dir, pos |-> channel[c].pos]
      <4>1. Used(c) /\ pc[c] # "open"
        BY <2>2, <3>1 DEF MediaInv, OnlyUsed
      <4>2. fds[channel[c].fd] = [dir |-> channel[c].dir, pos |-> channel[c].pos]
        BY <3>1, <4>1 DEF MediaInv, DescriptorsOwned, OwnsDescriptor
      <4>3. QED
        BY <2>15, <4>1, <4>2, ChannelFile
    <3>2. QED
      BY <2>3, <3>1 DEF OwnsDescriptor
  <2>17. \A g \in Fd : fds'[g] # NoFile => \E c \in ChnId : channel'[c].fd = g /\ pc'[c] # "open"
    <3>1. ASSUME NEW g \in Fd, g # f, fds'[g] # NoFile
          PROVE  \E c \in ChnId : channel'[c].fd = g /\ pc'[c] # "open"
      <4>1. PICK c \in ChnId : channel[c].fd = g /\ pc[c] # "open"
        BY <2>3, <3>1 DEF MediaInv, DescriptorsOwned
      <4>2. Used(c)
        BY <4>1 DEF MediaInv, OnlyUsed
      <4>3. QED
        BY <2>2, <2>3, <2>4, <4>1, <4>2
    <3>2. QED
      BY <2>2, <2>3, <2>4, <3>1
  <2>18. QED
    BY <1>1, <2>8, <2>9, <2>12, <2>13, <2>14, <2>16, <2>17 DEF MediaInv, DescriptorsOwned
<1>5. QED
  BY <1>2, <1>3, <1>4 DEF Scan

LEMMA ReadStep ==
  ASSUME MediaInv, NEW c \in ChnId, ReadChannel(c), created' = created
  PROVE  MediaInv'
<1>1. MediaTypeOK' /\ created' \in Nat
  BY ReadType DEF MediaInv
<1>2. Used(c)
  BY DEF MediaInv, OnlyUsed, ReadChannel, FetchTokens, ReadData, ReadEnd, ReadFails,
         NextFile, OpenOk, OpenFails
<1>3. UNCHANGED <<curr_id, current, chnlist>>
  BY DEF ReadChannel, FetchTokens, ReadData, ReadEnd, ReadFails,
         NextFile, OpenOk, OpenFails, scanVars
<1>4. \A d \in ChnId : pc'[d] = "none" <=> pc[d] = "none"
  BY SMTT(30) DEF MediaInv, MediaTypeOK, ReadChannel, FetchTokens, ReadData, ReadEnd, ReadFails,
         NextFile, OpenOk, OpenFails, AfterOpenNext
<1>5. CASE FetchTokens(c) \/ ReadEnd(c) \/ ReadFails(c)
  <2>1. fds' = fds /\ channel' = channel
    BY <1>5 DEF FetchTokens, ReadEnd, ReadFails
  <2>2. \A d \in ChnId : pc'[d] = "open" <=> pc[d] = "open"
    BY <1>5 DEF FetchTokens, ReadEnd, ReadFails, MediaInv, MediaTypeOK
  <2>3. \A d \in ChnId : pc'[d] # "none" => Used(d)
    BY <1>4 DEF MediaInv, OnlyUsed
  <2>4. QED
    BY <1>1, <1>3, <2>1, <2>2, <2>3, SameStructure
<1>6. CASE ReadData(c)
  <2>1. fds' = fds /\ \A d \in ChnId : /\ channel'[d].dir = channel[d].dir
                                       /\ channel'[d].pos = channel[d].pos
                                       /\ channel'[d].fd = channel[d].fd
    BY <1>6, SMTT(30) DEF ReadData, MediaInv, MediaTypeOK
  <2>2. \A d \in ChnId : pc'[d] = "open" <=> pc[d] = "open"
    BY <1>6 DEF ReadData, MediaInv, MediaTypeOK
  <2>3. \A d \in ChnId : pc'[d] # "none" => Used(d)
    BY <1>4 DEF MediaInv, OnlyUsed
  <2>4. QED
    BY <1>1, <1>3, <2>1, <2>2, <2>3, SameStructure
<1>7. ASSUME \A d \in ChnId : channel'[d].dir = channel[d].dir,
             \A d \in ChnId : channel'[d].fd \in Fd => channel[d].fd \in Fd \/ d = c
      PROVE  /\ IdsBounded' /\ ChannelsOrdered' /\ ListSorted' /\ ListUsed' /\ OnlyUsed'
  BY <1>2, <1>3, <1>4, <1>7
     DEF MediaInv, IdsBounded, ChannelsOrdered, ListSorted, ListUsed, OnlyUsed, Used
<1>8. CASE NextFile(c)
  <2>1. /\ pc[c] # "open" /\ pc'[c] = "open"
        /\ \A d \in ChnId : channel'[d].dir = channel[d].dir /\ channel'[d].fd = channel[d].fd
        /\ \A d \in ChnId : d # c => channel'[d] = channel[d] /\ pc'[d] = pc[d]
    BY <1>8, SMTT(30) DEF NextFile, MediaInv, MediaTypeOK
  <2>2. \A g \in Fd : fds'[g] = IF g = channel[c].fd THEN NoFile ELSE fds[g]
    BY <1>8 DEF NextFile, Closed
  <2>3. \A d \in ChnId : pc'[d] # "open" => OwnsDescriptor(d)'
    <3>1. ASSUME NEW d \in ChnId, d # c, pc[d] # "open", channel[d].fd \in Fd
          PROVE  fds'[channel[d].fd] = [dir |-> channel[d].dir, pos |-> channel[d].pos]
      <4>1. channel[d].fd # channel[c].fd
        BY <2>1, <3>1, DescriptorsDistinct
      <4>2. fds[channel[d].fd] = [dir |-> channel[d].dir, pos |-> channel[d].pos]
        BY <3>1 DEF MediaInv, DescriptorsOwned, OwnsDescriptor
      <4>3. QED
        BY <2>2, <3>1, <4>1, <4>2
    <3>2. QED
      BY <2>1, <3>1 DEF OwnsDescriptor
  <2>4. ASSUME NEW g \in Fd, fds'[g] # NoFile
        PROVE  \E d \in ChnId : channel'[d].fd = g /\ pc'[d] # "open"
    <3>1. g # channel[c].fd /\ fds[g] # NoFile
      BY <2>2, <2>4
    <3>2. PICK d \in ChnId : channel[d].fd = g /\ pc[d] # "open"
      BY <3>1 DEF MediaInv, DescriptorsOwned
    <3>3. QED
      BY <2>1, <3>1, <3>2
  <2>5. QED
    BY <1>1, <1>7, <2>1, <2>3, <2>4 DEF MediaInv, DescriptorsOwned
<1>9. CASE OpenOk(c)
  <2>1. PICK f \in Fd :
          /\ LowestFree(f)
          /\ fds' = [fds EXCEPT ![f] = [dir |-> channel[c].dir, pos |-> channel[c].pos]]
          /\ channel' = [channel EXCEPT ![c] = [@ EXCEPT !.fd = f, !.offset = 0]]
    BY <1>9 DEF OpenOk
  <2>2. /\ pc[c] = "open" /\ pc'[c] # "open"
        /\ \A d \in ChnId : d # c => pc'[d] = pc[d]
    BY <1>9 DEF OpenOk, AfterOpenNext, MediaInv, MediaTypeOK
  <2>3. /\ channel'[c].fd = f
        /\ \A d \in ChnId : channel'[d].dir = channel[d].dir /\ channel'[d].pos = channel[d].pos
        /\ \A d \in ChnId : d # c => channel'[d] = channel[d]
        /\ fds'[f] = [dir |-> channel[c].dir, pos |-> channel[c].pos]
        /\ \A g \in Fd : g # f => fds'[g] = fds[g]
    BY <2>1 DEF MediaInv, MediaTypeOK
  <2>4. fds[f] = NoFile
    BY <2>1 DEF LowestFree
  <2>5. \A d \in ChnId : pc'[d] # "open" => OwnsDescriptor(d)'
    <3>1. ASSUME NEW d \in ChnId, d # c, pc[d] # "open", channel[d].fd \in Fd
          PROVE  fds'[channel[d].fd] = [dir |-> channel[d].dir, pos |-> channel[d].pos]
      <4>1. fds[channel[d].fd] = [dir |-> channel[d].dir, pos |-> channel[d].pos]
        BY <3>1 DEF MediaInv, DescriptorsOwned, OwnsDescriptor
      <4>2. fds[channel[d].fd] # NoFile
        BY <3>1, <4>1, ChannelFile DEF MediaInv, OnlyUsed
      <4>3. QED
        BY <2>3, <2>4, <3>1, <4>1, <4>2
    <3>2. QED
      BY <2>2, <2>3, <3>1 DEF OwnsDescriptor
  <2>6. ASSUME NEW g \in Fd, fds'[g] # NoFile
        PROVE  \E d \in ChnId : channel'[d].fd = g /\ pc'[d] # "open"
    <3>1. CASE g = f
      BY <2>2, <2>3, <3>1
    <3>2. CASE g # f
      <4>1. PICK d \in ChnId : channel[d].fd = g /\ pc[d] # "open"
        BY <2>3, <2>6, <3>2 DEF MediaInv, DescriptorsOwned
      <4>2. QED
        BY <2>2, <2>3, <4>1
    <3>3. QED
      BY <3>1, <3>2
  <2>7. QED
    BY <1>1, <1>7, <2>3, <2>5, <2>6 DEF MediaInv, DescriptorsOwned
<1>10. CASE OpenFails(c)
  <2>1. /\ pc[c] = "open" /\ fds' = fds
        /\ \A d \in ChnId : d # c => pc'[d] = pc[d]
    BY <1>10 DEF OpenFails, AfterOpenNext, MediaInv, MediaTypeOK
  <2>2. /\ channel'[c].fd \notin Fd
        /\ \A d \in ChnId : channel'[d].dir = channel[d].dir /\ channel'[d].pos = channel[d].pos
        /\ \A d \in ChnId : d # c => channel'[d] = channel[d]
    BY <1>10, SMTT(30) DEF OpenFails, MediaInv, MediaTypeOK, Fd, NoFd
  <2>3. \A d \in ChnId : pc'[d] # "open" => OwnsDescriptor(d)'
    BY <2>1, <2>2 DEF MediaInv, DescriptorsOwned, OwnsDescriptor
  <2>4. \A g \in Fd : fds'[g] # NoFile => \E d \in ChnId : channel'[d].fd = g /\ pc'[d] # "open"
    BY <2>1, <2>2 DEF MediaInv, DescriptorsOwned
  <2>5. QED
    BY <1>1, <1>7, <2>2, <2>3, <2>4 DEF MediaInv, DescriptorsOwned
<1>11. QED
  BY <1>5, <1>6, <1>8, <1>9, <1>10 DEF ReadChannel

LEMMA OtherStep ==
  ASSUME MediaInv, NotStarted,
         \/ CreateList \/ CreateChannel \/ CreateFails \/ CreateDone
         \/ \E c \in ChnId : SenderStart(c) \/ SenderNoMemory(c) \/ Send(c) \/ SendFails(c)
  PROVE  MediaInv'
<1>1. MediaTypeOK'
  BY OtherType
<1>2. \A c \in ChnId : pc[c] # "none" => Used(c)
  BY DEF MediaInv, OnlyUsed
<1>3. CASE CreateList \/ CreateFails \/ CreateDone
  BY <1>1, <1>2, <1>3, SameStructure
     DEF CreateList, CreateFails, CreateDone, scanVars, MediaInv
<1>4. CASE CreateChannel
  <2> DEFINE d == chnlist[created + 1]
  <2>1. d \in ChnId /\ Used(d) /\ pc[d] = "none"
    <3>1. created + 1 \in 1 .. Len(chnlist) /\ chnlist \in Seq(ChnId) /\ created + 1 > created
      BY <1>4, LenProperties DEF CreateChannel, MediaInv, MediaTypeOK
    <3>2. d \in ChnId
      BY <3>1, ElementOfSeq
    <3>3. QED
      BY <3>1, <3>2 DEF MediaInv, ListUsed, NotStarted
  <2>2. /\ pc' = [pc EXCEPT ![d] = "start"] /\ created' = created + 1
        /\ UNCHANGED <<curr_id, current, chnlist, fds, channel>>
    BY <1>4 DEF CreateChannel, scanVars
  <2> HIDE DEF d
  <2>4. \A c \in ChnId : (pc'[c] = "open" <=> pc[c] = "open") /\ (pc'[c] # "none" => Used(c))
    BY <1>2, <2>1, <2>2 DEF MediaInv, MediaTypeOK
  <2>5. created' \in Nat
    BY <2>2 DEF MediaInv
  <2>6. QED
    BY <1>1, <2>2, <2>4, <2>5, SameStructure
<1>5. ASSUME NEW c \in ChnId, SenderStart(c) \/ SenderNoMemory(c) \/ Send(c) \/ SendFails(c)
      PROVE  MediaInv'
  <2>1. UNCHANGED <<curr_id, current, chnlist, fds, channel, created>>
    BY <1>5 DEF SenderStart, SenderNoMemory, Send, SendFails, scanVars
  <2>2. \A d \in ChnId : (pc'[d] = "open" <=> pc[d] = "open") /\ (pc'[d] # "none" => Used(d))
    BY <1>2, <1>5 DEF SenderStart, SenderNoMemory, Send, SendFails, MediaInv, MediaTypeOK
  <2>3. created' \in Nat
    BY <2>1 DEF MediaInv
  <2>4. QED
    BY <1>1, <2>1, <2>2, <2>3, SameStructure
<1>6. QED
  BY <1>3, <1>4, <1>5

-----------------------------------------------------------------------------
(* The theorems *)

LEMMA MediaInit_Inv == Init => MediaInv
<1> SUFFICES ASSUME Init
             PROVE  MediaInv
  OBVIOUS
<1>1. \A c \in ChnId : channel[c] = NoContext /\ pc[c] = "none" /\ ~ Used(c)
  BY ConstantFacts DEF Init, MediaInit, NoContext, Used
<1>2. MediaTypeOK /\ created \in Nat
  <2>1. channel \in [ChnId -> [dir : Dir \cup {0}, pos : Nat, fd : Fd \cup {NoFd}, offset : Nat]]
    BY DEF Init, MediaInit, NoContext
  <2>2. segment \in [ChnId -> Segment]
    BY DEF Init, MediaInit, Segment, NoSegment
  <2>3. 1 \in 1 .. IdMod - 1 /\ 1 \in 1 .. Len(Files) + 1 /\ 0 \in 0 .. ReadSize
    BY ConstantFacts, IdAssumption
  <2>4. chnlist \in Seq(ChnId)
    BY EmptySeq DEF Init, MediaInit
  <2>5. QED
    BY <1>1, <2>1, <2>2, <2>3, <2>4 DEF Init, MediaInit, MediaTypeOK, MINCHNID
<1>3. Len(chnlist) = 0
  BY EmptySeq DEF Init, MediaInit
<1>4. IdsBounded /\ ChannelsOrdered /\ ListSorted /\ ListUsed
  BY <1>1, <1>3 DEF Init, MediaInit, MINCHNID, IdsBounded, ChannelsOrdered, ListSorted, ListUsed
<1>5. OnlyUsed
  BY <1>1 DEF OnlyUsed, NoContext, NoFd, Fd
<1>6. DescriptorsOwned
  BY <1>1 DEF Init, MediaInit, DescriptorsOwned, OwnsDescriptor, NoContext, NoFd, Fd
<1>7. QED
  BY <1>2, <1>4, <1>5, <1>6 DEF MediaInv

LEMMA MediaStep == MediaInv /\ NotStarted /\ [Next]_vars => MediaInv'
<1> SUFFICES ASSUME MediaInv, NotStarted, [Next]_vars
             PROVE  MediaInv'
  OBVIOUS
<1>1. CASE UNCHANGED vars
  <2>1. UNCHANGED <<mediaVars, created>>
    BY <1>1 DEF vars
  <2>2. UNCHANGED <<process, mpc, current, curr_id, chnlist, channel, fds, pc, created,
                    tbfsize, len, tried, segment, trouble>>
    BY <2>1 DEF mediaVars, scanVars, readVars
  <2>3. QED
    BY <2>2 DEF MediaInv, MediaTypeOK, IdsBounded, ChannelsOrdered, ListSorted, ListUsed,
                OnlyUsed, DescriptorsOwned, OwnsDescriptor, Used
<1>2. CASE Scan /\ UNCHANGED <<created, seq, clientVars>>
  BY <1>2, ScanStep
<1>3. CASE CreateList \/ CreateChannel \/ CreateFails \/ CreateDone
  BY <1>3, OtherStep
<1>4. ASSUME NEW c \in ChnId, Sender(c) \/ SenderNoMemory(c)
      PROVE  MediaInv'
  <2>1. CASE Read(c)
    BY <2>1, ReadStep DEF Read
  <2>2. CASE SenderStart(c) \/ SenderNoMemory(c) \/ Send(c) \/ SendFails(c)
    BY <2>2, OtherStep
  <2>3. QED
    BY <1>4, <2>1, <2>2 DEF Sender
<1>5. QED
  BY <1>1, <1>2, <1>3, <1>4 DEF Next, Main

LEMMA NotStartedStep == MediaInv /\ NotStarted /\ [Next]_vars => NotStarted'
<1> SUFFICES ASSUME MediaInv, NotStarted, [Next]_vars
             PROVE  NotStarted'
  OBVIOUS
<1>1. \A i \in 1 .. Len(chnlist) : chnlist[i] \in ChnId
  BY ElementOfSeq DEF MediaInv, MediaTypeOK
<1>2. Len(chnlist) \in Nat /\ created \in Nat
  BY LenProperties DEF MediaInv, MediaTypeOK
<1>3. ASSUME chnlist' = chnlist, created' = created,
             \A c \in ChnId : pc[c] = "none" => pc'[c] = "none"
      PROVE  NotStarted'
  BY <1>1, <1>3 DEF NotStarted
<1>4. CASE UNCHANGED vars
  BY <1>3, <1>4 DEF vars, mediaVars, scanVars
<1>5. CASE Scan /\ UNCHANGED <<created, seq, clientVars>>
  <2>1. CASE EnterChannel
    <3>1. /\ chnlist' = Append(chnlist, curr_id) /\ curr_id \in ChnId
          /\ pc' = pc /\ created' = created
      BY <1>5, <2>1 DEF EnterChannel
    <3>2. pc[curr_id] = "none"
      BY <3>1 DEF MediaInv, IdsBounded, MediaTypeOK, OnlyUsed
    <3>3. \A i \in 1 .. Len(chnlist') :
            chnlist'[i] = curr_id \/ (i \in 1 .. Len(chnlist) /\ chnlist'[i] = chnlist[i])
      BY <1>2, <3>1, AppendProperties DEF MediaInv, MediaTypeOK
    <3>4. QED
      BY <3>1, <3>2, <3>3 DEF NotStarted
  <2>2. CASE ScanFails \/ NotAChannel \/ NoMp3 \/ EnterPastEnd \/ ScanDone
    BY <1>3, <1>5, <2>2
       DEF ScanFails, NotAChannel, NoMp3, EnterPastEnd, ScanDone, scanVars
  <2>3. QED
    BY <1>5, <2>1, <2>2 DEF Scan
<1>6. CASE CreateList \/ CreateFails \/ CreateDone
  BY <1>3, <1>6 DEF CreateList, CreateFails, CreateDone, scanVars
<1>7. CASE CreateChannel
  <2>1. /\ pc' = [pc EXCEPT ![chnlist[created + 1]] = "start"] /\ created' = created + 1
        /\ chnlist' = chnlist /\ created < Len(chnlist)
    BY <1>7 DEF CreateChannel, scanVars
  <2>2. \A i \in 1 .. Len(chnlist) : i > created + 1 => chnlist[created + 1] # chnlist[i]
    <3>1. created + 1 \in 1 .. Len(chnlist)
      BY <1>2, <2>1
    <3>2. \A i \in 1 .. Len(chnlist) : chnlist[i] \in Int
      BY <1>1, ConstantFacts DEF ChnId, MINCHNID
    <3>3. QED
      BY <3>1, <3>2 DEF MediaInv, ListSorted
  <2>3. ASSUME NEW i \in 1 .. Len(chnlist), i > created + 1
        PROVE  pc'[chnlist[i]] = "none"
    <3>1. pc[chnlist[i]] = "none"
      BY <1>2, <2>3 DEF NotStarted
    <3>2. QED
      BY <1>1, <2>1, <2>2, <2>3, <3>1 DEF MediaInv, MediaTypeOK
  <2>4. QED
    BY <2>1, <2>3 DEF NotStarted
<1>8. ASSUME NEW c \in ChnId, Sender(c) \/ SenderNoMemory(c)
      PROVE  NotStarted'
  <2>1. chnlist' = chnlist /\ created' = created
    BY <1>8 DEF Sender, SenderNoMemory, SenderStart, Send, SendFails, Read, ReadChannel,
                FetchTokens, ReadData, ReadEnd, ReadFails, NextFile, OpenOk, OpenFails, scanVars
  <2>2. pc[c] # "none" /\ \A d \in ChnId : d # c => pc'[d] = pc[d]
    BY <1>8 DEF Sender, SenderNoMemory, SenderStart, Send, SendFails, Read, ReadChannel,
                FetchTokens, ReadData, ReadEnd, ReadFails, NextFile, OpenOk, OpenFails,
                AfterOpenNext, MediaInv, MediaTypeOK
  <2>3. QED
    BY <1>3, <2>1, <2>2
<1>9. QED
  BY <1>4, <1>5, <1>6, <1>7, <1>8 DEF Next, Main

(* The inductive invariant of the scan, of main() and of the channel        *)
(* threads (medialib.c:82-138,161-184, server.c:255-273).                   *)
THEOREM MediaInvariant == SafetySpec => []MediaInv
<1>1. Init => MediaInv /\ NotStarted
  <2>1. Init => Len(chnlist) = 0
    BY EmptySeq DEF Init, MediaInit
  <2>2. QED
    BY <2>1, MediaInit_Inv DEF NotStarted
<1>2. MediaInv /\ NotStarted /\ [Next]_vars => MediaInv' /\ NotStarted'
  BY MediaStep, NotStartedStep
<1>3. QED
  BY <1>1, <1>2, PTL DEF SafetySpec

(* For every media directory, the list sent to the clients and channel[]    *)
(* agree, whichever directories fail half way (medialib.c:82,95-96,135-138).*)
THEOREM ListAlwaysAgrees == SafetySpec => []ListAgrees
<1>1. MediaInv => ListAgrees
  <2> SUFFICES ASSUME MediaInv
               PROVE  ListAgrees
    OBVIOUS
  <2>1. ASSUME NEW i \in 1 .. Len(chnlist), NEW j \in 1 .. Len(chnlist), i < j
        PROVE  channel[chnlist[i]].dir < channel[chnlist[j]].dir
    <3>1. chnlist[i] \in ChnId /\ chnlist[j] \in ChnId
      BY ElementOfSeq DEF MediaInv, MediaTypeOK
    <3>2. Used(chnlist[i]) /\ Used(chnlist[j])
      BY <3>1 DEF MediaInv, ListUsed
    <3>3. chnlist[i] < chnlist[j]
      BY <2>1 DEF MediaInv, ListSorted
    <3>4. QED
      BY <3>1, <3>2, <3>3 DEF MediaInv, ChannelsOrdered
  <2>2. QED
    BY <2>1 DEF MediaInv, ListSorted, ListUsed, ListAgrees
<1>2. QED
  BY <1>1, MediaInvariant, PTL

(* For any number of channels, whose threads open and close files in one    *)
(* table, a channel's descriptor stands for its own file, and none is left  *)
(* open (medialib.c:168-172).                                               *)
THEOREM DescriptorsStayOwned == SafetySpec => []DescriptorsOwned
<1>1. MediaInv => DescriptorsOwned
  BY DEF MediaInv
<1>2. QED
  BY <1>1, MediaInvariant, PTL

(* With at most MAXCHNID directories the scan never copies a context past   *)
(* the end of channel[], and the server crashes for two reasons only: it    *)
(* has no channel at all, or open_next's log line looks for the path of a   *)
(* channel that has fewer files than its identifier says (medialib.c:135,   *)
(* 174).                                                                    *)
THEOREM ScanInBounds ==
  ASSUME Len(Files) <= MAXCHNID
  PROVE  SafetySpec => [](/\ Scanning => curr_id \in ChnId
                          /\ process = "crashed" =>
                               chnlist = <<>> \/ \E c \in ChnId : Used(c) /\ WildPath(c))
<1> DEFINE InBounds == current \in Dir => curr_id \in ChnId
           Wild == \E c \in ChnId : Used(c) /\ WildPath(c)
           Safe == process = "crashed" => chnlist = <<>> \/ Wild
<1>1. Init => Safe
  BY DEF Init, MediaInit
<1>2. MediaInv => InBounds
  BY ConstantFacts DEF MediaInv, MediaTypeOK, IdsBounded, Dir, ChnId, MINCHNID
<1>3. MediaInv /\ Safe /\ [Next]_vars => Safe'
  <2> SUFFICES ASSUME MediaInv, Safe, [Next]_vars
               PROVE  Safe'
    OBVIOUS
  <2>1. CASE UNCHANGED vars
    <3>1. process' = process /\ chnlist' = chnlist /\ channel' = channel
      BY <2>1 DEF vars, mediaVars, scanVars
    <3>2. QED
      BY <3>1 DEF Used, WildPath
  <2>2. CASE Scan
    <3>1. process' # "crashed"
      BY <1>2, <2>2 DEF Scan, ScanFails, NotAChannel, NoMp3, EnterChannel, EnterPastEnd,
                        ScanDone, Scanning, Running
    <3>2. QED
      BY <3>1
  <2>3. CASE CreateList \/ CreateChannel \/ CreateFails \/ CreateDone
    BY <2>3 DEF CreateList, CreateChannel, CreateFails, CreateDone, Running, scanVars
  <2>4. ASSUME NEW c \in ChnId, OpenFails(c)
        PROVE  Safe'
    <3>1. Used(c)
      BY <2>4 DEF MediaInv, OnlyUsed, OpenFails
    <3>2. channel'[c].dir = channel[c].dir
      BY <2>4 DEF OpenFails, MediaInv, MediaTypeOK
    <3>3. process' = "crashed" => WildPath(c)
      BY <2>4 DEF OpenFails, Logged, Running
    <3>4. QED
      BY <3>1, <3>2, <3>3 DEF Used, WildPath
  <2>5. ASSUME NEW c \in ChnId, Sender(c) \/ SenderNoMemory(c), ~ OpenFails(c)
        PROVE  Safe'
    <3>1. process' # "crashed"
      BY <2>5 DEF Sender, SenderNoMemory, SenderStart, Send, SendFails, Read, ReadChannel,
                  FetchTokens, ReadData, ReadEnd, ReadFails, NextFile, OpenOk, Running
    <3>2. QED
      BY <3>1
  <2>6. QED
    BY <2>1, <2>2, <2>3, <2>4, <2>5 DEF Next, Main
<1>4. QED
  BY <1>1, <1>2, <1>3, MediaInvariant, PTL DEF SafetySpec, Scanning

-----------------------------------------------------------------------------
(* The client's count of losses *)

(* The types of what the client and the threads count with, and what is so  *)
(* before the first packet.                                                 *)
LossInv ==
  /\ seq \in [ChnId -> SeqNum] /\ tracker \in Tracker
  /\ gap \in SeqNum /\ missed \in SeqNum /\ lossy \in BOOLEAN
  /\ tracker.first_packet => gap = 0 /\ missed = 0
  /\ ~ tracker.first_packet => Chosen \in ChnId
  /\ LossExact

LEMMA LossFrame ==
  ASSUME LossInv, UNCHANGED <<seq, tracker, gap, missed, lossy>>
  PROVE  LossInv'
BY DEF LossInv, LossExact

LEMMA SeqNumFacts ==
  /\ 0 \in SeqNum /\ 0 \in SeqInt /\ ToInt(0) = 0 /\ SeqMod \in Int /\ SeqMod > 0
  /\ \A n \in SeqNum : n \in Int /\ (n + 0) % SeqMod = n /\ (n + 1) % SeqMod \in SeqNum
<1> DEFINE h == SeqMod \div 2
<1>1. SeqMod \in Nat /\ SeqMod > 0 /\ h \in Nat /\ SeqMod = 2 * h
  BY SeqModAssumption
<1>2. SeqInt = -h .. h - 1 /\ ToInt(0) = IF 0 < h THEN 0 ELSE 0 - SeqMod
  BY DEF SeqInt, ToInt
<1> HIDE DEF h
<1>3. 0 \in SeqNum /\ 0 \in SeqInt /\ ToInt(0) = 0
  BY <1>1, <1>2 DEF SeqNum
<1>4. ASSUME NEW n \in SeqNum
      PROVE  n \in Int /\ (n + 0) % SeqMod = n /\ (n + 1) % SeqMod \in SeqNum
  <2>1. n \in Int /\ n + 0 = n /\ n + 1 \in Int
    BY <1>1 DEF SeqNum
  <2>2. QED
    BY <2>1, ModSmall, ModDivision
<1>5. QED
  BY <1>1, <1>3, <1>4

LEMMA LossInit == Init => LossInv
<1>1. SUFFICES ASSUME Init
               PROVE  LossInv
  OBVIOUS
<1>2. /\ tracker = [first_packet |-> TRUE, expected_seq |-> 0, packet_loss_count |-> 0]
      /\ gap = 0 /\ missed = 0 /\ lossy = FALSE /\ seq = [c \in ChnId |-> 0]
  BY <1>1 DEF Init, NewTracker
<1>3. tracker \in Tracker
  BY <1>2, SeqNumFacts DEF Tracker
<1>4. QED
  BY <1>2, <1>3, SeqNumFacts DEF LossInv, LossExact

(* The client accepts the packet its channel's thread has sent.             *)
LEMMA AcceptedLoss ==
  ASSUME LossInv, Chosen \in ChnId, Accepted(Chosen),
         seq' = [seq EXCEPT ![Chosen] = (@ + 1) % SeqMod]
  PROVE  LossInv'
<1> DEFINE s == seq[Chosen]
<1>1. s \in SeqNum /\ tracker \in Tracker /\ gap \in SeqNum /\ missed \in SeqNum
  BY DEF LossInv
<1>2. tracker' = Tracked(tracker, s) /\ missed' = (missed + gap) % SeqMod /\ gap' = 0
      /\ lossy' = lossy
  BY DEF Accepted
<1>3. /\ tracker' \in Tracker /\ tracker'.first_packet = FALSE
      /\ tracker'.expected_seq = (s + 1) % SeqMod
      /\ tracker'.packet_loss_count =
            IF tracker.first_packet THEN tracker.packet_loss_count
            ELSE ToInt((tracker.packet_loss_count + Gap(tracker, s)) % SeqMod)
  BY <1>1, <1>2, TrackedType
<1>4. seq' \in [ChnId -> SeqNum] /\ seq'[Chosen] = (s + 1) % SeqMod
  BY <1>1, SeqNumFacts DEF LossInv
<1>5. missed' \in SeqNum /\ ToInt((ToInt(missed) + gap) % SeqMod) = ToInt(missed')
  BY <1>1, <1>2, LossSum
<1>6. tracker'.packet_loss_count = ToInt(missed')
  <2>1. CASE tracker.first_packet
    <3>1. gap = 0 /\ missed = 0 /\ tracker.packet_loss_count = ToInt(0)
      BY <2>1 DEF LossInv, LossExact
    <3>2. missed' = 0
      BY <1>2, <3>1, SeqNumFacts
    <3>3. QED
      BY <1>3, <2>1, <3>1, <3>2
  <2>2. CASE ~ tracker.first_packet
    <3>1. s = (tracker.expected_seq + gap) % SeqMod /\ tracker.packet_loss_count = ToInt(missed)
      BY <2>2 DEF LossInv, LossExact
    <3>2. Gap(tracker, s) = gap
      BY <1>1, <3>1, GapExact
    <3>3. QED
      BY <1>3, <1>5, <2>2, <3>1, <3>2
  <2>3. QED
    BY <2>1, <2>2
<1>7. seq'[Chosen] = (tracker'.expected_seq + gap') % SeqMod
  <2>1. (s + 1) % SeqMod \in SeqNum
    BY <1>1, SeqNumFacts
  <2>2. QED
    BY <1>2, <1>3, <1>4, <2>1, SeqNumFacts
<1>8. lossy' \in BOOLEAN /\ gap' \in SeqNum
  BY <1>2, SeqNumFacts DEF LossInv
<1>9. QED
  BY <1>3, <1>4, <1>5, <1>6, <1>7, <1>8 DEF LossInv, LossExact

(* It does not: the packet is short, or lost.                               *)
LEMMA NotAcceptedLoss ==
  ASSUME LossInv, Chosen \in ChnId, NotAccepted, lossy' \in BOOLEAN,
         seq' = [seq EXCEPT ![Chosen] = (@ + 1) % SeqMod]
  PROVE  LossInv'
<1>1. /\ seq[Chosen] \in SeqNum /\ tracker \in Tracker /\ gap \in SeqNum /\ missed \in SeqNum
      /\ tracker.expected_seq \in SeqNum
  BY DEF LossInv, Tracker
<1>2. /\ tracker' = tracker /\ missed' = missed
      /\ gap' = IF tracker.first_packet THEN 0 ELSE (gap + 1) % SeqMod
  BY DEF NotAccepted
<1>3. seq' \in [ChnId -> SeqNum] /\ seq'[Chosen] = (seq[Chosen] + 1) % SeqMod
  BY <1>1, SeqNumFacts DEF LossInv
<1>4. gap' \in SeqNum
  BY <1>1, <1>2, SeqNumFacts
<1>5. ASSUME ~ tracker.first_packet
      PROVE  seq'[Chosen] = (tracker.expected_seq + gap') % SeqMod
  <2>1. seq[Chosen] = (tracker.expected_seq + gap) % SeqMod
    BY <1>5 DEF LossInv, LossExact
  <2>2. QED
    BY <1>1, <1>2, <1>3, <1>5, <2>1, NextSeq
<1>6. QED
  BY <1>2, <1>3, <1>4, <1>5 DEF LossInv, LossExact

(* A packet is sent only with a length, never with the -1 of a failed read. *)
SendsLength == \A c \in ChnId : pc[c] = "send" => len[c] \in Nat

LEMMA SendsLengthStep == MediaInv /\ SendsLength /\ [Next]_vars => SendsLength'
<1> SUFFICES ASSUME MediaInv, SendsLength, [Next]_vars
             PROVE  SendsLength'
  OBVIOUS
<1>0. /\ len \in [ChnId -> Int]
      /\ pc \in [ChnId -> {"none", "start", "fetch", "read", "next", "open", "send", "ended"}]
  BY DEF MediaInv, MediaTypeOK
<1>1. ASSUME len' = len, \A c \in ChnId : pc'[c] = "send" => pc[c] = "send"
      PROVE  SendsLength'
  BY <1>1 DEF SendsLength
<1>2. CASE UNCHANGED vars
  BY <1>1, <1>2 DEF vars, mediaVars, readVars
<1>3. CASE Main \/ CreateFails
  <2>1. len' = len
    BY <1>3 DEF Main, Scan, ScanFails, NotAChannel, NoMp3, EnterChannel, EnterPastEnd, ScanDone,
                CreateList, CreateChannel, CreateDone, CreateFails, readVars
  <2>2. pc' = pc \/ pc' = [pc EXCEPT ![chnlist[created + 1]] = "start"]
    BY <1>3 DEF Main, Scan, ScanFails, NotAChannel, NoMp3, EnterChannel, EnterPastEnd, ScanDone,
                CreateList, CreateChannel, CreateDone, CreateFails
  <2>3. QED
    BY <1>0, <1>1, <2>1, <2>2
<1>4. ASSUME NEW c \in ChnId, SenderStart(c) \/ SenderNoMemory(c) \/ Send(c) \/ SendFails(c)
      PROVE  SendsLength'
  <2>1. len' = len /\ (pc' = pc \/ pc' = [pc EXCEPT ![c] = "fetch"] \/ pc' = [pc EXCEPT ![c] = "ended"])
    BY <1>4 DEF SenderStart, SenderNoMemory, Send, SendFails, readVars
  <2>2. QED
    BY <1>0, <1>1, <2>1
<1>5. ASSUME NEW c \in ChnId, ReadChannel(c)
      PROVE  SendsLength'
  <2>1. CASE FetchTokens(c) \/ NextFile(c) \/ ReadEnd(c) \/ ReadFails(c)
    <3>1. /\ \E l \in {"read", "next", "open"} : pc' = [pc EXCEPT ![c] = l]
          /\ len' = len \/ \E n \in Int : len' = [len EXCEPT ![c] = n]
      BY <2>1 DEF FetchTokens, NextFile, ReadEnd, ReadFails, readVars
    <3>2. QED
      BY <1>0, <3>1 DEF SendsLength
  <2>2. CASE ReadData(c)
    <3>1. PICK n : /\ len' = [len EXCEPT ![c] = n] /\ pc' = [pc EXCEPT ![c] = "send"]
                   /\ segment' = [segment EXCEPT ![c] =
                                    [file |-> OpenFile(c), from |-> channel[c].offset, len |-> n]]
      BY <2>2 DEF ReadData
    <3>2. segment' \in [ChnId -> Segment] /\ segment \in [ChnId -> Segment]
      BY <1>5, ReadType DEF MediaInv, MediaTypeOK
    <3>3. segment'[c].len = n
      BY <3>1, <3>2
    <3>4. n \in Nat
      BY <3>2, <3>3 DEF Segment
    <3>5. QED
      BY <1>0, <3>1, <3>4 DEF SendsLength
  <2>3. CASE OpenOk(c) \/ OpenFails(c)
    <3>1. /\ len' = len
          /\ \/ pc' = [pc EXCEPT ![c] = "next"]
             \/ pc' = [pc EXCEPT ![c] = IF len[c] < 0 THEN "read" ELSE "send"]
      BY <2>3 DEF OpenOk, OpenFails, AfterOpenNext
    <3>2. QED
      BY <1>0, <3>1 DEF SendsLength
  <2>4. QED
    BY <1>5, <2>1, <2>2, <2>3 DEF ReadChannel
<1>6. QED
  BY <1>2, <1>3, <1>4, <1>5 DEF Next, Sender, Read

LEMMA SendLoss ==
  ASSUME LossInv, SendsLength, NEW c \in ChnId, Send(c)
  PROVE  LossInv'
<1>1. seq' = [seq EXCEPT ![c] = (@ + 1) % SeqMod]
  BY DEF Send
<1>2. CASE c # Chosen
  <2>1. UNCHANGED <<tracker, gap, missed, lossy>>
    BY <1>2 DEF Send, clientVars
  <2>2. seq' \in [ChnId -> SeqNum]
    BY <1>1, SeqNumFacts DEF LossInv
  <2>3. Chosen \in ChnId => seq'[Chosen] = seq[Chosen]
    BY <1>1, <1>2 DEF LossInv
  <2>4. QED
    BY <2>1, <2>2, <2>3 DEF LossInv, LossExact
<1>3. CASE c = Chosen
  <2>1. Accepted(Chosen) \/ (NotAccepted /\ lossy' \in {lossy, TRUE})
    <3>1. CASE len[c] = 0
      BY <1>3, <3>1 DEF Send
    <3>2. CASE len[c] > 0
      BY <1>3, <3>2 DEF Send
    <3>3. len[c] \in Nat
      BY DEF Send, SendsLength
    <3>4. len[c] = 0 \/ len[c] > 0
      BY <3>3
    <3>5. QED
      BY <3>1, <3>2, <3>4, Zenon
  <2>2. lossy \in BOOLEAN
    BY DEF LossInv
  <2>3. QED
    BY <1>1, <1>3, <2>1, <2>2, AcceptedLoss, NotAcceptedLoss
<1>4. QED
  BY <1>2, <1>3

LEMMA LossNext == LossInv /\ SendsLength /\ [Next]_vars => LossInv'
<1> SUFFICES ASSUME LossInv, SendsLength, [Next]_vars
             PROVE  LossInv'
  OBVIOUS
<1>1. CASE UNCHANGED vars
  BY <1>1, LossFrame DEF vars, clientVars
<1>2. CASE Main \/ CreateFails
  BY <1>2, LossFrame DEF Main, CreateList, CreateChannel, CreateDone, CreateFails, clientVars
<1>3. ASSUME NEW c \in ChnId,
             SenderStart(c) \/ SenderNoMemory(c) \/ Read(c) \/ SendFails(c)
      PROVE  LossInv'
  BY <1>3, LossFrame DEF SenderStart, SenderNoMemory, Read, SendFails, clientVars
<1>4. QED
  BY <1>1, <1>2, <1>3, SendLoss DEF Next, Sender

LEMMA LossInvariance == SafetySpec => []LossInv
<1>1. Init => SendsLength
  BY DEF Init, MediaInit, SendsLength
<1>2. QED
  BY <1>1, LossInit, LossNext, SendsLengthStep, MediaInvariant, PTL DEF SafetySpec

(* Whatever the network loses and the media library reads as nothing, the   *)
(* client's count of losses is the number of packets it did not accept      *)
(* between the first and the last it did, modulo 2^32                       *)
(* (thr_channel.c:46,66, recv_thr.c:112-127).                               *)
THEOREM LossesCountedExactly == SafetySpec => []LossExact
<1>1. LossInv => LossExact
  BY DEF LossInv
<1>2. QED
  BY <1>1, LossInvariance, PTL

(* Type correctness of the server and its listener: every sequence number,  *)
(* gap and count keeps its width, and main() creates no more channel        *)
(* threads than there are channels (server.c:255-273).                      *)
THEOREM BroadcastTypeCorrect == SafetySpec => []BroadcastTypeOK
<1> DEFINE Bounded == created \in Nat /\ created <= Len(chnlist)
<1>1. Init => Bounded
  BY EmptySeq DEF Init, MediaInit
<1>2. MediaInv /\ Bounded /\ [Next]_vars => Bounded'
  <2> SUFFICES ASSUME MediaInv, Bounded, [Next]_vars
               PROVE  Bounded'
    OBVIOUS
  <2>1. chnlist \in Seq(ChnId) /\ Len(chnlist) \in Nat
    BY LenProperties DEF MediaInv, MediaTypeOK
  <2>2. CASE UNCHANGED vars
    BY <2>2 DEF vars, mediaVars, scanVars
  <2>3. CASE Scan /\ UNCHANGED <<created, seq, clientVars>>
    <3>1. CASE EnterChannel
      <4>1. curr_id \in ChnId /\ chnlist' = Append(chnlist, curr_id) /\ created' = created
        BY <2>3, <3>1 DEF EnterChannel
      <4>2. Len(chnlist') = Len(chnlist) + 1
        BY <2>1, <4>1, AppendProperties
      <4>3. QED
        BY <2>1, <4>1, <4>2
    <3>2. CASE ScanFails \/ NotAChannel \/ NoMp3 \/ EnterPastEnd \/ ScanDone
      BY <2>3, <3>2 DEF ScanFails, NotAChannel, NoMp3, EnterPastEnd, ScanDone, scanVars
    <3>3. QED
      BY <2>3, <3>1, <3>2 DEF Scan
  <2>4. CASE CreateChannel
    <3>1. created' = created + 1 /\ created < Len(chnlist) /\ chnlist' = chnlist
      BY <2>4 DEF CreateChannel, scanVars
    <3>2. QED
      BY <2>1, <3>1
  <2>5. CASE CreateList \/ CreateFails \/ CreateDone
    BY <2>5 DEF CreateList, CreateFails, CreateDone, scanVars
  <2>6. ASSUME NEW c \in ChnId, Sender(c) \/ SenderNoMemory(c)
        PROVE  Bounded'
    BY <2>6 DEF Sender, SenderNoMemory, SenderStart, Send, SendFails, Read, ReadChannel,
                FetchTokens, ReadData, ReadEnd, ReadFails, NextFile, OpenOk, OpenFails, scanVars
  <2>7. QED
    BY <2>2, <2>3, <2>4, <2>5, <2>6 DEF Next, Main
<1>3. MediaInv /\ Bounded /\ LossInv => BroadcastTypeOK
  <2> SUFFICES ASSUME MediaInv, Bounded, LossInv
               PROVE  BroadcastTypeOK
    OBVIOUS
  <2>1. created \in 0 .. Len(chnlist)
    BY LenProperties DEF MediaInv, MediaTypeOK
  <2>2. QED
    BY <2>1 DEF MediaInv, LossInv, BroadcastTypeOK
<1>4. QED
  BY <1>1, <1>2, <1>3, LossInvariance, MediaInvariant, PTL DEF SafetySpec
=============================================================================
